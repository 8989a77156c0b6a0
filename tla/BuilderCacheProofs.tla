-------------------------- MODULE BuilderCacheProofs --------------------------
(***************************************************************************)
(* The routes of an IKEv2 connection, for addresses of every size and any  *)
(* number of ranges.                                                       *)
(*                                                                         *)
(* First what the operators compute: merge() and add(), remove(),          *)
(* toSubnets(), addAll() and removeAll() (MergeExact, AddExact,            *)
(* RemoveExact, ToSubnetsExact, AddAllExact, RemoveAllExact).  Then the    *)
(* invariant of BuilderCache, of which its properties follow.              *)
(*                                                                         *)
(* Loops are recursive functions: that the function exists, and what it    *)
(* has after each turn, are by induction on the turns.                     *)
(***************************************************************************)
EXTENDS BuilderCache, Induction, FiniteSetTheorems, TLAPS

(* The ends of a range.                                                    *)
LEMMA RangeType ==
    ASSUME NEW r \in IPRange
    PROVE  /\ r = [from |-> r.from, to |-> r.to]
           /\ r.from \in Int /\ r.to \in Int
           /\ 0 <= r.from /\ r.from <= r.to /\ r.to <= LAST
  BY RangeAssumption DEF IPRange, Address

(* A record of two addresses in order is a range.                          *)
LEMMA MakeRange ==
    ASSUME NEW a \in Int, NEW b \in Int, 0 <= a, a <= b, b <= LAST
    PROVE  /\ [from |-> a, to |-> b] \in IPRange
           /\ Addresses([from |-> a, to |-> b]) = a..b
  BY RangeAssumption DEF IPRange, Address, Addresses

(* Two ranges that overlap or touch.                                       *)
LEMMA Mergeable ==
    ASSUME NEW r \in IPRange, NEW s \in IPRange
    PROVE  (overlaps(r, s) \/ adjacent(r, s)) <=> ~(r.to + 1 < s.from \/ s.to + 1 < r.from)
  <1>1. /\ r.from \in Int /\ r.to \in Int /\ 0 <= r.from /\ r.from <= r.to /\ r.to <= LAST
        /\ s.from \in Int /\ s.to \in Int /\ 0 <= s.from /\ s.from <= s.to /\ s.to <= LAST
    BY RangeType
  <1>2. LAST \in Int
    BY RangeAssumption
  <1> QED
    BY <1>1, <1>2 DEF overlaps, adjacent, inc, dec

(* The hull of such ranges has their addresses and no others.              *)
LEMMA HullExact ==
    ASSUME NEW r \in IPRange, NEW s \in IPRange,
           ~(r.to + 1 < s.from \/ s.to + 1 < r.from)
    PROVE  Hull(r, s) \in IPRange /\ Addresses(Hull(r, s)) = Addresses(r) \cup Addresses(s)
  <1>1. /\ r.from \in Int /\ r.to \in Int /\ 0 <= r.from /\ r.from <= r.to /\ r.to <= LAST
        /\ s.from \in Int /\ s.to \in Int /\ 0 <= s.from /\ s.from <= s.to /\ s.to <= LAST
    BY RangeType
  <1> DEFINE a == IF r.from < s.from THEN r.from ELSE s.from
             b == IF r.to > s.to THEN r.to ELSE s.to
  <1>2. /\ a \in Int /\ b \in Int /\ 0 <= a /\ a <= b /\ b <= LAST
        /\ a..b = (r.from..r.to) \cup (s.from..s.to)
    BY <1>1
  <1>3. Hull(r, s) = [from |-> a, to |-> b]
    BY DEF Hull
  <1> HIDE DEF a, b
  <1>4. Hull(r, s) \in IPRange /\ Addresses(Hull(r, s)) = a..b
    BY <1>2, <1>3, MakeRange
  <1> QED
    BY <1>2, <1>4 DEF Addresses

(* merge() returns null for two ranges with an address in between, and     *)
(* otherwise the range of their addresses.                                 *)
THEOREM MergeExact ==
    ASSUME NEW r \in IPRange, NEW s \in IPRange
    PROVE  /\ merge(r, s) = NoRange <=> (r.to + 1 < s.from \/ s.to + 1 < r.from)
           /\ merge(r, s) # NoRange =>
                 /\ merge(r, s) \in IPRange
                 /\ Addresses(merge(r, s)) = Addresses(r) \cup Addresses(s)
  <1>1. CASE r.to + 1 < s.from \/ s.to + 1 < r.from
    BY <1>1, Mergeable DEF merge
  <1>2. CASE ~(r.to + 1 < s.from \/ s.to + 1 < r.from)
    <2>1. merge(r, s) = Hull(r, s)
      BY <1>2, Mergeable DEF merge
    <2>2. Hull(r, s) \in IPRange /\ Addresses(Hull(r, s)) = Addresses(r) \cup Addresses(s)
      BY <1>2, HullExact
    <2> QED
      BY <1>2, <2>1, <2>2, NoRangeAssumption
  <1> QED
    BY <1>1, <1>2

(* A turn of the loop of IPRangeSet.add(): one range of the set is taken   *)
(* out and united with the one to add.  No address is gained or lost, and  *)
(* the ranges that stay are as far apart as before.                        *)
THEOREM MergeStep ==
    ASSUME NEW set \in SUBSET IPRange, Merged(set),
           NEW range \in IPRange, NEW existing \in set,
           merge(existing, range) # NoRange
    PROVE  /\ merge(existing, range) \in IPRange
           /\ set \ {existing} \in SUBSET IPRange /\ Merged(set \ {existing})
           /\ AddressesOf(set \ {existing}) \cup Addresses(merge(existing, range))
                = AddressesOf(set) \cup Addresses(range)
  <1>1. /\ merge(existing, range) \in IPRange
        /\ Addresses(merge(existing, range)) = Addresses(existing) \cup Addresses(range)
    BY MergeExact
  <1>2. Merged(set \ {existing})
    BY DEF Merged
  <1>3. AddressesOf(set) = AddressesOf(set \ {existing}) \cup Addresses(existing)
    BY DEF AddressesOf
  <1> QED
    BY <1>1, <1>2, <1>3

(* The loop ends when the range can be united with none of the set.        *)
THEOREM AddDone ==
    ASSUME NEW set \in SUBSET IPRange, Merged(set), NEW range \in IPRange,
           \A r \in set : merge(r, range) = NoRange
    PROVE  /\ set \cup {range} \in SUBSET IPRange /\ Merged(set \cup {range})
           /\ AddressesOf(set \cup {range}) = AddressesOf(set) \cup Addresses(range)
  <1>1. \A r \in set : r.to + 1 < range.from \/ range.to + 1 < r.from
    BY MergeExact
  <1>2. Merged(set \cup {range})
    BY <1>1 DEF Merged
  <1>3. AddressesOf(set \cup {range}) = AddressesOf(set) \cup Addresses(range)
    BY DEF AddressesOf
  <1> QED
    BY <1>2, <1>3

-----------------------------------------------------------------------------
(* IPRange.remove(), by how the ranges lie.                                *)

(* One end of r is outside s: what is left is one range.                   *)
LEMMA OneIsLeft ==
    ASSUME NEW r \in IPRange, NEW s \in IPRange,
           overlaps(r, s), ~contains(s, r), ~(r.from < s.from /\ s.to < r.to)
    PROVE  \E t \in IPRange :
              removeRange(r, s) = {t} /\ Addresses(t) = Addresses(r) \ Addresses(s)
  <1>1. /\ r.from \in Int /\ r.to \in Int /\ 0 <= r.from /\ r.from <= r.to /\ r.to <= LAST
        /\ s.from \in Int /\ s.to \in Int /\ 0 <= s.from /\ s.from <= s.to /\ s.to <= LAST
    BY RangeType
  <1> DEFINE a == IF r.from < s.from THEN r.from ELSE inc(s.to)
             b == IF r.to > s.to THEN r.to ELSE dec(s.from)
  <1>2. removeRange(r, s) = {[from |-> a, to |-> b]}
    BY DEF removeRange
  <1>3. CASE r.from < s.from
    <2>1. ~(s.to < r.to) /\ ~(r.to < s.from) /\ s.from # 0
      BY <1>1, <1>3 DEF overlaps
    <2>2. a = r.from /\ b = s.from - 1
      BY <1>1, <1>3, <2>1 DEF dec
    <2>3. a..b = (r.from..r.to) \ (s.from..s.to)
      BY <1>1, <1>3, <2>1, <2>2
    <2>4. a \in Int /\ b \in Int /\ 0 <= a /\ a <= b /\ b <= LAST
      BY <1>1, <1>3, <2>2, RangeAssumption
    <2> HIDE DEF a, b
    <2> QED
      BY <1>2, <2>3, <2>4, MakeRange DEF Addresses
  <1>4. CASE ~(r.from < s.from)
    <2>1. s.to < r.to /\ ~(s.to < r.from) /\ s.to # LAST
      BY <1>1, <1>4 DEF overlaps, contains
    <2>2. a = s.to + 1 /\ b = r.to
      BY <1>1, <1>4, <2>1 DEF inc
    <2>3. a..b = (r.from..r.to) \ (s.from..s.to)
      BY <1>1, <1>4, <2>1, <2>2
    <2>4. a \in Int /\ b \in Int /\ 0 <= a /\ a <= b /\ b <= LAST
      BY <1>1, <2>1, <2>2
    <2> HIDE DEF a, b
    <2> QED
      BY <1>2, <2>3, <2>4, MakeRange DEF Addresses
  <1> QED
    BY <1>3, <1>4

(* s is within r: there is a range on either side of it.                   *)
LEMMA TwoAreLeft ==
    ASSUME NEW r \in IPRange, NEW s \in IPRange, r.from < s.from, s.to < r.to
    PROVE  \E t, u \in IPRange :
              /\ removeRange(r, s) = {t, u}
              /\ Addresses(t) \cup Addresses(u) = Addresses(r) \ Addresses(s)
              /\ r.from <= t.from /\ t.to + 1 < u.from /\ u.to <= r.to
  <1>1. /\ r.from \in Int /\ r.to \in Int /\ 0 <= r.from /\ r.from <= r.to /\ r.to <= LAST
        /\ s.from \in Int /\ s.to \in Int /\ 0 <= s.from /\ s.from <= s.to /\ s.to <= LAST
    BY RangeType
  <1> DEFINE t == [from |-> r.from, to |-> s.from - 1]
             u == [from |-> s.to + 1, to |-> r.to]
  <1>2. removeRange(r, s) = {t, u}
    <2>1. overlaps(r, s) /\ ~contains(s, r)
      BY <1>1 DEF overlaps, contains
    <2>2. dec(s.from) = s.from - 1 /\ inc(s.to) = s.to + 1
      BY <1>1 DEF dec, inc
    <2> QED
      BY <2>1, <2>2 DEF removeRange
  <1>3. t \in IPRange /\ Addresses(t) = r.from..(s.from - 1)
    <2>1. s.from - 1 \in Int /\ r.from <= s.from - 1 /\ s.from - 1 <= LAST
      BY <1>1, RangeAssumption
    <2> QED
      BY <1>1, <2>1, MakeRange
  <1>4. u \in IPRange /\ Addresses(u) = (s.to + 1)..r.to
    <2>1. s.to + 1 \in Int /\ 0 <= s.to + 1 /\ s.to + 1 <= r.to
      BY <1>1
    <2> QED
      BY <1>1, <2>1, MakeRange
  <1>5. (r.from..(s.from - 1)) \cup ((s.to + 1)..r.to) = (r.from..r.to) \ (s.from..s.to)
    BY <1>1
  <1>6. Addresses(t) \cup Addresses(u) = Addresses(r) \ Addresses(s)
    BY <1>3, <1>4, <1>5 DEF Addresses
  <1>7. r.from <= t.from /\ t.to + 1 < u.from /\ u.to <= r.to
    BY <1>1
  <1> QED
    BY <1>2, <1>3, <1>4, <1>6, <1>7

(* remove() leaves the addresses of this range that are not in the other,  *)
(* as ranges with a gap between them.                                      *)
THEOREM RangeRemoved ==
    ASSUME NEW r \in IPRange, NEW s \in IPRange
    PROVE  /\ removeRange(r, s) \in SUBSET IPRange
           /\ Merged(removeRange(r, s))
           /\ AddressesOf(removeRange(r, s)) = Addresses(r) \ Addresses(s)
  <1>1. /\ r.from \in Int /\ r.to \in Int /\ 0 <= r.from /\ r.from <= r.to /\ r.to <= LAST
        /\ s.from \in Int /\ s.to \in Int /\ 0 <= s.from /\ s.from <= s.to /\ s.to <= LAST
    BY RangeType
  <1>2. CASE ~overlaps(r, s)
    <2>1. removeRange(r, s) = {r}
      BY <1>2 DEF removeRange
    <2>2. Addresses(r) = Addresses(r) \ Addresses(s)
      BY <1>1, <1>2 DEF overlaps, Addresses
    <2> QED
      BY <2>1, <2>2 DEF Merged, AddressesOf
  <1>3. CASE overlaps(r, s) /\ contains(s, r)
    <2>1. removeRange(r, s) = {}
      BY <1>3 DEF removeRange
    <2>2. Addresses(r) \ Addresses(s) = {}
      BY <1>1, <1>3 DEF contains, Addresses
    <2> QED
      BY <2>1, <2>2 DEF Merged, AddressesOf
  <1>4. CASE overlaps(r, s) /\ ~contains(s, r) /\ ~(r.from < s.from /\ s.to < r.to)
    <2>1. PICK t \in IPRange : removeRange(r, s) = {t} /\ Addresses(t) = Addresses(r) \ Addresses(s)
      BY <1>4, OneIsLeft
    <2> QED
      BY <2>1 DEF Merged, AddressesOf
  <1>5. CASE r.from < s.from /\ s.to < r.to
    <2>1. PICK t, u \in IPRange :
              /\ removeRange(r, s) = {t, u}
              /\ Addresses(t) \cup Addresses(u) = Addresses(r) \ Addresses(s)
              /\ t.to + 1 < u.from
      BY <1>5, TwoAreLeft
    <2>2. Merged({t, u})
      BY <2>1 DEF Merged
    <2>3. AddressesOf({t, u}) = Addresses(t) \cup Addresses(u)
      BY DEF AddressesOf
    <2> QED
      BY <2>1, <2>2, <2>3
  <1> QED
    BY <1>2, <1>3, <1>4, <1>5

(* What is left lies within the range it was taken from.                   *)
LEMMA LeftWithin ==
    ASSUME NEW r \in IPRange, NEW s \in IPRange, NEW t \in removeRange(r, s)
    PROVE  t \in IPRange /\ r.from <= t.from /\ t.to <= r.to
  <1>1. t \in IPRange /\ Addresses(t) \subseteq Addresses(r)
    BY RangeRemoved DEF AddressesOf
  <1>2. /\ r.from \in Int /\ r.to \in Int
        /\ t.from \in Int /\ t.to \in Int /\ t.from <= t.to
    BY <1>1, RangeType
  <1>3. t.from \in r.from..r.to /\ t.to \in r.from..r.to
    <2>1. t.from \in t.from..t.to /\ t.to \in t.from..t.to
      BY <1>2
    <2> QED
      BY <1>1, <2>1 DEF Addresses
  <1> QED
    BY <1>1, <1>2, <1>3

(* IPRangeSet.remove(): the set loses exactly the addresses of the range,  *)
(* and its ranges stay apart.                                              *)
THEOREM RemoveExact ==
    ASSUME NEW set \in SUBSET IPRange, Merged(set), NEW s \in IPRange
    PROVE  /\ remove(set, s) \in SUBSET IPRange
           /\ Merged(remove(set, s))
           /\ AddressesOf(remove(set, s)) = AddressesOf(set) \ Addresses(s)
  <1>1. \A r \in set : r \in IPRange /\ removeRange(r, s) \in SUBSET IPRange
    BY RangeRemoved
  <1>2. remove(set, s) \in SUBSET IPRange
    BY <1>1 DEF remove
  <1>3. Merged(remove(set, s))
    <2>1. SUFFICES ASSUME NEW t \in remove(set, s), NEW u \in remove(set, s), t # u
                   PROVE  t.to + 1 < u.from \/ u.to + 1 < t.from
      BY DEF Merged
    <2>2. PICK r \in set : t \in removeRange(r, s)
      BY DEF remove
    <2>3. PICK q \in set : u \in removeRange(q, s)
      BY DEF remove
    <2>4. CASE r = q
      BY <2>1, <2>2, <2>3, <2>4, RangeRemoved DEF Merged
    <2>5. CASE r # q
      <3>1. r.to + 1 < q.from \/ q.to + 1 < r.from
        BY <2>5 DEF Merged
      <3>2. t \in IPRange /\ r.from <= t.from /\ t.to <= r.to
        BY <2>2, LeftWithin
      <3>3. u \in IPRange /\ q.from <= u.from /\ u.to <= q.to
        BY <2>3, LeftWithin
      <3>4. /\ r.from \in Int /\ r.to \in Int /\ q.from \in Int /\ q.to \in Int
            /\ t.from \in Int /\ t.to \in Int /\ u.from \in Int /\ u.to \in Int
        BY <3>2, <3>3, RangeType
      <3> QED
        BY <3>1, <3>2, <3>3, <3>4
    <2> QED
      BY <2>4, <2>5
  <1>4. AddressesOf(remove(set, s)) = AddressesOf(set) \ Addresses(s)
    <2>1. \A r \in set : AddressesOf(removeRange(r, s)) = Addresses(r) \ Addresses(s)
      BY RangeRemoved
    <2>2. AddressesOf(remove(set, s)) = UNION {AddressesOf(removeRange(r, s)) : r \in set}
      BY DEF AddressesOf, remove
    <2>3. AddressesOf(remove(set, s)) = UNION {Addresses(r) \ Addresses(s) : r \in set}
      BY <2>1, <2>2
    <2> QED
      BY <2>3 DEF AddressesOf
  <1> QED
    BY <1>2, <1>3, <1>4

-----------------------------------------------------------------------------
(* Numbers.                                                                *)

(* A multiple of s that is less than another is so by s.                   *)
LEMMA Steps ==
    ASSUME NEW s \in Nat \ {0}, NEW m \in Nat, NEW n \in Nat, s * m < s * n
    PROVE  m < n /\ s * m + s <= s * n
<1>1. m < n
  <2> SUFFICES ASSUME n <= m PROVE FALSE
    OBVIOUS
  <2>1. s * n <= s * m
    OBVIOUS
  <2> QED BY <2>1
<1>2. s * (m + 1) <= s * n
  BY <1>1
<1> QED BY <1>1, <1>2

(* A factor less by one, or more by one.                                   *)
LEMMA OneLess ==
    ASSUME NEW s \in Nat, NEW m \in Nat, m - 1 \in Nat
    PROVE  s * (m - 1) = s * m - s /\ s * m - s \in Nat /\ s * m \in Nat
<1> DEFINE k == m - 1
<1>1. k \in Nat /\ m = k + 1
  OBVIOUS
<1> HIDE DEF k
<1>2. s * (k + 1) = s * k + s /\ s * k \in Nat
  BY <1>1
<1>3. s * m = s * k + s
  BY <1>1, <1>2
<1>4. s * k = s * m - s /\ s * m \in Nat
  <2> DEFINE p == s * k
             q == s * m
  <2>1. q = p + s /\ p \in Nat
    BY <1>2, <1>3
  <2> HIDE DEF p, q
  <2>2. p = q - s /\ q \in Nat
    BY <2>1
  <2> QED BY <2>2 DEF p, q
<1> QED BY <1>2, <1>4 DEF k

(* A factor more by one.                                                   *)
LEMMA OneMore ==
    ASSUME NEW s \in Nat, NEW m \in Nat
    PROVE  s * (m + 1) = s * m + s /\ s * m \in Nat
  OBVIOUS

(* The size of subnets.                                                    *)
Size(i) == 2^i

(* The smallest, the next, and the one of all addresses.                   *)
LEMMA SizeFacts ==
    /\ Size(0) = 1
    /\ \A i \in 0..WIDTH : Size(i) \in Nat \ {0} /\ Size(i + 1) = 2 * Size(i)
    /\ LAST = Size(WIDTH) - 1
    /\ WIDTH \in Nat /\ LAST \in Nat
<1>1. 2^0 = 1
  OBVIOUS
<1> QED BY <1>1, RangeAssumption, WidthAssumption, PowersAssumption DEF Size

(* A subnet has at least two of each smaller size.                         *)
LEMMA SizeGrows ==
    ASSUME NEW i \in 0..WIDTH, NEW j \in 0..WIDTH, j < i
    PROVE  2 * Size(j) <= Size(i)
<1> DEFINE T == {d \in Nat : j + 1 + d <= WIDTH => 2 * Size(j) <= Size(j + 1 + d)}
<1>1. 0 \in T
  <2>1. Size(j + 1) = 2 * Size(j) /\ Size(j) \in Nat /\ j + 1 + 0 = j + 1
    BY SizeFacts
  <2> QED BY <2>1
<1>2. ASSUME NEW d \in T PROVE d + 1 \in T
  <2> SUFFICES ASSUME j + 1 + (d + 1) <= WIDTH PROVE 2 * Size(j) <= Size(j + 1 + (d + 1))
    OBVIOUS
  <2>1. j + 1 + d \in 0..WIDTH /\ j + 1 + (d + 1) = (j + 1 + d) + 1 /\ j + 1 + d <= WIDTH
    BY SizeFacts
  <2>2. 2 * Size(j) <= Size(j + 1 + d)
    BY <2>1
  <2>3. Size(j + 1 + (d + 1)) = 2 * Size(j + 1 + d) /\ Size(j + 1 + d) \in Nat /\ Size(j) \in Nat
    BY <2>1, SizeFacts
  <2> QED BY <2>2, <2>3
<1>3. T = Nat
  <2>1. T \in SUBSET Nat
    OBVIOUS
  <2> HIDE DEF T
  <2> QED BY <1>1, <1>2, <2>1, NatInduct
<1>4. i - j - 1 \in Nat /\ j + 1 + (i - j - 1) = i /\ i <= WIDTH
  OBVIOUS
<1>5. i - j - 1 \in T
  <2> HIDE DEF T
  <2> QED BY <1>3, <1>4
<1> QED BY <1>4, <1>5

-----------------------------------------------------------------------------
(* Blocks: the subnets, by their size and number.                          *)

Block(i, m) == [from |-> Size(i) * m, to |-> Size(i) * m + Size(i) - 1]

(* Subnet() is the block that holds an address.                            *)
LEMMA SubnetIsBlock ==
    ASSUME NEW i \in 0..WIDTH, NEW a \in Nat
    PROVE  /\ Subnet(a, WIDTH - i) = Block(i, a \div Size(i))
           /\ a \in Nat /\ Size(i) * (a \div Size(i)) <= a
<1> DEFINE s == Size(i)
<1>1. s \in Nat \ {0} /\ WIDTH - (WIDTH - i) = i /\ WIDTH \in Nat
  BY SizeFacts
<1>2. /\ a \div s \in Nat /\ a % s \in Nat /\ a = s * (a \div s) + (a % s)
      /\ s * (a \div s) \in Nat /\ s * (a \div s) <= a
  BY <1>1, Parts
<1>3. Subnet(a, WIDTH - i) = [from |-> a - (a % s), to |-> a - (a % s) + s - 1]
  BY <1>1 DEF Subnet, Size
<1>4. a - (a % s) = s * (a \div s)
  <2> DEFINE p == s * (a \div s)
             t == a % s
  <2>1. p \in Nat /\ t \in Nat /\ a = p + t
    BY <1>2
  <2> HIDE DEF p, t
  <2>2. a - t = p
    BY <2>1
  <2> QED BY <2>2 DEF p, t
<1> QED BY <1>2, <1>3, <1>4 DEF Block

(* The ends of a block are in it, and it has its number.                   *)
LEMMA BlockFacts ==
    ASSUME NEW i \in 0..WIDTH, NEW m \in Nat
    PROVE  /\ Size(i) * m \in Nat
           /\ Block(i, m).from = Size(i) * m
           /\ Block(i, m).to = Size(i) * m + Size(i) - 1
           /\ Block(i, m).from \in Nat /\ Block(i, m).to \in Nat
           /\ Block(i, m).from <= Block(i, m).to
           /\ Block(i, m).from \div Size(i) = m
           /\ Block(i, m).to \div Size(i) = m
<1> DEFINE s == Size(i)
           p == s * m
<1>1. s \in Nat \ {0}
  BY SizeFacts
<1>2. p \in Nat
  BY <1>1
<1>3. p + 0 = p /\ p + (s - 1) = p + s - 1 /\ s - 1 \in Nat /\ s - 1 < s /\ 0 < s
  <2> HIDE DEF s, p
  <2> QED BY <1>1, <1>2
<1>4. p \div s = m /\ (p + s - 1) \div s = m
  <2>1. (p + 0) \div s = m
    BY <1>1, <1>3, Quotient
  <2>2. (p + (s - 1)) \div s = m
    BY <1>1, <1>3, Quotient
  <2> QED BY <1>3, <2>1, <2>2
<1>5. Block(i, m) = [from |-> p, to |-> p + s - 1]
  BY DEF Block
<1> HIDE DEF s, p
<1>6. p + s - 1 \in Nat /\ p <= p + s - 1
  BY <1>1, <1>2
<1> QED BY <1>2, <1>4, <1>5, <1>6 DEF s, p

(* The block of twice the size around a block.                             *)
LEMMA Around ==
    ASSUME NEW i \in 0..WIDTH, i < WIDTH, NEW m \in Nat
    PROVE  /\ m \div 2 \in Nat
           /\ Size(i + 1) * (m \div 2) = IF m % 2 = 0 THEN Size(i) * m ELSE Size(i) * m - Size(i)
           /\ (Size(i) * m) \div Size(i + 1) = m \div 2
<1> DEFINE s == Size(i)
           h == m \div 2
<1>1. s \in Nat \ {0} /\ Size(i + 1) = 2 * s
  BY SizeFacts
<1>2. h \in Nat /\ m % 2 \in {0, 1} /\ m = 2 * h + (m % 2)
  <2>1. m % 2 \in Nat /\ m % 2 < 2 /\ h \in Nat /\ m = 2 * h + (m % 2)
    BY Parts
  <2> HIDE DEF h
  <2> QED BY <2>1
<1> HIDE DEF s, h
<1>3. s * m = 2 * s * h + s * (m % 2)
  <2>1. CASE m % 2 = 0
    <3>1. m = 2 * h
      BY <1>2, <2>1
    <3> QED BY <1>1, <1>2, <2>1, <3>1
  <2>2. CASE m % 2 = 1
    <3>1. m = 2 * h + 1
      BY <1>2, <2>2
    <3>2. s * (2 * h + 1) = 2 * s * h + s * 1
      BY <1>1, <1>2
    <3> QED BY <2>2, <3>1, <3>2
  <2> QED BY <1>2, <2>1, <2>2
<1>4. 2 * s \in Nat \ {0} /\ s * (m % 2) \in {0, s}
  BY <1>1, <1>2
<1>5. (s * m) \div (2 * s) = h
  <2>1. s * (m % 2) \in Nat /\ s * (m % 2) < 2 * s
    BY <1>1, <1>4
  <2>2. (2 * s * h + s * (m % 2)) \div (2 * s) = h
    BY <1>2, <1>4, <2>1, Quotient
  <2> QED BY <1>3, <2>2
<1>6. 2 * s * h = IF m % 2 = 0 THEN s * m ELSE s * m - s
  BY <1>1, <1>2, <1>3
<1> QED BY <1>1, <1>2, <1>5, <1>6 DEF s, h

-----------------------------------------------------------------------------
(* What two addresses have in common.                                      *)

(* Max() is the number that is as large as the others.                     *)
LEMMA MaxIs ==
    ASSUME NEW S \in SUBSET Nat, NEW x \in S, \A y \in S : y <= x
    PROVE  Max(S) = x
<1>1. \E z \in S : \A y \in S : z >= y
  <2>1. \A y \in S : y \in Nat /\ x \in Nat /\ y <= x
    OBVIOUS
  <2>2. \A y \in S : x >= y
    BY <2>1
  <2> QED BY <2>2
<1>2. Max(S) \in S /\ \A y \in S : Max(S) >= y
  BY <1>1 DEF Max
<1>3. Max(S) \in Nat /\ x \in Nat /\ Max(S) >= x /\ x >= Max(S)
  BY <1>2
<1> HIDE DEF Max
<1> QED BY <1>3

(* A set of bounded numbers has it.                                        *)
LEMMA MaxExists ==
    ASSUME NEW n \in Nat, NEW S \in SUBSET (0..n), S # {}
    PROVE  Max(S) \in S /\ \A y \in S : y <= Max(S)
<1> DEFINE T == {k \in Nat : n - k \in S}
<1>1. T \in SUBSET Nat /\ T # {}
  <2>1. PICK y \in S : TRUE
    OBVIOUS
  <2>2. n - y \in Nat /\ n - (n - y) = y
    BY <2>1
  <2> QED BY <2>1, <2>2
<1>2. PICK t \in T : \A u \in T : t <= u
  <2> HIDE DEF T
  <2> QED BY <1>1, LeastNumber
<1> DEFINE x == n - t
<1>3. x \in S /\ t \in Nat
  BY <1>2
<1>4. \A y \in S : y <= x
  <2> SUFFICES ASSUME NEW y \in S PROVE y <= x
    OBVIOUS
  <2>1. y \in 0..n /\ n - y \in Nat /\ n - (n - y) = y
    OBVIOUS
  <2>2. t <= n - y
    BY <1>2, <2>1
  <2> QED BY <1>3, <2>1, <2>2
<1>5. S \in SUBSET Nat
  OBVIOUS
<1> HIDE DEF x
<1> QED BY <1>3, <1>4, <1>5, MaxIs

(* The prefixes two addresses share.                                       *)
Shared(a, b) == {p \in 0..WIDTH : a \div Size(WIDTH - p) = b \div Size(WIDTH - p)}

(* Common() is the longest prefix that both ends have.                     *)
LEMMA CommonFacts ==
    ASSUME NEW r \in IPRange
    PROVE  /\ Common(r) \in 0..WIDTH
           /\ r.from \div Size(WIDTH - Common(r)) = r.to \div Size(WIDTH - Common(r))
           /\ \A p \in 0..WIDTH : p > Common(r) =>
                 r.from \div Size(WIDTH - p) # r.to \div Size(WIDTH - p)
<1> DEFINE S == Shared(r.from, r.to)
           s == Size(WIDTH)
<1>1. /\ r.from \in Nat /\ r.to \in Nat /\ r.from < s /\ r.to < s /\ s \in Nat \ {0}
      /\ WIDTH \in Nat
  BY RangeType, SizeFacts
<1>2. r.from \div s = 0 /\ r.to \div s = 0
  <2> HIDE DEF s
  <2>1. s * 0 + r.from = r.from /\ s * 0 + r.to = r.to
    BY <1>1
  <2>2. (s * 0 + r.from) \div s = 0 /\ (s * 0 + r.to) \div s = 0
    BY <1>1, Quotient
  <2> QED BY <2>1, <2>2
<1>3. 0 \in S
  <2>1. 0 \in 0..WIDTH /\ WIDTH - 0 = WIDTH
    BY <1>1
  <2> QED BY <1>2, <2>1 DEF Shared
<1>4. S \in SUBSET (0..WIDTH) /\ Common(r) = Max(S)
  BY DEF Shared, Common, Size
<1>5. Max(S) \in S /\ \A y \in S : y <= Max(S)
  <2> HIDE DEF S
  <2> QED BY <1>1, <1>3, <1>4, MaxExists
<1>6. \A p \in 0..WIDTH : p > Common(r) => p \notin S
  BY <1>1, <1>4, <1>5
<1> QED BY <1>4, <1>5, <1>6 DEF Shared

(* A block is a subnet, of the prefix its size says.                       *)
LEMMA BlockIsSubnet ==
    ASSUME NEW i \in 0..WIDTH, NEW m \in Nat
    PROVE  Common(Block(i, m)) = WIDTH - i /\ IsSubnet(Block(i, m))
<1> DEFINE r == Block(i, m)
           S == Shared(r.from, r.to)
<1>1. WIDTH \in Nat /\ WIDTH - i \in 0..WIDTH /\ WIDTH - (WIDTH - i) = i
  BY SizeFacts
<1>2. /\ r.from \in Nat /\ r.to \in Nat /\ r.to = r.from + Size(i) - 1
      /\ r.from \div Size(i) = m /\ r.to \div Size(i) = m
  BY BlockFacts
<1> HIDE DEF r
<1>3. WIDTH - i \in S
  BY <1>1, <1>2 DEF Shared
<1>4. \A p \in S : p <= WIDTH - i
  <2> SUFFICES ASSUME NEW p \in S, p > WIDTH - i PROVE FALSE
    BY <1>1 DEF Shared
  <2> DEFINE j == WIDTH - p
             s == Size(j)
             q == r.from \div s
  <2>1. p \in 0..WIDTH /\ r.to \div s = q
    BY DEF Shared
  <2>2. j \in 0..WIDTH /\ j < i
    BY <1>1, <2>1
  <2>3. 2 * s <= Size(i) /\ s \in Nat \ {0} /\ Size(i) \in Nat
    BY <2>2, SizeGrows, SizeFacts
  <2>4. /\ q \in Nat /\ s * q \in Nat
        /\ s * q <= r.from /\ r.to < s * q + s
    BY <1>2, <2>1, <2>3, Parts
  <2> HIDE DEF s, q
  <2> QED BY <1>2, <2>3, <2>4
<1>5. Max(S) = WIDTH - i
  <2>1. S \in SUBSET Nat
    BY <1>1 DEF Shared
  <2> HIDE DEF S
  <2> QED BY <1>3, <1>4, <2>1, MaxIs
<1>6. Common(r) = Max(S)
  BY DEF Shared, Common, Size
<1>7. Subnet(r.from, WIDTH - i) = Block(i, m)
  BY <1>2, SubnetIsBlock
<1> QED BY <1>5, <1>6, <1>7 DEF IsSubnet, r

-----------------------------------------------------------------------------
(* The list of toSubnets().  It has the addresses below up and above down. *)

(* The subnet is not half of one the range has, too.                       *)
Largest(s, r) ==
    \E i \in 0..WIDTH - 1, m \in Nat :
        s = Block(i, m) /\ ~contains(r, Block(i + 1, m \div 2))

Split(list, r, up, down) ==
    /\ \A s \in list :
          /\ Largest(s, r)
          /\ s.from \in Int /\ s.to \in Int
          /\ r.from <= s.from /\ s.from <= s.to /\ s.to <= r.to
          /\ s.to < up \/ down < s.from
    /\ \A s, t \in list : s # t => ~overlaps(s, t)
    /\ \A x \in r.from..r.to : x < up \/ down < x => \E s \in list : s.from <= x /\ x <= s.to

(* A subnet more at either end of the gap.                                 *)
LEMMA SplitMore ==
    ASSUME NEW r \in IPRange, NEW list,
           NEW up \in Int, NEW down \in Int, NEW up2 \in Int, NEW down2 \in Int,
           r.from <= up, up <= up2, up2 <= down2 + 1, down2 <= down, down <= r.to,
           Split(list, r, up, down),
           NEW s, Largest(s, r), s.from \in Int, s.to \in Int, s.from <= s.to,
           \/ s.from = up /\ s.to = up2 - 1 /\ down2 = down
           \/ s.from = down2 + 1 /\ s.to = down /\ up2 = up
    PROVE  Split(list \cup {s}, r, up2, down2)
<1>1. r.from \in Int /\ r.to \in Int
  BY RangeType
<1>2. ASSUME NEW t \in list PROVE t.from \in Int /\ t.to \in Int /\ ~overlaps(s, t) /\ ~overlaps(t, s)
                                  /\ (t.to < up2 \/ down2 < t.from)
  <2>1. /\ t.from \in Int /\ t.to \in Int /\ r.from <= t.from /\ t.from <= t.to /\ t.to <= r.to
        /\ t.to < up \/ down < t.from
    BY DEF Split
  <2> QED BY <2>1 DEF overlaps
<1>3. ASSUME NEW t \in list \cup {s}
      PROVE  /\ Largest(t, r)
             /\ t.from \in Int /\ t.to \in Int
             /\ r.from <= t.from /\ t.from <= t.to /\ t.to <= r.to
             /\ t.to < up2 \/ down2 < t.from
  <2>1. CASE t \in list
    BY <1>2, <2>1 DEF Split
  <2>2. CASE t = s
    BY <1>1, <2>2
  <2> QED BY <2>1, <2>2
<1>4. \A t, u \in list \cup {s} : t # u => ~overlaps(t, u)
  BY <1>2 DEF Split
<1>5. ASSUME NEW x \in r.from..r.to, x < up2 \/ down2 < x
      PROVE  \E t \in list \cup {s} : t.from <= x /\ x <= t.to
  <2>1. CASE x < up \/ down < x
    BY <2>1 DEF Split
  <2>2. CASE ~(x < up \/ down < x)
    BY <1>1, <1>5, <2>2
  <2> QED BY <2>1, <2>2
<1> HIDE DEF Largest
<1> QED BY <1>3, <1>4, <1>5 DEF Split

-----------------------------------------------------------------------------
(* A turn of the loop of toSubnets().                                      *)

(* Clearing a bit, and the halves of the block around.                     *)
LEMMA Bits ==
    ASSUME NEW i \in 0..WIDTH, i < WIDTH, NEW m \in Nat, NEW f, f = Size(i) * m
    PROVE  /\ BitOf(f, i) = m % 2 /\ m % 2 \in {0, 1}
           /\ Clear(f, i) = IF m % 2 = 0 THEN f ELSE f - Size(i)
           /\ Clear(f, i) = Size(i + 1) * (m \div 2) /\ m \div 2 \in Nat
           /\ m % 2 = 0 => /\ Subnet(Clear(f, i) + 2^i, WIDTH - i) = Block(i, m + 1)
                           /\ Subnet(Clear(f, i), WIDTH - i) = Block(i, m)
                           /\ (m + 1) \div 2 = m \div 2
           /\ m % 2 = 1 => /\ Subnet(Clear(f, i) + 2^i, WIDTH - i) = Block(i, m)
                           /\ Subnet(Clear(f, i), WIDTH - i) = Block(i, m - 1)
                           /\ m - 1 \in Nat /\ (m - 1) \div 2 = m \div 2
<1> DEFINE s == Size(i)
           h == m \div 2
<1>1. s \in Nat \ {0} /\ s = 2^i
  BY SizeFacts DEF Size
<1>2. /\ h \in Nat /\ m % 2 \in {0, 1} /\ m = 2 * h + (m % 2)
      /\ Size(i + 1) * h = IF m % 2 = 0 THEN s * m ELSE s * m - s
  <2>1. m % 2 \in Nat /\ m % 2 < 2 /\ h \in Nat /\ m = 2 * h + (m % 2)
    BY Parts
  <2> QED BY <2>1, Around
<1>3. f \div s = m /\ f \in Nat
  BY BlockFacts
<1>4. BitOf(f, i) = m % 2
  BY <1>1, <1>3 DEF BitOf
<1>5. Clear(f, i) = IF m % 2 = 0 THEN f ELSE f - s
  <2>1. Clear(f, i) = f - ((m % 2) * s)
    BY <1>1, <1>4 DEF Clear
  <2>2. (m % 2) * s = IF m % 2 = 0 THEN 0 ELSE s
    <3> HIDE DEF s
    <3> QED BY <1>1, <1>2
  <2> HIDE DEF s
  <2> QED BY <1>1, <1>2, <1>3, <2>1, <2>2
<1>6. CASE m % 2 = 0
  <2>1. (m + 1) \div 2 = h
    <3>1. (2 * h + 1) \div 2 = h
      BY <1>2, Quotient
    <3> QED BY <1>2, <1>6, <3>1
  <2>2. f + s = s * (m + 1) /\ f + s \in Nat /\ m + 1 \in Nat
    <3> HIDE DEF s
    <3>1. f = s * m
      BY DEF s
    <3> QED BY <1>1, <1>3, <3>1
  <2>3. (f + s) \div s = m + 1
    BY <2>2, BlockFacts
  <2>4. Subnet(f + s, WIDTH - i) = Block(i, m + 1) /\ Subnet(f, WIDTH - i) = Block(i, m)
    BY <1>3, <2>2, <2>3, SubnetIsBlock
  <2> QED BY <1>1, <1>2, <1>4, <1>5, <1>6, <2>1, <2>4
<1>7. CASE m % 2 = 1
  <2>1. m - 1 \in Nat /\ (m - 1) \div 2 = h
    <3>1. (2 * h + 0) \div 2 = h
      BY <1>2, Quotient
    <3>2. m - 1 = 2 * h + 0
      <4> HIDE DEF h
      <4> QED BY <1>2, <1>7
    <3>3. m - 1 \in Nat
      <4> HIDE DEF h
      <4> QED BY <1>2, <3>2
    <3> QED BY <3>1, <3>2, <3>3
  <2>2. f - s = s * (m - 1) /\ f - s \in Nat /\ (f - s) + s = f
    <3>1. f = s * m
      OBVIOUS
    <3> HIDE DEF s
    <3>2. s * (m - 1) = s * m - s /\ s * m - s \in Nat
      BY <1>1, <2>1, OneLess
    <3> QED BY <1>1, <1>3, <3>1, <3>2
  <2>3. (f - s) \div s = m - 1
    <3> DEFINE k == m - 1
    <3>1. k \in Nat
      BY <2>1
    <3> HIDE DEF k
    <3>2. Block(i, k).from = Size(i) * k /\ Block(i, k).from \div Size(i) = k
      BY <3>1, BlockFacts
    <3>3. f - s = Size(i) * k
      BY <2>2 DEF k
    <3> QED BY <3>2, <3>3 DEF k
  <2>4. Subnet(f - s, WIDTH - i) = Block(i, m - 1) /\ Subnet(f, WIDTH - i) = Block(i, m)
    BY <1>3, <2>2, <2>3, SubnetIsBlock
  <2> QED BY <1>1, <1>2, <1>4, <1>5, <1>7, <2>1, <2>2, <2>4
<1> QED BY <1>2, <1>6, <1>7

(* What there is below and above the gap after k bits.                     *)
Up(w, k, r) == IF w.fromPrev = 0 THEN r.from ELSE w.from + Size(k)
Down(w, k, r) == IF w.toPrev = 1 THEN r.to ELSE w.to - 1

(* The two ends have climbed to the blocks they are in.                    *)
LowerEnd(w, k, r) ==
    /\ \E m \in Nat : w.from = Size(k) * m
    /\ w.from <= r.from /\ r.from < w.from + Size(k)
    /\ w.fromPrev \in {0, 1} /\ (w.fromPrev = 0 <=> w.from = r.from)
    /\ w.fromFull = (w.fromPrev = 0)

UpperEnd(w, k, r) ==
    /\ \E n \in Nat : w.to = Size(k) * n
    /\ w.to <= r.to /\ r.to < w.to + Size(k)
    /\ w.toPrev \in {0, 1} /\ (w.toPrev = 1 <=> w.to + Size(k) - 1 = r.to)
    /\ w.toFull = (w.toPrev = 1)

(* What the turn adds to the list.                                         *)
Right(w, i) == IF w.fromPrev = BitOf(w.from, i) THEN {}
               ELSE {Subnet(Clear(w.from, i) + 2^i, WIDTH - i)}
Left(w, i) == IF w.toPrev = BitOf(w.to, i) THEN {}
              ELSE {Subnet(Clear(w.to, i), WIDTH - i)}

(* The lower end climbs one bit, and there is a subnet below or not.       *)
LEMMA ClimbFrom ==
    ASSUME NEW r \in IPRange, NEW i \in 0..WIDTH, i < WIDTH,
           NEW w, LowerEnd(w, i, r), NEW v, v = Climb(w, i)
    PROVE  /\ LowerEnd(v, i + 1, r)
           /\ Up(w, i, r) \in Int /\ Up(v, i + 1, r) \in Int /\ r.from <= Up(w, i, r)
           /\ \/ Right(w, i) = {} /\ Up(v, i + 1, r) = Up(w, i, r)
              \/ \E s : /\ Right(w, i) = {s} /\ Largest(s, r)
                        /\ s.from = Up(w, i, r) /\ s.to = Up(v, i + 1, r) - 1 /\ s.from <= s.to
                        /\ Up(w, i, r) < Up(v, i + 1, r)
<1> DEFINE f == w.from
           prev == w.fromPrev
           up == Up(w, i, r)
           f2 == v.from
           prev2 == v.fromPrev
           up2 == Up(v, i + 1, r)
           right == Right(w, i)
<1>a. PICK m \in Nat : f = Size(i) * m
  BY DEF LowerEnd
<1>b. /\ f <= r.from /\ r.from < f + Size(i)
      /\ prev \in {0, 1} /\ (prev = 0 <=> f = r.from)
      /\ up = IF prev = 0 THEN r.from ELSE f + Size(i)
      /\ f2 = Clear(f, i)
      /\ prev2 = IF BitOf(f, i) = 1 THEN 1 ELSE prev
      /\ up2 = IF prev2 = 0 THEN r.from ELSE f2 + Size(i + 1)
      /\ right = IF prev = BitOf(f, i) THEN {}
                 ELSE {Subnet(Clear(f, i) + 2^i, WIDTH - i)}
  BY DEF LowerEnd, Climb, Up, Right
<1>c. w.fromFull = (prev = 0) /\ v.fromFull = (w.fromFull /\ ~(prev = 0 /\ BitOf(f, i) = 1))
  BY DEF LowerEnd, Climb
<1> SUFFICES /\ f2 = Size(i + 1) * (m \div 2) /\ m \div 2 \in Nat
             /\ f2 <= r.from /\ r.from < f2 + Size(i + 1)
             /\ prev2 \in {0, 1} /\ (prev2 = 0 <=> f2 = r.from)
             /\ prev2 = 0 <=> (prev = 0 /\ ~(prev = 0 /\ BitOf(f, i) = 1))
             /\ up \in Int /\ up2 \in Int /\ r.from <= up
             /\ \/ right = {} /\ up2 = up
                \/ \E s : /\ right = {s} /\ Largest(s, r)
                          /\ s.from = up /\ s.to = up2 - 1 /\ s.from <= s.to
                          /\ up < up2
  <2> HIDE DEF Largest
  <2> QED BY <1>c DEF LowerEnd
<1> HIDE DEF f, prev, up, f2, prev2, up2, right
<1> USE <1>a, <1>b
<1> DEFINE z == Size(i)
<1>1. z \in Nat \ {0} /\ Size(i + 1) = 2 * z /\ i \in 0..WIDTH - 1 /\ i + 1 \in 0..WIDTH
  BY SizeFacts
<1>2. f \in Nat /\ r.from \in Nat /\ r.to \in Nat
  BY BlockFacts, RangeType
<1>3. /\ m % 2 \in {0, 1} /\ BitOf(f, i) = m % 2
      /\ f2 = Size(i + 1) * (m \div 2) /\ m \div 2 \in Nat
      /\ f2 = IF m % 2 = 0 THEN f ELSE f - z
  BY Bits
<1>4. f2 \in Nat /\ Block(i + 1, m \div 2).from = f2
  BY <1>1, <1>3, BlockFacts
<1> HIDE DEF z
<1>5. CASE prev = m % 2
  BY <1>1, <1>2, <1>3, <1>5 DEF z
<1>6. CASE prev = 0 /\ m % 2 = 1
  <2> DEFINE s == Block(i, m)
  <2>1. right = {s} /\ s.from = f /\ s.to = f + z - 1
    <3>1. right = {s}
      <4>1. Subnet(Clear(f, i) + 2^i, WIDTH - i) = s
        BY <1>6, Bits
      <4> QED BY <1>3, <1>6, <4>1
    <3>2. s.from = Size(i) * m /\ s.to = Size(i) * m + Size(i) - 1
      BY BlockFacts
    <3> HIDE DEF s
    <3> QED BY <3>1, <3>2 DEF z
  <2>2. ~contains(r, Block(i + 1, m \div 2))
    BY <1>1, <1>2, <1>3, <1>4, <1>6 DEF contains
  <2>3. Largest(s, r)
    BY <1>1, <2>2 DEF Largest
  <2> HIDE DEF s
  <2>4. up = f /\ up2 = f + z /\ prev2 = 1
    BY <1>1, <1>2, <1>3, <1>6 DEF z
  <2>5. s.from = up /\ s.to = up2 - 1 /\ s.from <= s.to /\ up < up2
    BY <1>1, <1>2, <2>1, <2>4
  <2>6. f2 <= r.from /\ r.from < f2 + Size(i + 1) /\ f2 # r.from /\ r.from <= up
    BY <1>1, <1>2, <1>3, <1>6 DEF z
  <2>7. up \in Int /\ up2 \in Int
    BY <1>1, <1>2, <2>4
  <2> QED BY <1>3, <1>6, <2>1, <2>3, <2>4, <2>5, <2>6, <2>7
<1>7. CASE prev = 1 /\ m % 2 = 0
  <2> DEFINE s == Block(i, m + 1)
  <2>1. right = {s} /\ (m + 1) \div 2 = m \div 2 /\ m + 1 \in Nat
    BY <1>3, <1>7, Bits
  <2>2. s.from = f + z /\ s.to = f + z + z - 1
    <3>1. z * (m + 1) = z * m + z /\ z * m = f
      BY <1>1 DEF z
    <3> QED BY <2>1, <3>1, BlockFacts DEF z
  <2>3. ~contains(r, Block(i + 1, m \div 2))
    BY <1>1, <1>2, <1>3, <1>4, <1>7 DEF contains
  <2>4. Largest(s, r)
    BY <1>1, <2>1, <2>3 DEF Largest
  <2> HIDE DEF s
  <2>5. up = f + z /\ up2 = f + z + z /\ prev2 = 1
    BY <1>1, <1>2, <1>3, <1>7 DEF z
  <2>6. s.from = up /\ s.to = up2 - 1 /\ s.from <= s.to /\ up < up2
    BY <1>1, <1>2, <2>2, <2>5
  <2>7. f2 <= r.from /\ r.from < f2 + Size(i + 1) /\ f2 # r.from /\ r.from <= up
    BY <1>1, <1>2, <1>3, <1>7 DEF z
  <2>8. up \in Int /\ up2 \in Int
    BY <1>1, <1>2, <2>5
  <2>9. \E t : /\ right = {t} /\ Largest(t, r)
               /\ t.from = up /\ t.to = up2 - 1 /\ t.from <= t.to
               /\ up < up2
    BY <2>1, <2>4, <2>6
  <2>10. prev2 = 0 <=> prev = 0 /\ ~(prev = 0 /\ BitOf(f, i) = 1)
    BY <1>7, <2>5
  <2> QED BY <1>3, <1>7, <2>5, <2>7, <2>8, <2>9, <2>10
<1> QED BY <1>3, <1>5, <1>6, <1>7

(* The upper end climbs one bit, and there is a subnet above or not.       *)
LEMMA ClimbTo ==
    ASSUME NEW r \in IPRange, NEW i \in 0..WIDTH, i < WIDTH,
           NEW w, UpperEnd(w, i, r), NEW v, v = Climb(w, i)
    PROVE  /\ UpperEnd(v, i + 1, r)
           /\ Down(w, i, r) \in Int /\ Down(v, i + 1, r) \in Int /\ Down(w, i, r) <= r.to
           /\ \/ Left(w, i) = {} /\ Down(v, i + 1, r) = Down(w, i, r)
              \/ \E s : /\ Left(w, i) = {s} /\ Largest(s, r)
                        /\ s.from = Down(v, i + 1, r) + 1 /\ s.to = Down(w, i, r) /\ s.from <= s.to
                        /\ Down(v, i + 1, r) < Down(w, i, r)
<1> DEFINE f == w.to
           prev == w.toPrev
           down == Down(w, i, r)
           f2 == v.to
           prev2 == v.toPrev
           down2 == Down(v, i + 1, r)
           left == Left(w, i)
<1>a. PICK m \in Nat : f = Size(i) * m
  BY DEF UpperEnd
<1>b. /\ f <= r.to /\ r.to < f + Size(i)
      /\ prev \in {0, 1} /\ (prev = 1 <=> f + Size(i) - 1 = r.to)
      /\ down = IF prev = 1 THEN r.to ELSE f - 1
      /\ f2 = Clear(f, i)
      /\ prev2 = IF BitOf(f, i) = 0 THEN 0 ELSE prev
      /\ down2 = IF prev2 = 1 THEN r.to ELSE f2 - 1
      /\ left = IF prev = BitOf(f, i) THEN {} ELSE {Subnet(Clear(f, i), WIDTH - i)}
  BY DEF UpperEnd, Climb, Down, Left
<1>c. w.toFull = (prev = 1) /\ v.toFull = (w.toFull /\ ~(prev = 1 /\ BitOf(f, i) = 0))
  BY DEF UpperEnd, Climb
<1> SUFFICES /\ f2 = Size(i + 1) * (m \div 2) /\ m \div 2 \in Nat
             /\ f2 <= r.to /\ r.to < f2 + Size(i + 1)
             /\ prev2 \in {0, 1} /\ (prev2 = 1 <=> f2 + Size(i + 1) - 1 = r.to)
             /\ prev2 = 1 <=> (prev = 1 /\ ~(prev = 1 /\ BitOf(f, i) = 0))
             /\ down \in Int /\ down2 \in Int /\ down <= r.to
             /\ \/ left = {} /\ down2 = down
                \/ \E s : /\ left = {s} /\ Largest(s, r)
                          /\ s.from = down2 + 1 /\ s.to = down /\ s.from <= s.to
                          /\ down2 < down
  <2> HIDE DEF Largest
  <2> QED BY <1>c DEF UpperEnd
<1> HIDE DEF f, prev, down, f2, prev2, down2, left
<1> USE <1>a, <1>b
<1> DEFINE z == Size(i)
<1>1. z \in Nat \ {0} /\ Size(i + 1) = 2 * z /\ i \in 0..WIDTH - 1 /\ i + 1 \in 0..WIDTH
  BY SizeFacts
<1>2. f \in Nat /\ r.from \in Nat /\ r.to \in Nat
  BY BlockFacts, RangeType
<1>3. /\ m % 2 \in {0, 1} /\ BitOf(f, i) = m % 2
      /\ f2 = Size(i + 1) * (m \div 2) /\ m \div 2 \in Nat
      /\ f2 = IF m % 2 = 0 THEN f ELSE f - z
  BY Bits
<1>4. f2 \in Nat /\ Block(i + 1, m \div 2).to = f2 + z + z - 1
  BY <1>1, <1>3, BlockFacts
<1> HIDE DEF z
<1>5. CASE prev = m % 2
  BY <1>1, <1>2, <1>3, <1>5 DEF z
<1>6. CASE prev = 1 /\ m % 2 = 0
  <2> DEFINE s == Block(i, m)
  <2>1. left = {s} /\ s.from = f /\ s.to = f + z - 1
    <3>1. left = {s}
      <4>1. Subnet(Clear(f, i), WIDTH - i) = s
        BY <1>6, Bits
      <4> QED BY <1>3, <1>6, <4>1
    <3>2. s.from = Size(i) * m /\ s.to = Size(i) * m + Size(i) - 1
      BY BlockFacts
    <3> HIDE DEF s
    <3> QED BY <3>1, <3>2 DEF z
  <2>2. ~contains(r, Block(i + 1, m \div 2))
    BY <1>1, <1>2, <1>3, <1>4, <1>6 DEF contains, z
  <2>3. Largest(s, r)
    BY <1>1, <2>2 DEF Largest
  <2> HIDE DEF s
  <2>4. down = f + z - 1 /\ down2 = f - 1 /\ prev2 = 0
    BY <1>1, <1>2, <1>3, <1>6 DEF z
  <2>5. s.from = down2 + 1 /\ s.to = down /\ s.from <= s.to /\ down2 < down
    BY <1>1, <1>2, <2>1, <2>4
  <2>6. f2 <= r.to /\ r.to < f2 + Size(i + 1) /\ f2 + Size(i + 1) - 1 # r.to /\ down <= r.to
    BY <1>1, <1>2, <1>3, <1>6 DEF z
  <2>7. down \in Int /\ down2 \in Int
    BY <1>1, <1>2, <2>4
  <2> QED BY <1>3, <1>6, <2>1, <2>3, <2>4, <2>5, <2>6, <2>7
<1>7. CASE prev = 0 /\ m % 2 = 1
  <2> DEFINE s == Block(i, m - 1)
  <2>1. left = {s} /\ (m - 1) \div 2 = m \div 2 /\ m - 1 \in Nat
    <3>1. Subnet(Clear(f, i), WIDTH - i) = s /\ (m - 1) \div 2 = m \div 2 /\ m - 1 \in Nat
      BY <1>7, Bits
    <3> QED BY <1>3, <1>7, <3>1
  <2>2. s.from = f - z /\ s.to = f - 1
    <3>1. z * (m - 1) = z * m - z /\ z * m = f
      <4>1. z * (m - 1) = z * m - z
        BY <1>1, <2>1, OneLess
      <4>2. z * m = f
        BY DEF z
      <4> QED BY <4>1, <4>2
    <3>2. s.from = z * (m - 1) /\ s.to = z * (m - 1) + z - 1
      BY <2>1, BlockFacts DEF z
    <3> HIDE DEF s
    <3> QED BY <1>1, <1>2, <3>1, <3>2
  <2>3. ~contains(r, Block(i + 1, m \div 2))
    <3>1. f2 = f - z
      BY <1>3, <1>7
    <3>2. f + z - 1 # r.to /\ r.to < f + z
      BY <1>7 DEF z
    <3>3. ~(f2 + z + z - 1 <= r.to)
      BY <1>1, <1>2, <3>1, <3>2
    <3> QED BY <1>4, <3>3 DEF contains
  <2>4. Largest(s, r)
    BY <1>1, <2>1, <2>3 DEF Largest
  <2> HIDE DEF s
  <2>5. down = f - 1 /\ down2 = f - z - 1 /\ prev2 = 0
    BY <1>1, <1>2, <1>3, <1>7 DEF z
  <2>6. s.from = down2 + 1 /\ s.to = down /\ s.from <= s.to /\ down2 < down
    BY <1>1, <1>2, <2>2, <2>5
  <2>7. f2 <= r.to /\ r.to < f2 + Size(i + 1) /\ f2 + Size(i + 1) - 1 # r.to /\ down <= r.to
    BY <1>1, <1>2, <1>3, <1>7 DEF z
  <2>8. down \in Int /\ down2 \in Int
    BY <1>1, <1>2, <2>5
  <2> QED BY <1>3, <1>7, <2>1, <2>4, <2>5, <2>6, <2>7, <2>8
<1> QED BY <1>3, <1>5, <1>6, <1>7

-----------------------------------------------------------------------------
(* The whole of toSubnets().                                               *)

(* The sizes of larger subnets are multiples of those of smaller ones.     *)
LEMMA Multiples ==
    ASSUME NEW i \in 0..WIDTH, NEW j \in 0..WIDTH, j <= i
    PROVE  \E q \in Nat : Size(i) = Size(j) * q
<1> DEFINE T == {d \in Nat : j + d <= WIDTH => \E q \in Nat : Size(j + d) = Size(j) * q}
<1>1. 0 \in T
  <2>1. Size(j) = Size(j) * 1 /\ j + 0 = j
    BY SizeFacts
  <2> QED BY <2>1
<1>2. ASSUME NEW d \in T PROVE d + 1 \in T
  <2> SUFFICES ASSUME j + (d + 1) <= WIDTH PROVE \E q \in Nat : Size(j + (d + 1)) = Size(j) * q
    OBVIOUS
  <2>1. j + d \in 0..WIDTH /\ j + (d + 1) = (j + d) + 1 /\ j + d <= WIDTH
    BY SizeFacts
  <2>2. PICK q \in Nat : Size(j + d) = Size(j) * q
    BY <2>1
  <2>3. Size((j + d) + 1) = 2 * Size(j + d) /\ Size(j) \in Nat
    BY <2>1, SizeFacts
  <2>4. 2 * (Size(j) * q) = Size(j) * (2 * q)
    BY <2>3
  <2> QED BY <2>1, <2>2, <2>3, <2>4
<1>3. T = Nat
  <2>1. T \in SUBSET Nat
    OBVIOUS
  <2> HIDE DEF T
  <2> QED BY <1>1, <1>2, <2>1, NatInduct
<1>4. i - j \in Nat /\ j + (i - j) = i /\ i <= WIDTH
  OBVIOUS
<1>5. i - j \in T
  <2> HIDE DEF T
  <2> QED BY <1>3, <1>4
<1> QED BY <1>4, <1>5

(* The number of the block of twice the size.                              *)
LEMMA NextBlock ==
    ASSUME NEW i \in 0..WIDTH, i < WIDTH, NEW a \in Nat
    PROVE  a \div Size(i + 1) = (a \div Size(i)) \div 2
<1> DEFINE s == Size(i)
           m == a \div s
           b == Size(i + 1) * (m \div 2)
           t == a - b
           p == s * m
<1>1. s \in Nat \ {0} /\ Size(i + 1) = 2 * s /\ Size(i + 1) \in Nat \ {0}
  BY SizeFacts
<1>2. m \in Nat /\ p \in Nat /\ p <= a /\ a < p + s
  BY <1>1, Parts
<1>3. m \div 2 \in Nat /\ b = IF m % 2 = 0 THEN p ELSE p - s
  BY <1>2, Around
<1>4. b \in Nat
  <2> HIDE DEF m
  <2> QED BY <1>1, <1>3
<1>5. t \in Nat /\ t < Size(i + 1) /\ b + t = a
  <2> HIDE DEF b, p, s
  <2> QED BY <1>1, <1>2, <1>3, <1>4
<1>6. (b + t) \div Size(i + 1) = m \div 2
  <2> HIDE DEF t, m
  <2> QED BY <1>1, <1>3, <1>5, Quotient
<1> QED BY <1>5, <1>6

(* The address that halves the smallest subnet around a range.             *)
Middle(r) == Size(WIDTH - Common(r) - 1) * (r.from \div Size(WIDTH - Common(r) - 1) + 1)

(* It is within the range, and where subnets of every smaller size begin.  *)
LEMMA MiddleFacts ==
    ASSUME NEW r \in IPRange, ~IsSubnet(r)
    PROVE  LET e == WIDTH - Common(r) - 1
               m == r.from \div Size(e)
           IN  /\ e \in 0..WIDTH - 1 /\ m \in Nat
               /\ Middle(r) \in Nat /\ r.from < Middle(r) /\ Middle(r) <= r.to
               /\ r.to \div Size(e) = m + 1 /\ m % 2 = 0
               /\ \A k \in 0..e : \E q \in Nat : Middle(r) = Size(k) * q
<1> DEFINE L == WIDTH - Common(r)
           e == L - 1
           m == r.from \div Size(e)
           n == r.to \div Size(e)
<1>1. L \in 0..WIDTH /\ WIDTH - L = Common(r) /\ WIDTH \in Nat
  BY CommonFacts, SizeFacts
<1>2. r.from \in Nat /\ r.to \in Nat /\ r.from <= r.to
  BY RangeType
<1>3. r.from \div Size(L) = r.to \div Size(L)
  BY CommonFacts
<1>4. L # 0
  <2> SUFFICES ASSUME L = 0 PROVE FALSE
    OBVIOUS
  <2>1. Subnet(r.from, Common(r)) = Block(0, r.from \div 1) /\ Size(0) = 1
    <3>1. Size(0) = 1 /\ 0 \in 0..WIDTH
      BY SizeFacts
    <3> QED BY <1>1, <1>2, <3>1, SubnetIsBlock
  <2>2. r.from \div 1 = r.from /\ r.to \div 1 = r.to
    <3>1. (1 * r.from + 0) \div 1 = r.from /\ (1 * r.to + 0) \div 1 = r.to
      BY <1>2, Quotient
    <3> QED BY <1>2, <3>1
  <2>3. r.from = r.to
    BY <1>3, <2>1, <2>2
  <2>4. Block(0, r.from) = [from |-> r.from, to |-> r.to]
    BY <1>2, <2>1, <2>3 DEF Block
  <2>5. r = [from |-> r.from, to |-> r.to]
    BY RangeType
  <2> QED BY <2>1, <2>2, <2>4, <2>5 DEF IsSubnet
<1>5. e \in 0..WIDTH /\ e < WIDTH /\ e + 1 = L /\ e \in 0..WIDTH - 1
  BY <1>1, <1>4
<1>6. Size(e) \in Nat \ {0} /\ Size(L) = 2 * Size(e)
  BY <1>5, SizeFacts
<1>7. m # n
  <2>1. WIDTH - (Common(r) + 1) = e /\ Common(r) + 1 \in 0..WIDTH
    BY <1>1, <1>5
  <2> QED BY <1>1, <2>1, CommonFacts
<1>8. /\ m \in Nat /\ Size(e) * m \in Nat /\ Size(e) * m <= r.from /\ r.from < Size(e) * m + Size(e)
      /\ n \in Nat /\ Size(e) * n \in Nat /\ Size(e) * n <= r.to /\ r.to < Size(e) * n + Size(e)
  BY <1>2, <1>6, Parts
<1>9. m \div 2 = n \div 2
  <2>1. r.from \div Size(L) = m \div 2 /\ r.to \div Size(L) = n \div 2
    BY <1>2, <1>5, NextBlock
  <2> QED BY <1>3, <2>1
<1>10. m <= n
  <2> SUFFICES ASSUME n + 1 <= m PROVE FALSE
    BY <1>8
  <2>1. Size(e) * (n + 1) <= Size(e) * m
    <3> HIDE DEF m, n, e
    <3> QED BY <1>6, <1>8
  <2>2. Size(e) * (n + 1) = Size(e) * n + Size(e)
    BY <1>6, <1>8, OneMore
  <2> DEFINE p == Size(e) * n
             q == Size(e) * m
  <2>3. p + Size(e) <= q /\ r.to < p + Size(e) /\ q <= r.from /\ p \in Nat /\ q \in Nat
    BY <1>8, <2>1, <2>2
  <2> HIDE DEF p, q
  <2> QED BY <1>2, <1>6, <2>3
<1>11. n = m + 1 /\ m % 2 = 0
  <2>1. m % 2 \in 0..1 /\ n % 2 \in 0..1 /\ m \div 2 \in Nat
        /\ m = 2 * (m \div 2) + (m % 2) /\ n = 2 * (m \div 2) + (n % 2)
    <3> HIDE DEF m, n
    <3>1. /\ m = 2 * (m \div 2) + (m % 2) /\ m % 2 \in Nat /\ m % 2 < 2 /\ m \div 2 \in Nat
          /\ n = 2 * (n \div 2) + (n % 2) /\ n % 2 \in Nat /\ n % 2 < 2
      BY <1>8, Parts
    <3>2. m % 2 \in 0..1 /\ n % 2 \in 0..1
      BY <1>8, <3>1
    <3> QED BY <1>3, <1>5, <1>9, <3>1, <3>2
  <2> DEFINE h == m \div 2
             a == m % 2
             b == n % 2
  <2>2. m = 2 * h + a /\ n = 2 * h + b /\ a \in 0..1 /\ b \in 0..1 /\ h \in Nat
    BY <2>1
  <2> HIDE DEF h, a, b, m, n
  <2>3. n = m + 1 /\ a = 0
    BY <1>7, <1>8, <1>10, <2>2
  <2> QED BY <2>3 DEF a
<1>12. Middle(r) = Size(e) * (m + 1) /\ Size(e) * (m + 1) = Size(e) * m + Size(e)
  BY <1>6, <1>8, OneMore DEF Middle
<1>13. Middle(r) \in Nat /\ r.from < Middle(r) /\ Middle(r) <= r.to
  <2>1. Middle(r) = Size(e) * n
    BY <1>11, <1>12
  <2> QED BY <1>8, <1>12, <2>1
<1>14. ASSUME NEW k \in 0..e PROVE \E q \in Nat : Middle(r) = Size(k) * q
  <2>1. k \in 0..WIDTH /\ k <= e
    <3> HIDE DEF e
    <3> QED BY <1>1, <1>5
  <2>2. PICK q \in Nat : Size(e) = Size(k) * q
    BY <1>5, <2>1, Multiples
  <2>3. (Size(k) * q) * (m + 1) = Size(k) * (q * (m + 1)) /\ q * (m + 1) \in Nat
    <3>1. Size(k) \in Nat
      BY <2>1, SizeFacts
    <3> HIDE DEF m
    <3> QED BY <1>8, <3>1
  <2> QED BY <1>12, <2>2, <2>3
<1> QED BY <1>5, <1>8, <1>11, <1>13, <1>14

(* Both ends have, and the list has what is outside of the gap.            *)
Climbed(w, k, r) ==
    /\ LowerEnd(w, k, r) /\ UpperEnd(w, k, r)
    /\ Split(w.list, r, Up(w, k, r), Down(w, k, r))

(* They climb on either side of the middle.                                *)
LEMMA Sides ==
    ASSUME NEW r \in IPRange, ~IsSubnet(r), NEW k \in 0..WIDTH - Common(r) - 1, NEW w
    PROVE  /\ LowerEnd(w, k, r) => Up(w, k, r) \in Int /\ r.from <= Up(w, k, r) /\ Up(w, k, r) <= Middle(r)
           /\ UpperEnd(w, k, r) => Down(w, k, r) \in Int /\ Down(w, k, r) <= r.to /\ Middle(r) <= Down(w, k, r) + 1
<1>1. /\ Middle(r) \in Nat /\ r.from < Middle(r) /\ Middle(r) <= r.to
      /\ \E q \in Nat : Middle(r) = Size(k) * q
  BY MiddleFacts
<1>2. PICK q \in Nat : Middle(r) = Size(k) * q
  BY <1>1
<1>3. Size(k) \in Nat \ {0}
  <2>1. WIDTH - Common(r) - 1 \in 0..WIDTH - 1
    BY MiddleFacts
  <2> DEFINE e == WIDTH - Common(r) - 1
  <2>2. e \in 0..WIDTH - 1 /\ k \in 0..e /\ WIDTH \in Nat
    BY <2>1, SizeFacts
  <2> HIDE DEF e
  <2>3. k \in 0..WIDTH
    BY <2>2
  <2> QED BY <2>3, SizeFacts
<1>4. r.from \in Nat /\ r.to \in Nat
  BY RangeType
<1>5. ASSUME LowerEnd(w, k, r)
      PROVE  Up(w, k, r) \in Int /\ r.from <= Up(w, k, r) /\ Up(w, k, r) <= Middle(r)
  <2>1. PICK m \in Nat : w.from = Size(k) * m
    BY <1>5 DEF LowerEnd
  <2>2. w.from \in Nat /\ w.from <= r.from /\ r.from < w.from + Size(k)
    BY <1>3, <1>5, <2>1 DEF LowerEnd
  <2>3. w.from < Middle(r)
    BY <1>1, <1>4, <2>2
  <2>4. Size(k) * m + Size(k) <= Size(k) * q
    BY <1>2, <1>3, <2>1, <2>3, Steps
  <2>5. w.from + Size(k) <= Middle(r)
    BY <1>2, <2>1, <2>4
  <2> HIDE DEF Middle
  <2> QED BY <1>1, <1>3, <1>4, <2>2, <2>5 DEF Up
<1>6. ASSUME UpperEnd(w, k, r)
      PROVE  Down(w, k, r) \in Int /\ Down(w, k, r) <= r.to /\ Middle(r) <= Down(w, k, r) + 1
  <2>1. PICK n \in Nat : w.to = Size(k) * n
    BY <1>6 DEF UpperEnd
  <2>2. w.to \in Nat /\ w.to <= r.to /\ r.to < w.to + Size(k)
    BY <1>3, <1>6, <2>1 DEF UpperEnd
  <2>3. ~(w.to < Middle(r))
    <3> SUFFICES ASSUME w.to < Middle(r) PROVE FALSE
      OBVIOUS
    <3>1. Size(k) * n + Size(k) <= Size(k) * q
      BY <1>2, <1>3, <2>1, Steps
    <3>2. w.to + Size(k) <= Middle(r)
      BY <1>2, <2>1, <3>1
    <3> QED BY <1>1, <1>3, <1>4, <2>2, <3>2
  <2> QED BY <1>1, <1>4, <2>2, <2>3 DEF Down
<1> QED BY <1>5, <1>6

(* A turn of the loop.                                                     *)
LEMMA ClimbStep ==
    ASSUME NEW r \in IPRange, ~IsSubnet(r), NEW k \in 0..WIDTH - Common(r) - 1,
           k < WIDTH - Common(r) - 1, NEW w, Climbed(w, k, r)
    PROVE  Climbed(Climb(w, k), k + 1, r)
<1> DEFINE v == Climb(w, k)
           right == Right(w, k)
           left == Left(w, k)
           up == Up(w, k, r)
           up2 == Up(v, k + 1, r)
           down == Down(w, k, r)
           down2 == Down(v, k + 1, r)
<1>1. k \in 0..WIDTH /\ k < WIDTH /\ k + 1 \in 0..WIDTH - Common(r) - 1
  <2> DEFINE e == WIDTH - Common(r) - 1
  <2>1. e \in 0..WIDTH - 1 /\ k \in 0..e /\ k < e /\ WIDTH \in Nat
    BY MiddleFacts, SizeFacts
  <2> HIDE DEF e
  <2>2. k \in 0..WIDTH /\ k < WIDTH /\ k + 1 \in 0..e
    BY <2>1
  <2> QED BY <2>2 DEF e
<1>2. v.list = w.list \cup right \cup left
  BY DEF Climb, Right, Left
<1>3. LowerEnd(w, k, r) /\ UpperEnd(w, k, r)
  BY DEF Climbed
<1> HIDE DEF v
<1>4. v = Climb(w, k)
  BY DEF v
<1>5. /\ LowerEnd(v, k + 1, r)
      /\ up \in Int /\ up2 \in Int /\ r.from <= up
      /\ \/ right = {} /\ up2 = up
         \/ \E s : /\ right = {s} /\ Largest(s, r)
                   /\ s.from = up /\ s.to = up2 - 1 /\ s.from <= s.to
                   /\ up < up2
  BY <1>1, <1>3, <1>4, ClimbFrom
<1>6. /\ UpperEnd(v, k + 1, r)
      /\ down \in Int /\ down2 \in Int /\ down <= r.to
      /\ \/ left = {} /\ down2 = down
         \/ \E s : /\ left = {s} /\ Largest(s, r)
                   /\ s.from = down2 + 1 /\ s.to = down /\ s.from <= s.to
                   /\ down2 < down
  BY <1>1, <1>3, <1>4, ClimbTo
<1>9. /\ up2 <= Middle(r) /\ Middle(r) <= down2 + 1
      /\ up <= Middle(r) /\ Middle(r) <= down + 1 /\ Middle(r) \in Int
  BY <1>1, <1>3, <1>5, <1>6, Sides, MiddleFacts
<1>10. Split(w.list, r, up, down)
  BY DEF Climbed
<1> HIDE DEF up, up2, down, down2, right, left
<1>11. up <= up2 /\ down2 <= down
  BY <1>5, <1>6
<1>12. Split(w.list \cup right, r, up2, down)
  <2>1. CASE right = {} /\ up2 = up
    <3>1. w.list \cup right = w.list
      BY <2>1
    <3> QED BY <1>10, <2>1, <3>1
  <2>2. CASE \E s : /\ right = {s} /\ Largest(s, r)
                    /\ s.from = up /\ s.to = up2 - 1 /\ s.from <= s.to
                    /\ up < up2
    <3>1. PICK s : /\ right = {s} /\ Largest(s, r)
                   /\ s.from = up /\ s.to = up2 - 1 /\ s.from <= s.to
                   /\ up < up2
      BY <2>2
    <3>2. /\ s.from \in Int /\ s.to \in Int
          /\ r.from <= up /\ up <= up2 /\ up2 <= down + 1 /\ down <= down /\ down <= r.to
      BY <1>5, <1>6, <1>9, <3>1
    <3>3. Split(w.list \cup {s}, r, up2, down)
      BY <1>5, <1>6, <1>10, <3>1, <3>2, SplitMore
    <3> QED BY <3>1, <3>3
  <2> QED BY <1>5, <2>1, <2>2
<1>13. Split((w.list \cup right) \cup left, r, up2, down2)
  <2>1. CASE left = {} /\ down2 = down
    <3>1. (w.list \cup right) \cup left = w.list \cup right
      BY <2>1
    <3> QED BY <1>12, <2>1, <3>1
  <2>2. CASE \E s : /\ left = {s} /\ Largest(s, r)
                    /\ s.from = down2 + 1 /\ s.to = down /\ s.from <= s.to
                    /\ down2 < down
    <3>1. PICK s : /\ left = {s} /\ Largest(s, r)
                   /\ s.from = down2 + 1 /\ s.to = down /\ s.from <= s.to
                   /\ down2 < down
      BY <2>2
    <3>2. /\ s.from \in Int /\ s.to \in Int /\ r.from \in Int
          /\ r.from <= up2 /\ up2 <= up2 /\ up2 <= down2 + 1 /\ down2 <= down /\ down <= r.to
      BY <1>5, <1>6, <1>9, <3>1, RangeType
    <3>3. Split((w.list \cup right) \cup {s}, r, up2, down2)
      BY <1>5, <1>6, <1>12, <3>1, <3>2, SplitMore
    <3> QED BY <3>1, <3>3
  <2> QED BY <1>6, <2>1, <2>2
<1> QED BY <1>2, <1>5, <1>6, <1>13 DEF Climbed, up2, down2, v

(* The walk from both ends, as the function it is.                         *)
Start(r) == [from |-> r.from, fromPrev |-> 0, fromFull |-> TRUE,
             to |-> r.to, toPrev |-> 1, toFull |-> TRUE, list |-> {}]

Walks(f, r, n) == f = [k \in 0..n |-> IF k = 0 THEN Start(r) ELSE Climb(f[k - 1], k - 1)]

(* By induction on the number of bits.                                     *)
LEMMA WalkExists ==
    ASSUME NEW r, NEW n \in Nat
    PROVE  \E f : Walks(f, r, n)
<1> DEFINE T == {k \in Nat : \E f : Walks(f, r, k)}
<1>1. 0 \in T
  <2> DEFINE f == [k \in 0..0 |-> Start(r)]
  <2>1. f = [k \in 0..0 |-> IF k = 0 THEN Start(r) ELSE Climb(f[k - 1], k - 1)]
    OBVIOUS
  <2> HIDE DEF f
  <2> QED BY <2>1 DEF Walks
<1>2. ASSUME NEW k \in T PROVE k + 1 \in T
  <2>1. PICK f : Walks(f, r, k)
    OBVIOUS
  <2> DEFINE g == [j \in 0..k + 1 |-> IF j = k + 1 THEN Climb(f[k], k) ELSE f[j]]
             h == [j \in 0..k + 1 |-> IF j = 0 THEN Start(r) ELSE Climb(g[j - 1], j - 1)]
  <2>2. ASSUME NEW j \in 0..k + 1 PROVE g[j] = IF j = 0 THEN Start(r) ELSE Climb(g[j - 1], j - 1)
    <3>1. CASE j = k + 1
      <4>1. j - 1 = k /\ k \in 0..k + 1 /\ j # 0 /\ k # k + 1
        BY <3>1
      <4> QED BY <3>1, <4>1
    <3>2. CASE j # k + 1
      <4>1. j \in 0..k
        BY <3>2
      <4>2. g[j] = f[j]
        BY <3>2
      <4>3. CASE j = 0
        BY <2>1, <4>1, <4>2, <4>3 DEF Walks
      <4>4. CASE j # 0
        <5>1. j - 1 \in 0..k + 1 /\ j - 1 # k + 1
          BY <4>1, <4>4
        <5>2. g[j - 1] = f[j - 1]
          BY <5>1
        <5>3. f[j] = Climb(f[j - 1], j - 1)
          BY <2>1, <4>1, <4>4 DEF Walks
        <5> QED BY <4>2, <4>4, <5>2, <5>3
      <4> QED BY <4>3, <4>4
    <3> QED BY <3>1, <3>2
  <2>3. g = h
    <3> HIDE DEF g
    <3>1. \A j \in 0..k + 1 : g[j] = h[j]
      BY <2>2
    <3> QED BY <3>1 DEF g
  <2>4. Walks(g, r, k + 1)
    BY <2>3 DEF Walks
  <2> HIDE DEF g
  <2> QED BY <2>4
<1>3. T \in SUBSET Nat
  OBVIOUS
<1> HIDE DEF T
<1>4. T = Nat
  BY <1>1, <1>2, <1>3, NatInduct
<1> QED BY <1>4 DEF T

(* So what is chosen as the walk is it.                                    *)
LEMMA AfterIs ==
    ASSUME NEW r, NEW n \in Nat
    PROVE  \E f : Walks(f, r, n) /\ After(r, n) = f[n]
<1>1. After(r, n) = (CHOOSE f : Walks(f, r, n))[n]
  BY DEF After, Walks, Start
<1> QED BY <1>1, WalkExists

(* What the loop has when it ends.                                         *)
LEMMA WalkClimbs ==
    ASSUME NEW r \in IPRange, ~IsSubnet(r), NEW e, e = WIDTH - Common(r) - 1
    PROVE  Climbed(After(r, e), e, r)
<1>1. e \in Nat /\ e \in 0..WIDTH - 1 /\ WIDTH \in Nat
  BY MiddleFacts, SizeFacts
<1>2. PICK f : Walks(f, r, e) /\ After(r, e) = f[e]
  BY <1>1, AfterIs
<1>3. /\ f[0] = Start(r)
      /\ \A k \in 0..e : k # 0 => f[k] = Climb(f[k - 1], k - 1)
  BY <1>1, <1>2 DEF Walks
<1> DEFINE T == {k \in Nat : k <= e => Climbed(f[k], k, r)}
<1>4. 0 \in T
  <2>1. r.from \in Nat /\ r.to \in Nat /\ Size(0) = 1
    BY RangeType, SizeFacts
  <2> DEFINE w == Start(r)
  <2>2. /\ w.from = r.from /\ w.to = r.to /\ w.fromPrev = 0 /\ w.toPrev = 1 /\ w.list = {}
        /\ w.fromFull = TRUE /\ w.toFull = TRUE
    BY DEF Start
  <2> HIDE DEF w
  <2>3. w.from = Size(0) * r.from /\ w.to = Size(0) * r.to
    BY <2>1, <2>2
  <2>4. LowerEnd(w, 0, r)
    <3>1. \E m \in Nat : w.from = Size(0) * m
      BY <2>1, <2>3
    <3>2. w.from <= r.from /\ r.from < w.from + Size(0)
      BY <2>1, <2>2
    <3>3. w.fromPrev \in {0, 1} /\ (w.fromPrev = 0 <=> w.from = r.from)
      BY <2>2
    <3>4. w.fromFull = (w.fromPrev = 0)
      BY <2>2
    <3> QED BY <3>1, <3>2, <3>3, <3>4 DEF LowerEnd
  <2>5. UpperEnd(w, 0, r)
    <3>1. \E n \in Nat : w.to = Size(0) * n
      BY <2>1, <2>3
    <3>2. w.to <= r.to /\ r.to < w.to + Size(0)
      BY <2>1, <2>2
    <3>3. w.toPrev \in {0, 1} /\ (w.toPrev = 1 <=> w.to + Size(0) - 1 = r.to)
      BY <2>1, <2>2
    <3>4. w.toFull = (w.toPrev = 1)
      BY <2>2
    <3> QED BY <3>1, <3>2, <3>3, <3>4 DEF UpperEnd
  <2>6. Split({}, r, r.from, r.to)
    BY <2>1 DEF Split
  <2> QED BY <1>3, <2>2, <2>4, <2>5, <2>6 DEF Climbed, Up, Down, w
<1>5. ASSUME NEW k \in T PROVE k + 1 \in T
  <2> SUFFICES ASSUME k + 1 <= e PROVE Climbed(f[k + 1], k + 1, r)
    OBVIOUS
  <2>1. k \in 0..e /\ k < e /\ k + 1 \in 0..e /\ k + 1 # 0 /\ (k + 1) - 1 = k
    BY <1>1
  <2>2. Climbed(f[k], k, r)
    BY <2>1
  <2>3. Climbed(Climb(f[k], k), k + 1, r)
    BY <2>1, <2>2, ClimbStep
  <2> QED BY <1>3, <2>1, <2>3
<1>6. T \in SUBSET Nat
  OBVIOUS
<1>7. T = Nat
  <2> HIDE DEF T
  <2> QED BY <1>4, <1>5, <1>6, NatInduct
<1> QED BY <1>1, <1>2, <1>7

(* The rest: at most one half of the smallest subnet around the range is   *)
(* left to be given.                                                       *)
LEMMA SubnetsSplit ==
    ASSUME NEW r \in IPRange, ~IsSubnet(r)
    PROVE  Split(toSubnets(r), r, Middle(r), Middle(r) - 1)
<1> DEFINE e == WIDTH - Common(r) - 1
           m == r.from \div Size(e)
           w == After(r, e)
           rest == IF w.fromFull /\ w.toFull THEN {Subnet(w.from, Common(r))}
                   ELSE IF w.fromFull THEN {Subnet(w.from, Common(r) + 1)}
                   ELSE IF w.toFull THEN {Subnet(w.to, Common(r) + 1)}
                   ELSE {}
<1>1. toSubnets(r) = w.list \cup rest
  BY DEF toSubnets
<1>2. Climbed(w, e, r)
  BY WalkClimbs
<1>3. /\ e \in 0..WIDTH - 1 /\ m \in Nat
      /\ Middle(r) \in Nat /\ r.from < Middle(r) /\ Middle(r) <= r.to
      /\ r.to \div Size(e) = m + 1 /\ m % 2 = 0
  BY MiddleFacts
<1>4. /\ Common(r) \in Nat /\ WIDTH \in Nat
      /\ WIDTH - (e + 1) = Common(r) /\ WIDTH - e = Common(r) + 1 /\ e \in 0..WIDTH /\ e < WIDTH
      /\ e + 1 \in 0..WIDTH
  <2> DEFINE c == Common(r)
  <2>1. c \in 0..WIDTH /\ WIDTH \in Nat /\ e = WIDTH - c - 1 /\ e \in 0..WIDTH - 1
    BY <1>3, CommonFacts, SizeFacts
  <2> HIDE DEF c, e
  <2>2. /\ c \in Nat /\ WIDTH - (e + 1) = c /\ WIDTH - e = c + 1
        /\ e \in 0..WIDTH /\ e < WIDTH /\ e + 1 \in 0..WIDTH
    BY <2>1
  <2> QED BY <2>1, <2>2 DEF c
<1>5. Size(e) \in Nat \ {0} /\ Size(e + 1) = 2 * Size(e)
  BY <1>4, SizeFacts
<1>6. r.from \in Nat /\ r.to \in Nat
  BY RangeType
<1> HIDE DEF w, rest, e
<1>7. w.from = Size(e) * m
  <2>1. PICK k \in Nat : w.from = Size(e) * k
    BY <1>2 DEF Climbed, LowerEnd
  <2> DEFINE t == r.from - w.from
  <2>2. t \in Nat /\ t < Size(e) /\ w.from + t = r.from
    <3>1. w.from \in Nat /\ w.from <= r.from /\ r.from < w.from + Size(e)
      BY <1>2, <1>5, <2>1 DEF Climbed, LowerEnd
    <3> QED BY <1>5, <1>6, <3>1
  <2> HIDE DEF t
  <2>3. (Size(e) * k + t) \div Size(e) = k
    BY <1>5, <2>2, Quotient
  <2> QED BY <2>1, <2>2, <2>3
<1>8. w.to = Size(e) * (m + 1)
  <2>1. PICK k \in Nat : w.to = Size(e) * k
    BY <1>2 DEF Climbed, UpperEnd
  <2> DEFINE t == r.to - w.to
  <2>2. t \in Nat /\ t < Size(e) /\ w.to + t = r.to
    <3>1. w.to \in Nat /\ w.to <= r.to /\ r.to < w.to + Size(e)
      BY <1>2, <1>5, <2>1 DEF Climbed, UpperEnd
    <3> QED BY <1>5, <1>6, <3>1
  <2> HIDE DEF t
  <2>3. (Size(e) * k + t) \div Size(e) = k
    BY <1>5, <2>2, Quotient
  <2> QED BY <1>3, <2>1, <2>2, <2>3
<1>9. Middle(r) = w.to /\ w.to = w.from + Size(e) /\ w.from \in Nat
  <2>1. Middle(r) = w.to
    BY <1>8 DEF Middle, e
  <2>2. Size(e) * (m + 1) = Size(e) * m + Size(e) /\ Size(e) * m \in Nat
    <3> HIDE DEF m
    <3> QED BY <1>3, <1>5, OneMore
  <2> QED BY <1>7, <1>8, <2>1, <2>2
<1>10. Subnet(w.from, Common(r) + 1) = Block(e, m)
  <2>1. w.from \div Size(e) = m
    <3> HIDE DEF m
    <3>1. Block(e, m).from = Size(e) * m /\ Block(e, m).from \div Size(e) = m
      BY <1>3, <1>4, BlockFacts
    <3> QED BY <1>7, <3>1
  <2> HIDE DEF m
  <2> QED BY <1>4, <1>9, <2>1, SubnetIsBlock
<1>11. Subnet(w.to, Common(r) + 1) = Block(e, m + 1)
  <2>1. w.to \div Size(e) = m + 1
    <3> DEFINE n == m + 1
    <3>1. n \in Nat
      BY <1>3
    <3> HIDE DEF n
    <3>2. Block(e, n).from = Size(e) * n /\ Block(e, n).from \div Size(e) = n
      BY <1>4, <3>1, BlockFacts
    <3>3. w.to = Size(e) * n
      BY <1>8 DEF n
    <3> QED BY <3>2, <3>3 DEF n
  <2>2. w.to \in Nat
    BY <1>3, <1>9
  <2> HIDE DEF m
  <2> QED BY <1>4, <2>1, <2>2, SubnetIsBlock
<1>12. /\ m \div 2 \in Nat /\ (m + 1) \div 2 = m \div 2
       /\ Block(e + 1, m \div 2).from = w.from
       /\ Block(e + 1, m \div 2).to = w.to + Size(e) - 1
  <2>1. m \div 2 \in Nat /\ (m + 1) \div 2 = m \div 2 /\ Size(e + 1) * (m \div 2) = Size(e) * m
    <3> HIDE DEF m
    <3>1. m \div 2 \in Nat /\ Size(e + 1) * (m \div 2) = Size(e) * m
      BY <1>3, <1>4, Around
    <3>2. w.from = Size(e) * m
      BY <1>7
    <3>3. (m + 1) \div 2 = m \div 2
      BY <1>3, <1>4, Bits
    <3> QED BY <3>1, <3>3
  <2> DEFINE h == m \div 2
  <2>2. h \in Nat
    BY <2>1
  <2>3. Size(e + 1) * h = w.from
    BY <1>7, <2>1
  <2> HIDE DEF h
  <2>4. Block(e + 1, h).from = Size(e + 1) * h /\ Block(e + 1, h).to = Size(e + 1) * h + Size(e + 1) - 1
    BY <1>4, <2>2, BlockFacts
  <2>5. Block(e + 1, h).from = w.from /\ Block(e + 1, h).to = w.to + Size(e) - 1
    BY <1>5, <1>9, <2>3, <2>4
  <2> QED BY <2>1, <2>5 DEF h
<1>13. /\ w.from <= r.from /\ r.to < w.to + Size(e)
       /\ w.fromFull <=> w.fromPrev = 0
       /\ w.fromFull <=> w.from = r.from
       /\ w.toFull <=> w.toPrev = 1
       /\ w.toFull <=> w.to + Size(e) - 1 = r.to
       /\ Split(w.list, r, Up(w, e, r), Down(w, e, r))
  BY <1>2 DEF Climbed, LowerEnd, UpperEnd
<1>14. CASE w.fromFull /\ w.toFull
  <2>1. r = Block(e + 1, m \div 2)
    <3>3. Block(e + 1, m \div 2).from = r.from /\ Block(e + 1, m \div 2).to = r.to
      BY <1>12, <1>13, <1>14
    <3>1. r = [from |-> r.from, to |-> r.to]
      BY RangeType
    <3>2. \A i, n : Block(i, n) = [from |-> Block(i, n).from, to |-> Block(i, n).to]
      BY DEF Block
    <3> QED BY <3>1, <3>2, <3>3
  <2>2. IsSubnet(r)
    BY <1>4, <1>12, <2>1, BlockIsSubnet
  <2> QED BY <2>2
<1>15. CASE w.fromFull /\ ~w.toFull
  <2> DEFINE s == Block(e, m)
             up == Up(w, e, r)
             down == Down(w, e, r)
             up2 == Middle(r)
  <2>1. rest = {s}
    BY <1>10, <1>15 DEF rest
  <2>2. s.from = r.from /\ s.to = Middle(r) - 1
    <3>1. s.from = w.from /\ s.to = w.from + Size(e) - 1
      BY <1>3, <1>4, <1>7, BlockFacts
    <3> HIDE DEF s
    <3>2. w.from = r.from
      BY <1>13, <1>15
    <3> QED BY <1>3, <1>5, <1>9, <3>1, <3>2
  <2>3. ~contains(r, Block(e + 1, m \div 2))
    <3>1. w.to + Size(e) - 1 # r.to /\ r.to < w.to + Size(e)
      BY <1>13, <1>15
    <3>2. w.to \in Nat
      BY <1>3, <1>9
    <3>3. ~(w.to + Size(e) - 1 <= r.to)
      BY <1>5, <1>6, <3>1, <3>2
    <3> QED BY <1>12, <3>3 DEF contains
  <2>4. Largest(s, r)
    BY <1>3, <2>3 DEF Largest
  <2>5. up = r.from /\ down = Middle(r) - 1
    BY <1>9, <1>13, <1>15 DEF Up, Down
  <2>6. Split(w.list, r, up, down)
    BY <1>13
  <2> HIDE DEF s, up, down, up2
  <2>7. /\ up \in Int /\ down \in Int /\ up2 \in Int
        /\ r.from <= up /\ up <= up2 /\ up2 <= down + 1 /\ down <= down /\ down <= r.to
        /\ s.from \in Int /\ s.to \in Int /\ s.from <= s.to
        /\ s.from = up /\ s.to = up2 - 1 /\ down = down
    BY <1>3, <1>6, <2>2, <2>5 DEF up2
  <2>8. Split(w.list \cup {s}, r, up2, down)
    BY <2>4, <2>6, <2>7, SplitMore
  <2> QED BY <1>1, <2>1, <2>5, <2>8 DEF up2
<1>16. CASE ~w.fromFull /\ w.toFull
  <2> DEFINE s == Block(e, m + 1)
             up == Up(w, e, r)
             down == Down(w, e, r)
             down2 == Middle(r) - 1
  <2>1. rest = {s}
    BY <1>11, <1>16 DEF rest
  <2>2. s.from = Middle(r) /\ s.to = r.to
    <3> DEFINE n == m + 1
    <3>1. n \in Nat /\ s = Block(e, n) /\ w.to = Size(e) * n
      BY <1>3, <1>8
    <3> HIDE DEF n, s
    <3>2. s.from = w.to /\ s.to = w.to + Size(e) - 1
      BY <1>4, <3>1, BlockFacts
    <3>3. w.to + Size(e) - 1 = r.to
      BY <1>13, <1>16
    <3> QED BY <1>9, <3>2, <3>3
  <2>3. ~contains(r, Block(e + 1, m \div 2))
    <3>1. ~(r.from <= w.from)
      <4>1. w.from # r.from /\ w.from <= r.from
        BY <1>13, <1>16
      <4> QED BY <1>6, <1>9, <4>1
    <3> QED BY <1>12, <3>1 DEF contains
  <2>4. Largest(s, r)
    BY <1>3, <1>12, <2>3 DEF Largest
  <2>5. up = Middle(r) /\ down = r.to
    BY <1>9, <1>13, <1>16 DEF Up, Down
  <2>6. Split(w.list, r, up, down)
    BY <1>13
  <2> HIDE DEF s, up, down, down2
  <2>7. /\ up \in Int /\ down \in Int /\ down2 \in Int
        /\ r.from <= up /\ up <= up /\ up <= down2 + 1 /\ down2 <= down /\ down <= r.to
        /\ s.from \in Int /\ s.to \in Int /\ s.from <= s.to
        /\ s.from = down2 + 1 /\ s.to = down /\ up = up
    BY <1>3, <1>6, <2>2, <2>5 DEF down2
  <2>8. Split(w.list \cup {s}, r, up, down2)
    BY <2>4, <2>6, <2>7, SplitMore
  <2> QED BY <1>1, <2>1, <2>5, <2>8 DEF down2
<1>17. CASE ~w.fromFull /\ ~w.toFull
  <2>1. Up(w, e, r) = Middle(r) /\ Down(w, e, r) = Middle(r) - 1
    BY <1>9, <1>13, <1>17 DEF Up, Down
  <2>2. rest = {}
    BY <1>17 DEF rest
  <2> QED BY <1>1, <1>13, <2>1, <2>2
<1> QED BY <1>14, <1>15, <1>16, <1>17

(* A subnet that is not half of a larger one in the range.                 *)
LEMMA LargestFacts ==
    ASSUME NEW r, NEW s, Largest(s, r)
    PROVE  IsSubnet(s) /\ ~contains(r, Subnet(s.from, Common(s) - 1))
           /\ s = [from |-> s.from, to |-> s.to]
<1>1. PICK i \in 0..WIDTH - 1, m \in Nat :
          s = Block(i, m) /\ ~contains(r, Block(i + 1, m \div 2))
  BY DEF Largest
<1>2. i \in 0..WIDTH /\ i < WIDTH /\ i + 1 \in 0..WIDTH /\ (WIDTH - i) - 1 = WIDTH - (i + 1)
  BY SizeFacts
<1>3. IsSubnet(s) /\ Common(s) = WIDTH - i
  BY <1>1, <1>2, BlockIsSubnet
<1>4. s.from = Size(i) * m /\ s.from \in Nat
  BY <1>1, <1>2, BlockFacts
<1>5. s.from \div Size(i + 1) = m \div 2
  BY <1>2, <1>4, Around
<1>6. Subnet(s.from, WIDTH - (i + 1)) = Block(i + 1, m \div 2)
  BY <1>2, <1>4, <1>5, SubnetIsBlock
<1>7. s = [from |-> s.from, to |-> s.to]
  BY <1>1 DEF Block
<1> QED BY <1>1, <1>2, <1>3, <1>6, <1>7

(* A subnet with no subnet around it in the range is not in doubt: the     *)
(* range is a subnet itself.                                               *)
LEMMA RangeIsLargest ==
    ASSUME NEW r \in IPRange, IsSubnet(r)
    PROVE  r = All \/ ~contains(r, Subnet(r.from, Common(r) - 1))
<1> DEFINE c == Common(r)
           i == WIDTH - c
           m == r.from \div Size(i)
<1>1. c \in 0..WIDTH /\ WIDTH \in Nat
  BY CommonFacts, SizeFacts
<1>2. i \in 0..WIDTH /\ WIDTH - i = c
  <2> HIDE DEF c
  <2> QED BY <1>1
<1>3. r.from \in Nat /\ r.to \in Nat /\ r = [from |-> r.from, to |-> r.to] /\ r.from <= r.to /\ r.to <= LAST
  BY RangeType
<1>4. r = Block(i, m) /\ m \in Nat
  <2>1. r = Subnet(r.from, WIDTH - i)
    BY <1>2 DEF IsSubnet
  <2>2. r = Block(i, m)
    BY <1>2, <1>3, <2>1, SubnetIsBlock
  <2>3. Size(i) \in Nat \ {0}
    BY <1>2, SizeFacts
  <2>4. m \in Nat
    BY <1>3, <2>3, Parts
  <2> QED BY <2>2, <2>4
<1>5. CASE i = WIDTH
  <2>1. r.from = Size(WIDTH) * m /\ r.to = Size(WIDTH) * m + Size(WIDTH) - 1
    BY <1>2, <1>4, <1>5, BlockFacts
  <2>2. LAST = Size(WIDTH) - 1 /\ Size(WIDTH) \in Nat
    <3>1. WIDTH \in 0..WIDTH
      BY <1>1
    <3> QED BY <3>1, SizeFacts
  <2>3. r.from = 0 /\ r.to = LAST
    BY <1>3, <2>1, <2>2
  <2> QED BY <1>3, <2>3 DEF All
<1>6. CASE i # WIDTH
  <2>1. i < WIDTH /\ i + 1 \in 0..WIDTH /\ WIDTH - (i + 1) = c - 1
    <3> HIDE DEF c
    <3>1. i \in 0..WIDTH /\ WIDTH - i = c /\ i = WIDTH - c
      BY <1>2
    <3> HIDE DEF i
    <3> QED BY <1>1, <1>6, <3>1
  <2> DEFINE s == Size(i)
             b == Size(i + 1) * (m \div 2)
  <2>2. s \in Nat \ {0} /\ Size(i + 1) = 2 * s
    BY <1>2, SizeFacts
  <2>3. /\ m \div 2 \in Nat
        /\ b = IF m % 2 = 0 THEN s * m ELSE s * m - s
        /\ (s * m) \div Size(i + 1) = m \div 2
    BY <1>2, <1>4, <2>1, Around
  <2>4. r.from = s * m /\ r.to = s * m + s - 1
    BY <1>2, <1>4, BlockFacts
  <2>5. Subnet(r.from, c - 1) = Block(i + 1, m \div 2)
    BY <1>3, <2>1, <2>3, <2>4, SubnetIsBlock
  <2>6. Block(i + 1, m \div 2).from = b /\ Block(i + 1, m \div 2).to = b + 2 * s - 1
    <3> DEFINE h == m \div 2
    <3>1. h \in Nat
      BY <2>3
    <3> HIDE DEF h, i
    <3>2. Block(i + 1, h).from = Size(i + 1) * h /\ Block(i + 1, h).to = Size(i + 1) * h + Size(i + 1) - 1
      BY <2>1, <3>1, BlockFacts
    <3> QED BY <2>2, <3>2 DEF h
  <2>7. ~(r.from <= b /\ b + 2 * s - 1 <= r.to)
    <3>1. b = r.from \/ b = r.from - s
      BY <2>3, <2>4
    <3>2. r.to = r.from + s - 1
      BY <2>4
    <3> HIDE DEF b, s
    <3> QED BY <1>3, <2>2, <3>1, <3>2
  <2> QED BY <2>5, <2>6, <2>7 DEF contains
<1> QED BY <1>5, <1>6

(* toSubnets() of every range: its addresses, in subnets that do not       *)
(* overlap and of which none could be larger.                              *)
THEOREM ToSubnetsExact ==
    ASSUME NEW r \in IPRange
    PROVE  /\ toSubnets(r) \in SUBSET IPRange
           /\ AddressesOf(toSubnets(r)) = Addresses(r)
           /\ \A s \in toSubnets(r) :
                 /\ IsSubnet(s)
                 /\ \A t \in toSubnets(r) : s # t => ~overlaps(s, t)
                 /\ s = All \/ ~contains(r, Subnet(s.from, Common(s) - 1))
<1>1. r.from \in Int /\ r.to \in Int /\ 0 <= r.from /\ r.from <= r.to /\ r.to <= LAST
  BY RangeType
<1>2. CASE IsSubnet(r)
  <2>1. toSubnets(r) = {r}
    BY <1>2 DEF toSubnets
  <2>2. AddressesOf({r}) = Addresses(r)
    BY DEF AddressesOf
  <2> QED BY <1>2, <2>1, <2>2, RangeIsLargest
<1>3. CASE ~IsSubnet(r)
  <2> DEFINE list == toSubnets(r)
  <2>1. Split(list, r, Middle(r), Middle(r) - 1) /\ Middle(r) \in Int
    BY <1>3, SubnetsSplit, MiddleFacts
  <2> HIDE DEF list
  <2>2. ASSUME NEW s \in list
        PROVE  /\ s \in IPRange /\ IsSubnet(s)
               /\ ~contains(r, Subnet(s.from, Common(s) - 1))
               /\ Addresses(s) \subseteq Addresses(r)
    <3>1. /\ Largest(s, r) /\ s.from \in Int /\ s.to \in Int
          /\ r.from <= s.from /\ s.from <= s.to /\ s.to <= r.to
      BY <2>1 DEF Split
    <3>2. IsSubnet(s) /\ ~contains(r, Subnet(s.from, Common(s) - 1))
          /\ s = [from |-> s.from, to |-> s.to]
      BY <3>1, LargestFacts
    <3>3. s \in IPRange
      <4>1. 0 <= s.from /\ s.to <= LAST /\ LAST \in Int
        BY <1>1, <3>1, RangeAssumption
      <4> QED BY <3>1, <3>2, <4>1, MakeRange
    <3>4. Addresses(s) \subseteq Addresses(r)
      BY <1>1, <3>1 DEF Addresses
    <3> QED BY <3>2, <3>3, <3>4
  <2>3. \A s, t \in list : s # t => ~overlaps(s, t)
    BY <2>1 DEF Split
  <2>4. Addresses(r) \subseteq AddressesOf(list)
    <3> SUFFICES ASSUME NEW x \in r.from..r.to PROVE \E s \in list : x \in s.from..s.to
      BY DEF AddressesOf, Addresses
    <3>1. x < Middle(r) \/ Middle(r) - 1 < x
      BY <1>1, <2>1
    <3>2. PICK s \in list : s.from <= x /\ x <= s.to
      BY <2>1, <3>1 DEF Split
    <3>3. s.from \in Int /\ s.to \in Int
      BY <2>1 DEF Split
    <3> QED BY <1>1, <3>2, <3>3
  <2>5. AddressesOf(list) \subseteq Addresses(r)
    BY <2>2 DEF AddressesOf
  <2> QED BY <2>2, <2>3, <2>4, <2>5 DEF list
<1> QED BY <1>2, <1>3

-----------------------------------------------------------------------------
(* The whole of IPRangeSet.add().                                          *)

(* There are as many ranges as pairs of addresses at most.                 *)
LEMMA RangesAreFinite == IsFiniteSet(IPRange)
<1> DEFINE f == [r \in IPRange |-> <<r.from, r.to>>]
<1>1. IsFiniteSet(Address \X Address)
  <2>1. IsFiniteSet(Address)
    BY FS_Interval, RangeAssumption DEF Address
  <2> QED BY <2>1, FS_Product
<1>2. f \in [IPRange -> Address \X Address]
  BY DEF IPRange
<1>3. ASSUME NEW r \in IPRange, NEW s \in IPRange, f[r] = f[s] PROVE r = s
  <2>1. r.from = s.from /\ r.to = s.to
    BY <1>3
  <2> QED BY <2>1, RangeType
<1>4. f \in Injection(IPRange, Address \X Address)
  BY <1>2, <1>3 DEF Injection, IsInjective
<1> QED BY <1>1, <1>4, FS_Injection

(* So a set of them can be counted.                                        *)
LEMMA SetOfRanges ==
    ASSUME NEW set \in SUBSET IPRange
    PROVE  IsFiniteSet(set) /\ Cardinality(set) \in Nat
  BY RangesAreFinite, FS_Subset, FS_CardinalityType

(* The order of a set of ranges has a first one.                           *)
LEMMA FirstExists ==
    ASSUME NEW set \in SUBSET IPRange, set # {}
    PROVE  First(set) \in set
<1> DEFINE A == {r.from : r \in set}
<1>1. A \in SUBSET Nat /\ A # {}
  BY RangeType
<1>2. PICK a \in A : \A b \in A : a <= b
  <2> HIDE DEF A
  <2> QED BY <1>1, LeastNumber
<1> DEFINE B == {r.to : r \in {s \in set : s.from = a}}
<1>3. B \in SUBSET Nat /\ B # {}
  BY <1>2, RangeType
<1>4. PICK c \in B : \A b \in B : c <= b
  <2> HIDE DEF B
  <2> QED BY <1>3, LeastNumber
<1>5. PICK r \in set : r.from = a /\ r.to = c
  BY <1>4
<1>6. ASSUME NEW s \in set PROVE s = r \/ Comes(r, s)
  <2>1. /\ r = [from |-> r.from, to |-> r.to] /\ s = [from |-> s.from, to |-> s.to]
        /\ r.from \in Int /\ r.to \in Int /\ s.from \in Int /\ s.to \in Int
    BY RangeType
  <2>2. a <= s.from /\ (s.from = a => c <= s.to)
    BY <1>2, <1>4
  <2>3. r.from < s.from \/ (r.from = s.from /\ r.to < s.to) \/ (r.from = s.from /\ r.to = s.to)
    BY <1>5, <2>1, <2>2
  <2> QED BY <2>1, <2>3 DEF Comes
<1> QED BY <1>6 DEF First

(* The loop, as the function it is.                                        *)
Turns(f, range, set, n) ==
    f = [k \in 0..n |-> IF k = 0 THEN [range |-> range, set |-> set] ELSE unite(f[k - 1])]

(* By induction on the number of turns.                                    *)
LEMMA TurnsExist ==
    ASSUME NEW range, NEW set, NEW n \in Nat
    PROVE  \E f : Turns(f, range, set, n)
<1> DEFINE T == {k \in Nat : \E f : Turns(f, range, set, k)}
<1>1. 0 \in T
  <2> DEFINE f == [k \in 0..0 |-> [range |-> range, set |-> set]]
  <2>1. f = [k \in 0..0 |-> IF k = 0 THEN [range |-> range, set |-> set] ELSE unite(f[k - 1])]
    OBVIOUS
  <2> HIDE DEF f
  <2> QED BY <2>1 DEF Turns
<1>2. ASSUME NEW k \in T PROVE k + 1 \in T
  <2>1. PICK f : Turns(f, range, set, k)
    OBVIOUS
  <2> DEFINE g == [j \in 0..k + 1 |-> IF j = k + 1 THEN unite(f[k]) ELSE f[j]]
             h == [j \in 0..k + 1 |-> IF j = 0 THEN [range |-> range, set |-> set]
                                      ELSE unite(g[j - 1])]
  <2>2. ASSUME NEW j \in 0..k + 1
        PROVE  g[j] = IF j = 0 THEN [range |-> range, set |-> set] ELSE unite(g[j - 1])
    <3>1. CASE j = k + 1
      <4>1. j - 1 = k /\ k \in 0..k + 1 /\ j # 0 /\ k # k + 1
        BY <3>1
      <4> QED BY <3>1, <4>1
    <3>2. CASE j # k + 1
      <4>1. j \in 0..k
        BY <3>2
      <4>2. g[j] = f[j]
        BY <3>2
      <4>3. CASE j = 0
        BY <2>1, <4>1, <4>2, <4>3 DEF Turns
      <4>4. CASE j # 0
        <5>1. j - 1 \in 0..k + 1 /\ j - 1 # k + 1
          BY <4>1, <4>4
        <5>2. g[j - 1] = f[j - 1]
          BY <5>1
        <5>3. f[j] = unite(f[j - 1])
          BY <2>1, <4>1, <4>4 DEF Turns
        <5> QED BY <4>2, <4>4, <5>2, <5>3
      <4> QED BY <4>3, <4>4
    <3> QED BY <3>1, <3>2
  <2>3. g = h
    <3> HIDE DEF g
    <3>1. \A j \in 0..k + 1 : g[j] = h[j]
      BY <2>2
    <3> QED BY <3>1 DEF g
  <2>4. Turns(g, range, set, k + 1)
    BY <2>3 DEF Turns
  <2> HIDE DEF g
  <2> QED BY <2>4
<1>3. T \in SUBSET Nat
  OBVIOUS
<1> HIDE DEF T
<1>4. T = Nat
  BY <1>1, <1>2, <1>3, NatInduct
<1> QED BY <1>4 DEF T

(* So what is chosen as the turns are they.                                *)
LEMMA AddIs ==
    ASSUME NEW range \in IPRange, NEW set \in SUBSET IPRange, range \notin set
    PROVE  LET n == Cardinality(set)
           IN  \E f : Turns(f, range, set, n) /\ add(range, set) = f[n].set \cup {f[n].range}
<1> DEFINE n == Cardinality(set)
<1>1. n \in Nat
  BY SetOfRanges
<1>2. add(range, set) = (CHOOSE f : Turns(f, range, set, n))[n].set
                          \cup {(CHOOSE f : Turns(f, range, set, n))[n].range}
  BY DEF add, Turns
<1> QED BY <1>1, <1>2, TurnsExist

(* What the loop keeps: the addresses, the gaps, and that there is less to *)
(* unite with after each turn.                                             *)
Unitable(w) == {r \in w.set : merge(r, w.range) # NoRange}

Turning(w, k, range, set) ==
    /\ w.range \in IPRange /\ w.set \in SUBSET IPRange /\ Merged(w.set)
    /\ AddressesOf(w.set) \cup Addresses(w.range) = AddressesOf(set) \cup Addresses(range)
    /\ Cardinality(w.set) + k <= Cardinality(set) \/ Unitable(w) = {}

(* One turn more.                                                          *)
LEMMA UniteStep ==
    ASSUME NEW range \in IPRange, NEW set \in SUBSET IPRange, NEW k \in Nat, NEW w,
           Turning(w, k, range, set)
    PROVE  Turning(unite(w), k + 1, range, set)
<1> DEFINE existing == First(Unitable(w))
<1>1. CASE Unitable(w) = {}
  <2>1. unite(w) = w
    BY <1>1 DEF unite, Unitable
  <2> QED BY <1>1, <2>1 DEF Turning
<1>2. CASE Unitable(w) # {}
  <2>1. unite(w) = [range |-> merge(existing, w.range), set |-> w.set \ {existing}]
    BY <1>2 DEF unite, Unitable
  <2>2. existing \in w.set /\ merge(existing, w.range) # NoRange
    <3>1. Unitable(w) \in SUBSET IPRange
      BY DEF Unitable, Turning
    <3>2. existing \in Unitable(w)
      BY <1>2, <3>1, FirstExists
    <3> QED BY <3>2 DEF Unitable
  <2> HIDE DEF existing
  <2>3. /\ merge(existing, w.range) \in IPRange
        /\ w.set \ {existing} \in SUBSET IPRange /\ Merged(w.set \ {existing})
        /\ AddressesOf(w.set \ {existing}) \cup Addresses(merge(existing, w.range))
             = AddressesOf(w.set) \cup Addresses(w.range)
    BY <2>2, MergeStep DEF Turning
  <2>4. Cardinality(w.set \ {existing}) + (k + 1) <= Cardinality(set)
    <3>1. Cardinality(w.set) + k <= Cardinality(set)
      BY <1>2 DEF Turning
    <3>2. IsFiniteSet(w.set) /\ Cardinality(w.set) \in Nat /\ Cardinality(set) \in Nat
      BY SetOfRanges DEF Turning
    <3>3. Cardinality(w.set \ {existing}) = Cardinality(w.set) - 1
      BY <2>2, <3>2, FS_RemoveElement
    <3> QED BY <3>1, <3>2, <3>3
  <2> QED BY <2>1, <2>3, <2>4 DEF Turning
<1> QED BY <1>1, <1>2

(* add(), whatever the set and the range: the set has the addresses of the *)
(* range as well, and no two of its ranges could be one.                   *)
THEOREM AddExact ==
    ASSUME NEW set \in SUBSET IPRange, Merged(set), NEW range \in IPRange
    PROVE  /\ add(range, set) \in SUBSET IPRange
           /\ Merged(add(range, set))
           /\ AddressesOf(add(range, set)) = AddressesOf(set) \cup Addresses(range)
<1>1. CASE range \in set
  <2>1. add(range, set) = set
    BY <1>1 DEF add
  <2>2. Addresses(range) \subseteq AddressesOf(set)
    BY <1>1 DEF AddressesOf
  <2> QED BY <2>1, <2>2
<1>2. CASE range \notin set
  <2> DEFINE n == Cardinality(set)
  <2>1. n \in Nat /\ IsFiniteSet(set)
    BY SetOfRanges
  <2>2. PICK f : Turns(f, range, set, n) /\ add(range, set) = f[n].set \cup {f[n].range}
    BY <1>2, AddIs
  <2>3. /\ f[0] = [range |-> range, set |-> set]
        /\ \A k \in 0..n : k # 0 => f[k] = unite(f[k - 1])
    BY <2>1, <2>2 DEF Turns
  <2> DEFINE T == {k \in Nat : k <= n => Turning(f[k], k, range, set)}
  <2>4. 0 \in T
    BY <2>1, <2>3 DEF Turning
  <2>5. ASSUME NEW k \in T PROVE k + 1 \in T
    <3> SUFFICES ASSUME k + 1 <= n PROVE Turning(f[k + 1], k + 1, range, set)
      OBVIOUS
    <3>1. k + 1 \in 0..n /\ k + 1 # 0 /\ (k + 1) - 1 = k /\ k <= n /\ k \in Nat
      BY <2>1
    <3>2. Turning(unite(f[k]), k + 1, range, set)
      BY <3>1, UniteStep
    <3> QED BY <2>3, <3>1, <3>2
  <2>6. T = Nat
    <3>1. T \in SUBSET Nat
      OBVIOUS
    <3> HIDE DEF T
    <3> QED BY <2>4, <2>5, <3>1, NatInduct
  <2> DEFINE w == f[n]
  <2>7. Turning(w, n, range, set)
    BY <2>1, <2>6
  <2> HIDE DEF w
  <2>8. Unitable(w) = {}
    <3>1. CASE Unitable(w) = {}
      BY <3>1
    <3>2. CASE Cardinality(w.set) + n <= n
      <4>1. IsFiniteSet(w.set) /\ Cardinality(w.set) \in Nat
        BY <2>7, SetOfRanges DEF Turning
      <4>2. Cardinality(w.set) = 0
        BY <2>1, <3>2, <4>1
      <4>3. w.set = {}
        BY <4>1, <4>2, FS_EmptySet
      <4> QED BY <4>3 DEF Unitable
    <3> QED BY <2>7, <3>1, <3>2 DEF Turning
  <2>9. \A r \in w.set : merge(r, w.range) = NoRange
    BY <2>8 DEF Unitable
  <2>10. /\ w.set \cup {w.range} \in SUBSET IPRange /\ Merged(w.set \cup {w.range})
         /\ AddressesOf(w.set \cup {w.range}) = AddressesOf(w.set) \cup Addresses(w.range)
    BY <2>7, <2>9, AddDone DEF Turning
  <2>11. add(range, set) = w.set \cup {w.range}
    BY <2>2 DEF w
  <2> QED BY <2>7, <2>10, <2>11 DEF Turning
<1> QED BY <1>1, <1>2

-----------------------------------------------------------------------------
(* addAll() and removeAll(), which take the ranges one after another.      *)

Any(s) == CHOOSE x \in s : TRUE
Step(adds, x, y) == IF adds = 1 THEN add(x, y) ELSE remove(y, x)
Folds(g, S, adds, base, n) ==
    g = [s \in {t \in SUBSET S : Cardinality(t) <= n} |->
            IF s = {} THEN base ELSE Step(adds, Any(s), g[s \ {Any(s)}])]

(* By induction on the size of the sets the fold is defined for.           *)
LEMMA FoldExists ==
    ASSUME NEW S, IsFiniteSet(S), NEW adds, NEW base, NEW n \in Nat
    PROVE  \E g : Folds(g, S, adds, base, n)
<1> DEFINE D(k) == {t \in SUBSET S : Cardinality(t) <= k}
           T == {k \in Nat : \E g : Folds(g, S, adds, base, k)}
<1>1. \A s \in SUBSET S : IsFiniteSet(s) /\ Cardinality(s) \in Nat
  BY FS_Subset, FS_CardinalityType
<1>2. ASSUME NEW s \in SUBSET S, s # {}
      PROVE  s \ {Any(s)} \in SUBSET S /\ Cardinality(s \ {Any(s)}) = Cardinality(s) - 1
  <2>1. Any(s) \in s
    BY <1>2 DEF Any
  <2> QED BY <1>1, <2>1, FS_RemoveElement
<1>3. 0 \in T
  <2> DEFINE g == [s \in D(0) |-> base]
             h == [s \in D(0) |-> IF s = {} THEN base ELSE Step(adds, Any(s), g[s \ {Any(s)}])]
  <2>1. \A s \in D(0) : s = {}
    BY <1>1, FS_EmptySet
  <2>2. g = h
    BY <2>1
  <2>3. Folds(g, S, adds, base, 0)
    BY <2>2 DEF Folds
  <2> HIDE DEF g
  <2> QED BY <2>3
<1>4. ASSUME NEW k \in T PROVE k + 1 \in T
  <2>1. PICK f : Folds(f, S, adds, base, k)
    OBVIOUS
  <2> DEFINE v(s) == IF s = {} THEN base ELSE Step(adds, Any(s), f[s \ {Any(s)}])
             g == [s \in D(k + 1) |-> v(s)]
             h == [s \in D(k + 1) |-> IF s = {} THEN base ELSE Step(adds, Any(s), g[s \ {Any(s)}])]
  <2>2. \A s \in D(k) : f[s] = v(s) /\ s \in D(k + 1)
    <3>1. \A s \in D(k) : f[s] = v(s)
      BY <2>1 DEF Folds
    <3>2. \A s \in D(k) : s \in D(k + 1)
      BY <1>1
    <3> QED BY <3>1, <3>2
  <2>3. ASSUME NEW s \in D(k + 1), s # {}
        PROVE  s \ {Any(s)} \in D(k)
    BY <1>1, <1>2, <2>3
  <2>4. ASSUME NEW s \in D(k + 1) PROVE g[s] = h[s]
    <3>1. g[s] = v(s)
      OBVIOUS
    <3>2. CASE s = {}
      BY <3>2
    <3>3. CASE s # {}
      <4>1. s \ {Any(s)} \in D(k)
        BY <2>3, <3>3
      <4>2. g[s \ {Any(s)}] = f[s \ {Any(s)}]
        <5> DEFINE t == s \ {Any(s)}
        <5>1. t \in D(k + 1) /\ f[t] = v(t)
          BY <2>2, <4>1
        <5> HIDE DEF t, v, D
        <5>2. g[t] = v(t)
          BY <5>1
        <5> QED BY <5>1, <5>2 DEF t
      <4> HIDE DEF D, g
      <4> QED BY <3>1, <3>3, <4>2
    <3> QED BY <3>2, <3>3
  <2>5. g = h
    <3> DEFINE E == D(k + 1)
    <3>1. g = [s \in E |-> g[s]] /\ h = [s \in E |-> h[s]] /\ \A s \in E : g[s] = h[s]
      BY <2>4
    <3> HIDE DEF E, g, h
    <3> QED BY <3>1
  <2>6. Folds(g, S, adds, base, k + 1)
    BY <2>5 DEF Folds
  <2> HIDE DEF g
  <2> QED BY <2>6
<1>5. T \in SUBSET Nat
  OBVIOUS
<1> HIDE DEF T
<1>6. T = Nat
  BY <1>3, <1>4, <1>5, NatInduct
<1> QED BY <1>6 DEF T

FoldsAll(g, S, adds, base) ==
    g = [s \in SUBSET S |-> IF s = {} THEN base ELSE Step(adds, Any(s), g[s \ {Any(s)}])]

(* So it is defined for all of them.                                       *)
LEMMA FoldAllExists ==
    ASSUME NEW S, IsFiniteSet(S), NEW adds, NEW base
    PROVE  \E g : FoldsAll(g, S, adds, base)
<1>1. Cardinality(S) \in Nat /\ \A s \in SUBSET S : Cardinality(s) <= Cardinality(S)
  BY FS_Subset, FS_CardinalityType
<1>2. {t \in SUBSET S : Cardinality(t) <= Cardinality(S)} = SUBSET S
  BY <1>1
<1>3. PICK g : Folds(g, S, adds, base, Cardinality(S))
  BY <1>1, FoldExists
<1> QED BY <1>2, <1>3 DEF Folds, FoldsAll

AddFolds(g, S) ==
    g = [s \in SUBSET S |-> IF s = {} THEN {} ELSE add(Any(s), g[s \ {Any(s)}])]
RemoveFolds(g, S, set) ==
    g = [s \in SUBSET S |-> IF s = {} THEN set ELSE remove(g[s \ {Any(s)}], Any(s))]

(* addAll() is what this function has for the whole set.                   *)
LEMMA AddAllIs ==
    ASSUME NEW S, IsFiniteSet(S)
    PROVE  \E g : AddFolds(g, S) /\ addAll(S) = g[S]
<1>1. \E g : AddFolds(g, S)
  <2>1. PICK g : FoldsAll(g, S, 1, {})
    BY FoldAllExists
  <2>2. \A x, y : Step(1, x, y) = add(x, y)
    BY DEF Step
  <2>3. AddFolds(g, S)
    <3>1. g = [s \in SUBSET S |-> IF s = {} THEN {} ELSE Step(1, Any(s), g[s \ {Any(s)}])]
      BY <2>1 DEF FoldsAll
    <3>2. \A s \in SUBSET S :
             (IF s = {} THEN {} ELSE Step(1, Any(s), g[s \ {Any(s)}]))
               = (IF s = {} THEN {} ELSE add(Any(s), g[s \ {Any(s)}]))
      BY <2>2
    <3>3. g = [s \in SUBSET S |-> IF s = {} THEN {} ELSE add(Any(s), g[s \ {Any(s)}])]
      BY <3>1, <3>2, Zenon
    <3> QED BY <3>3 DEF AddFolds
  <2> QED BY <2>3
<1>2. addAll(S) = (CHOOSE g : AddFolds(g, S))[S]
  BY DEF addAll, FoldSet, MapThenFoldSet, AddFolds, Any
<1> QED BY <1>1, <1>2

(* removeAll() likewise.                                                   *)
LEMMA RemoveAllIs ==
    ASSUME NEW S, IsFiniteSet(S), NEW set
    PROVE  \E g : RemoveFolds(g, S, set) /\ removeAll(set, S) = g[S]
<1>1. \E g : RemoveFolds(g, S, set)
  <2>1. PICK g : FoldsAll(g, S, 0, set)
    BY FoldAllExists
  <2>2. \A x, y : Step(0, x, y) = remove(y, x)
    BY DEF Step
  <2>3. RemoveFolds(g, S, set)
    BY <2>1, <2>2 DEF RemoveFolds, FoldsAll
  <2> QED BY <2>3
<1>2. removeAll(set, S) = (CHOOSE g : RemoveFolds(g, S, set))[S]
  BY DEF removeAll, FoldSet, MapThenFoldSet, RemoveFolds, Any
<1> QED BY <1>1, <1>2

(* All of a set of ranges added to an empty one.                           *)
THEOREM AddAllExact ==
    ASSUME NEW rs \in SUBSET IPRange
    PROVE  /\ addAll(rs) \in SUBSET IPRange
           /\ Merged(addAll(rs))
           /\ AddressesOf(addAll(rs)) = AddressesOf(rs)
<1>1. IsFiniteSet(rs)
  BY SetOfRanges
<1>2. PICK g : AddFolds(g, rs) /\ addAll(rs) = g[rs]
  BY <1>1, AddAllIs
<1> DEFINE Q(s) == g[s] \in SUBSET IPRange /\ Merged(g[s]) /\ AddressesOf(g[s]) = AddressesOf(s)
           T == {s \in SUBSET rs : Q(s)}
<1>3. {} \in T
  <2>1. g[{}] = {}
    BY <1>2 DEF AddFolds
  <2> QED BY <2>1 DEF Merged
<1>4. ASSUME NEW s \in SUBSET rs, s # {}, s \ {Any(s)} \in T PROVE s \in T
  <2>1. Any(s) \in s /\ Any(s) \in IPRange
    BY <1>4 DEF Any
  <2>2. g[s] = add(Any(s), g[s \ {Any(s)}])
    BY <1>2, <1>4 DEF AddFolds
  <2>3. Q(s \ {Any(s)})
    BY <1>4
  <2>4. AddressesOf(s \ {Any(s)}) \cup Addresses(Any(s)) = AddressesOf(s)
    BY <2>1 DEF AddressesOf
  <2>5. Q(s)
    BY <2>1, <2>2, <2>3, <2>4, AddExact
  <2> QED BY <2>5
<1>5. \A s \in SUBSET rs : s # {} => \E x \in s : s \ {x} \in T => s \in T
  <2> HIDE DEF T
  <2>1. \A s \in SUBSET rs : s # {} => Any(s) \in s
    BY DEF Any
  <2> QED BY <1>4, <2>1
<1>6. rs \in T
  <2> HIDE DEF T
  <2> QED BY <1>1, <1>3, <1>5, SetInduct
<1> QED BY <1>2, <1>6

(* All of a set of ranges removed from another.                            *)
THEOREM RemoveAllExact ==
    ASSUME NEW set \in SUBSET IPRange, Merged(set), NEW rs \in SUBSET IPRange
    PROVE  /\ removeAll(set, rs) \in SUBSET IPRange
           /\ Merged(removeAll(set, rs))
           /\ AddressesOf(removeAll(set, rs)) = AddressesOf(set) \ AddressesOf(rs)
<1>1. IsFiniteSet(rs)
  BY SetOfRanges
<1>2. PICK g : RemoveFolds(g, rs, set) /\ removeAll(set, rs) = g[rs]
  BY <1>1, RemoveAllIs
<1> DEFINE Q(s) == /\ g[s] \in SUBSET IPRange /\ Merged(g[s])
                   /\ AddressesOf(g[s]) = AddressesOf(set) \ AddressesOf(s)
           T == {s \in SUBSET rs : Q(s)}
<1>3. {} \in T
  <2>1. g[{}] = set
    BY <1>2 DEF RemoveFolds
  <2>2. AddressesOf({}) = {}
    BY DEF AddressesOf
  <2> QED BY <2>1, <2>2
<1>4. ASSUME NEW s \in SUBSET rs, s # {}, s \ {Any(s)} \in T PROVE s \in T
  <2>1. Any(s) \in s /\ Any(s) \in IPRange
    BY <1>4 DEF Any
  <2>2. g[s] = remove(g[s \ {Any(s)}], Any(s))
    BY <1>2, <1>4 DEF RemoveFolds
  <2>3. Q(s \ {Any(s)})
    BY <1>4
  <2>4. AddressesOf(s \ {Any(s)}) \cup Addresses(Any(s)) = AddressesOf(s)
    BY <2>1 DEF AddressesOf
  <2>5. /\ g[s] \in SUBSET IPRange /\ Merged(g[s])
        /\ AddressesOf(g[s]) = AddressesOf(g[s \ {Any(s)}]) \ Addresses(Any(s))
    <3> DEFINE old == g[s \ {Any(s)}]
               x == Any(s)
    <3>1. old \in SUBSET IPRange /\ Merged(old) /\ x \in IPRange
      BY <2>1, <2>3
    <3> HIDE DEF old, x
    <3>2. /\ remove(old, x) \in SUBSET IPRange /\ Merged(remove(old, x))
          /\ AddressesOf(remove(old, x)) = AddressesOf(old) \ Addresses(x)
      BY <3>1, RemoveExact
    <3> QED BY <2>2, <3>2 DEF old, x
  <2>6. Q(s)
    BY <2>3, <2>4, <2>5
  <2> QED BY <2>6
<1>5. \A s \in SUBSET rs : s # {} => \E x \in s : s \ {x} \in T => s \in T
  <2> HIDE DEF T
  <2>1. \A s \in SUBSET rs : s # {} => Any(s) \in s
    BY DEF Any
  <2> QED BY <1>4, <2>1
<1>6. rs \in T
  <2> HIDE DEF T
  <2> QED BY <1>1, <1>3, <1>5, SetInduct
<1> QED BY <1>2, <1>6

-----------------------------------------------------------------------------
(* What is applied to a builder.                                           *)

(* 0.0.0.0/0 has every address.                                            *)
LEMMA AllFacts ==
    All \in IPRange /\ Addresses(All) = Address /\ AddressesOf({All}) = Address
<1>1. LAST \in Int /\ 0 <= LAST /\ 0 \in Int
  BY RangeAssumption
<1>2. All \in IPRange /\ Addresses(All) = 0..LAST
  BY <1>1, MakeRange DEF All
<1>3. AddressesOf({All}) = Addresses(All)
  BY DEF AddressesOf
<1> QED BY <1>2, <1>3 DEF Address

(* Ranges have addresses, and no set of them is empty of addresses.        *)
LEMMA WithinAddress ==
    ASSUME NEW set \in SUBSET IPRange
    PROVE  /\ AddressesOf(set) \subseteq Address
           /\ AddressesOf(set) = {} <=> set = {}
<1>1. ASSUME NEW r \in IPRange PROVE Addresses(r) \subseteq Address /\ Addresses(r) # {}
  <2>1. r.from \in Int /\ r.to \in Int /\ 0 <= r.from /\ r.from <= r.to /\ r.to <= LAST /\ LAST \in Int
    BY RangeType, RangeAssumption
  <2>2. r.from \in r.from..r.to /\ r.from..r.to \subseteq 0..LAST
    BY <2>1
  <2> QED BY <2>2 DEF Addresses, Address
<1>2. \A r \in set : Addresses(r) \subseteq Address /\ Addresses(r) # {} /\ Addresses(r) \subseteq AddressesOf(set)
  BY <1>1 DEF AddressesOf
<1>3. AddressesOf(set) \subseteq Address
  BY <1>2 DEF AddressesOf
<1>4. set = {} => AddressesOf(set) = {}
  BY DEF AddressesOf
<1>5. set # {} => AddressesOf(set) # {}
  BY <1>2
<1> QED BY <1>3, <1>4, <1>5

(* The subnets of a set are those of its ranges.                           *)
LEMMA SubnetsExact ==
    ASSUME NEW set \in SUBSET IPRange
    PROVE  subnets(set) \in SUBSET IPRange /\ AddressesOf(subnets(set)) = AddressesOf(set)
<1>1. \A r \in set : toSubnets(r) \in SUBSET IPRange /\ AddressesOf(toSubnets(r)) = Addresses(r)
  BY ToSubnetsExact
<1>2. subnets(set) \in SUBSET IPRange
  BY <1>1 DEF subnets
<1>3. AddressesOf(subnets(set)) = UNION {AddressesOf(toSubnets(r)) : r \in set}
  BY DEF AddressesOf, subnets
<1>4. AddressesOf(subnets(set)) = UNION {Addresses(r) : r \in set}
  BY <1>1, <1>3
<1> QED BY <1>2, <1>4 DEF AddressesOf

(* A subnet that is not 0.0.0.0/0 has one around it.                       *)
LEMMA SubnetAround ==
    ASSUME NEW s \in IPRange, IsSubnet(s), s # All
    PROVE  LET p == Subnet(s.from, Common(s) - 1)
           IN  p.from \in Int /\ p.to \in Int /\ p.from <= s.from /\ s.from <= p.to
<1> DEFINE i == WIDTH - (Common(s) - 1)
           b == Size(i)
           q == s.from \div b
<1>1. /\ s.from \in Nat /\ s.from < Size(WIDTH) /\ WIDTH \in Nat
      /\ Size(WIDTH) \in Nat \ {0} /\ Size(WIDTH) = LAST + 1 /\ LAST \in Nat
  BY RangeType, SizeFacts, RangeAssumption
<1>2. Common(s) \in 0..WIDTH
  BY CommonFacts
<1>3. Common(s) # 0
  <2> SUFFICES ASSUME Common(s) = 0 PROVE FALSE
    OBVIOUS
  <2> DEFINE w == Size(WIDTH)
  <2>1. s.from \div w = 0
    <3>2. w \in Nat \ {0} /\ s.from < w
      BY <1>1
    <3> HIDE DEF w
    <3>1. w * 0 + s.from = s.from
      BY <1>1, <3>2
    <3>3. (w * 0 + s.from) \div w = 0
      <4>1. s.from \in Nat /\ 0 \in Nat
        BY <1>1
      <4> QED BY <3>2, <4>1, Quotient
    <3> QED BY <3>1, <3>3
  <2>2. WIDTH - 0 = WIDTH /\ WIDTH \in 0..WIDTH
    BY <1>1
  <2>3. Subnet(s.from, WIDTH - WIDTH) = Block(WIDTH, 0)
    BY <1>1, <2>1, <2>2, SubnetIsBlock
  <2>4. WIDTH - WIDTH = 0
    BY <1>1
  <2>5. s = Block(WIDTH, 0)
    BY <2>3, <2>4 DEF IsSubnet
  <2>6. Size(WIDTH) * 0 = 0 /\ 0 + Size(WIDTH) - 1 = LAST
    BY <1>1
  <2> QED BY <2>5, <2>6 DEF Block, All
<1>4. i \in 0..WIDTH /\ WIDTH - i = Common(s) - 1
  BY <1>1, <1>2, <1>3
<1> HIDE DEF i
<1>5. Subnet(s.from, WIDTH - i) = Block(i, q)
  BY <1>1, <1>4, SubnetIsBlock
<1>6. b \in Nat \ {0}
  BY <1>4, SizeFacts
<1>7. q \in Nat /\ s.from % b \in Nat /\ s.from % b < b /\ s.from = b * q + (s.from % b) /\ b * q \in Nat
  <2> HIDE DEF b
  <2> QED BY <1>1, <1>6, Parts
<1>8. Block(i, q) = [from |-> b * q, to |-> b * q + b - 1]
  BY DEF Block
<1>9. b * q <= s.from /\ s.from <= b * q + b - 1
  <2> DEFINE m == b * q
             t == s.from % b
  <2>1. m \in Nat /\ t \in Nat /\ t < b /\ s.from = m + t
    BY <1>7
  <2> HIDE DEF m, t, b
  <2> QED BY <1>6, <2>1 DEF m
<1> DEFINE p == Subnet(s.from, Common(s) - 1)
<1>10. p.from = b * q /\ p.to = b * q + b - 1
  BY <1>4, <1>5, <1>8
<1> HIDE DEF p
<1>11. b * q \in Int /\ b * q + b - 1 \in Int
  <2> DEFINE m == b * q
  <2>1. m \in Nat
    BY <1>7
  <2> HIDE DEF m, b
  <2>2. m + b - 1 \in Int
    BY <1>6, <2>1
  <2> QED BY <2>1, <2>2 DEF m
<1>12. p.from \in Int /\ p.to \in Int /\ p.from <= s.from /\ s.from <= p.to
  BY <1>9, <1>10, <1>11
<1> QED BY <1>12 DEF p

(* The subnets of ranges that stay apart are as large as their addresses   *)
(* allow: a larger one would reach from its range into the gap behind.     *)
LEMMA SubnetsAreLargest ==
    ASSUME NEW set \in SUBSET IPRange, Merged(set), NEW s \in subnets(set)
    PROVE  s \in LargestSubnets(AddressesOf(set))
<1>1. PICK r \in set : s \in toSubnets(r)
  BY DEF subnets
<1>2. /\ s \in IPRange /\ IsSubnet(s) /\ Addresses(s) \subseteq Addresses(r)
      /\ s = All \/ ~contains(r, Subnet(s.from, Common(s) - 1))
  BY <1>1, ToSubnetsExact DEF AddressesOf
<1>3. Addresses(s) \subseteq AddressesOf(set)
  BY <1>1, <1>2 DEF AddressesOf
<1>4. ASSUME s # All, Addresses(Subnet(s.from, Common(s) - 1)) \subseteq AddressesOf(set)
      PROVE  FALSE
  <2> DEFINE p == Subnet(s.from, Common(s) - 1)
  <2>1. p.from \in Int /\ p.to \in Int /\ p.from <= s.from /\ s.from <= p.to
    BY <1>2, <1>4, SubnetAround
  <2>2. /\ r.from \in Int /\ r.to \in Int /\ s.from \in Int /\ s.to \in Int
        /\ s.from <= s.to
    BY <1>2, RangeType
  <2>3. r.from <= s.from /\ s.from <= r.to
    <3>1. s.from \in s.from..s.to
      BY <2>2
    <3>2. s.from \in r.from..r.to
      BY <1>2, <3>1 DEF Addresses
    <3> QED BY <2>2, <3>2
  <2>4. ~contains(r, p) /\ Addresses(p) \subseteq AddressesOf(set)
    BY <1>2, <1>4
  <2> HIDE DEF p
  <2>5. ASSUME NEW a \in Int, p.from <= a, a <= p.to, a = r.to + 1 \/ a = r.from - 1
        PROVE  FALSE
    <3>1. a \in Addresses(p)
      BY <2>1, <2>5 DEF Addresses
    <3>2. PICK t \in set : a \in t.from..t.to
      BY <2>4, <3>1 DEF AddressesOf, Addresses
    <3>3. t.from \in Int /\ t.to \in Int /\ t.from <= a /\ a <= t.to
      <4>1. t.from \in Int /\ t.to \in Int
        BY RangeType
      <4> QED BY <3>2, <4>1
    <3>4. t # r
      BY <2>2, <2>5, <3>3
    <3>5. r.to + 1 < t.from \/ t.to + 1 < r.from
      BY <1>1, <3>4 DEF Merged
    <3> QED BY <2>2, <2>3, <2>5, <3>3, <3>5
  <2>6. p.to > r.to \/ p.from < r.from
    BY <2>1, <2>2, <2>4 DEF contains
  <2>7. CASE p.to > r.to
    <3>1. r.to + 1 \in Int /\ p.from <= r.to + 1 /\ r.to + 1 <= p.to
      BY <2>1, <2>2, <2>3, <2>7
    <3> QED BY <2>5, <3>1
  <2>8. CASE p.from < r.from
    <3>1. r.from - 1 \in Int /\ p.from <= r.from - 1 /\ r.from - 1 <= p.to
      BY <2>1, <2>2, <2>3, <2>8
    <3> QED BY <2>5, <3>1
  <2> QED BY <2>6, <2>7, <2>8
<1> QED BY <1>2, <1>3, <1>4 DEF LargestSubnets

(* What Android takes of the subnets of a set.                             *)
LEMMA TakenExact ==
    ASSUME NEW set \in SUBSET IPRange, Merged(set)
    PROVE  LET taken == {s \in subnets(set) : s.from \notin Refused}
           IN  /\ taken \in SUBSET IPRange
               /\ AddressesOf(taken) \subseteq AddressesOf(set)
               /\ AddressesOf(set) \ AddressesOf(taken) \subseteq Lost(AddressesOf(set))
<1> DEFINE taken == {s \in subnets(set) : s.from \notin Refused}
<1>1. subnets(set) \in SUBSET IPRange /\ AddressesOf(subnets(set)) = AddressesOf(set)
  BY SubnetsExact
<1>2. AddressesOf(taken) \subseteq AddressesOf(subnets(set))
  BY DEF AddressesOf
<1>3. ASSUME NEW a \in AddressesOf(set), a \notin AddressesOf(taken)
      PROVE  a \in Lost(AddressesOf(set))
  <2>1. PICK s \in subnets(set) : a \in Addresses(s)
    BY <1>1 DEF AddressesOf
  <2>2. s \notin taken
    BY <1>3, <2>1 DEF AddressesOf
  <2>3. s.from \in Refused
    BY <2>2
  <2>4. s \in LargestSubnets(AddressesOf(set))
    BY SubnetsAreLargest
  <2>5. s \in {t \in LargestSubnets(AddressesOf(set)) : t.from \in Refused}
    BY <2>3, <2>4
  <2> QED BY <2>1, <2>5 DEF Lost, AddressesOf
<1> QED BY <1>1, <1>2, <1>3

(* The addresses of a union.                                               *)
LEMMA AddressesOfUnion ==
    ASSUME NEW S, NEW T
    PROVE  AddressesOf(S \cup T) = AddressesOf(S) \cup AddressesOf(T)
  BY DEF AddressesOf

(* A device takes what the builder had, and the traffic that is configured *)
(* but for what is refused.                                                *)
LEMMA ApplyExact ==
    ASSUME TypeOK, RangesAreNamed, NEW cache \in Cache, NEW b \in Builder
    PROVE  /\ applyData(cache, b) \in Builder
           /\ b.routes \subseteq applyData(cache, b).routes
           /\ AddressesOf(applyData(cache, b).routes) \subseteq AddressesOf(b.routes) \cup Configured(cache)
           /\ Configured(cache) \ AddressesOf(applyData(cache, b).routes) \subseteq Lost(Configured(cache))
           /\ b.allowed => applyData(cache, b).allowed
<1> DEFINE inc1 == IF mIncludedSubnets # {} THEN addAll(mIncludedSubnets) ELSE addAll(cache.mRoutes)
           split == removeAll(inc1, mExcludedSubnets)
           routes == IF ~cache.seen THEN {} ELSE IF blockUnrouted THEN {All}
                     ELSE {s \in subnets(split) : s.from \notin Refused}
           allowed == b.allowed \/ (~cache.seen /\ ~blockUnrouted)
<1>1. /\ mIncludedSubnets \in SUBSET IPRange /\ mExcludedSubnets \in SUBSET IPRange
      /\ cache.mRoutes \in SUBSET IPRange /\ b.routes \in SUBSET IPRange /\ b.allowed \in BOOLEAN
      /\ cache.seen \in BOOLEAN
  BY DEF TypeOK, Cache, Builder
<1>2. applyData(cache, b) = [routes |-> b.routes \cup routes, allowed |-> allowed]
  BY DEF applyData
<1>3. /\ inc1 \in SUBSET IPRange /\ Merged(inc1)
      /\ AddressesOf(inc1) = IF named.included # {} THEN named.included ELSE AddressesOf(cache.mRoutes)
  <2>1. AddressesOf(mIncludedSubnets) = named.included
    BY DEF RangesAreNamed
  <2>2. mIncludedSubnets # {} <=> named.included # {}
    BY <1>1, <2>1, WithinAddress
  <2>3. CASE mIncludedSubnets # {}
    BY <1>1, <2>1, <2>2, <2>3, AddAllExact
  <2>4. CASE mIncludedSubnets = {}
    BY <1>1, <2>1, <2>2, <2>4, AddAllExact
  <2> QED BY <2>3, <2>4
<1> HIDE DEF inc1
<1>4. /\ split \in SUBSET IPRange /\ Merged(split)
      /\ AddressesOf(split) = AddressesOf(inc1) \ named.excluded
  BY <1>1, <1>3, RemoveAllExact DEF RangesAreNamed
<1> HIDE DEF split
<1>5. LET taken == {s \in subnets(split) : s.from \notin Refused}
      IN  /\ taken \in SUBSET IPRange
          /\ AddressesOf(taken) \subseteq AddressesOf(split)
          /\ AddressesOf(split) \ AddressesOf(taken) \subseteq Lost(AddressesOf(split))
  BY <1>4, TakenExact
<1>6. /\ routes \in SUBSET IPRange
      /\ AddressesOf(routes) \subseteq Configured(cache)
      /\ Configured(cache) \ AddressesOf(routes) \subseteq Lost(Configured(cache))
  <2>1. CASE ~cache.seen
    <3>1. AddressesOf({}) = {}
      BY DEF AddressesOf
    <3> QED BY <2>1, <3>1 DEF Configured
  <2>2. CASE cache.seen /\ blockUnrouted
    BY <2>2, AllFacts DEF Configured
  <2>3. CASE cache.seen /\ ~blockUnrouted
    <3>1. Configured(cache) = AddressesOf(split)
      BY <1>3, <1>4, <2>3 DEF Configured
    <3> QED BY <1>5, <2>3, <3>1
  <2> QED BY <2>1, <2>2, <2>3
<1> HIDE DEF routes, allowed
<1>7. AddressesOf(b.routes \cup routes) = AddressesOf(b.routes) \cup AddressesOf(routes)
  BY AddressesOfUnion
<1>8. allowed \in BOOLEAN
  BY DEF allowed
<1>9. applyData(cache, b) \in Builder
  <2>1. b.routes \cup routes \in SUBSET IPRange
    BY <1>1, <1>6
  <2>2. [routes |-> b.routes \cup routes, allowed |-> allowed] \in Builder
    BY <1>8, <2>1, Zenon DEF Builder
  <2> QED BY <1>2, <2>2
<1>10. applyData(cache, b).routes = b.routes \cup routes
  BY <1>2
<1>11. b.allowed => applyData(cache, b).allowed
  <2>1. applyData(cache, b).allowed = allowed
    BY <1>2
  <2>2. b.allowed => allowed
    BY Zenon DEF allowed
  <2> QED BY <2>1, <2>2
<1>12. Configured(cache) \ AddressesOf(b.routes \cup routes) \subseteq Lost(Configured(cache))
  BY <1>6, <1>7
<1> QED BY <1>6, <1>7, <1>9, <1>10, <1>11, <1>12

(* More is configured, the more charon has negotiated.                     *)
LEMMA ConfiguredGrows ==
    ASSUME NEW c \in Cache, NEW d \in Cache,
           c.seen => d.seen, AddressesOf(c.mRoutes) \subseteq AddressesOf(d.mRoutes)
    PROVE  Configured(c) \subseteq Configured(d)
  BY DEF Configured

(* The bound on the number of ranges.                                      *)
LEMMA BoundFacts ==
    MaxRanges <= Max({MaxRanges, MaxIncluded}) /\ MaxIncluded <= Max({MaxRanges, MaxIncluded})
    /\ Max({MaxRanges, MaxIncluded}) \in Nat
<1> DEFINE S == {MaxRanges, MaxIncluded}
           n == MaxRanges + MaxIncluded
<1>1. n \in Nat /\ S \in SUBSET (0..n) /\ S # {}
  BY BuilderAssumption
<1>2. Max(S) \in S /\ \A y \in S : y <= Max(S)
  <2> HIDE DEF S, n
  <2> QED BY <1>1, MaxExists
<1>3. Max(S) \in Nat
  BY <1>2, BuilderAssumption
<1> QED BY <1>2, <1>3

-----------------------------------------------------------------------------
(* The invariant.                                                          *)

(* What a cache and a builder start with.                                  *)
LEMMA NewFacts ==
    ASSUME TypeOK
    PROVE  /\ NewCache \in Cache /\ NewBuilder \in Builder
           /\ AddressesOf(NewBuilder.routes) = {}
  BY DEF TypeOK, NewCache, NewBuilder, Cache, Builder, AddressesOf

(* The invariant holds at first.                                           *)
LEMMA InitBuilder == Init => BuilderInv
<1> SUFFICES ASSUME Init PROVE BuilderInv
  OBVIOUS
<1>1. TypeOK
  <2>1. 0 \in 0..Max({MaxRanges, MaxIncluded})
    BY BoundFacts
  <2>2. NewCache \in Cache /\ NewBuilder \in Builder
    BY DEF Init, NewCache, NewBuilder, Cache, Builder
  <2>3. named \in [included: SUBSET Address, excluded: SUBSET Address]
    BY DEF Init
  <2> QED BY <2>1, <2>2, <2>3 DEF Init, TypeOK
<1>2. RangesAreNamed
  BY DEF Init, RangesAreNamed, AddressesOf, Merged
<1>3. ProfileFirst
  BY DEF Init, ProfileFirst
<1>4. LeftoversAreConfigured
  BY DEF Init, LeftoversAreConfigured, NewBuilder, AddressesOf
<1>5. DeviceIsConfigured /\ BlockingIsConfigured
  BY DEF Init, DeviceIsConfigured, BlockingIsConfigured
<1> QED BY <1>1, <1>2, <1>3, <1>4, <1>5 DEF BuilderInv

(* A range that the profile names.                                         *)
LEMMA IncludeStep ==
    ASSUME BuilderInv, NEW r \in IPRange, include(r)
    PROVE  BuilderInv'
<1>1. /\ mIncludedSubnets \in SUBSET IPRange /\ Merged(mIncludedSubnets)
      /\ AddressesOf(mIncludedSubnets) = named.included
  BY DEF BuilderInv, TypeOK, RangesAreNamed
<1>2. /\ mIncludedSubnets' \in SUBSET IPRange /\ Merged(mIncludedSubnets')
      /\ AddressesOf(mIncludedSubnets') = named.included \cup Addresses(r)
  BY <1>1, AddExact DEF include
<1>3. /\ named' = [included |-> named.included \cup Addresses(r), excluded |-> named.excluded]
      /\ named' \in [included: SUBSET Address, excluded: SUBSET Address]
  <2>1. named \in [included: SUBSET Address, excluded: SUBSET Address]
    BY DEF BuilderInv, TypeOK
  <2>2. Addresses(r) \subseteq Address
    BY <1>2, WithinAddress
  <2>3. named' = [named EXCEPT !.included = @ \cup Addresses(r)]
    BY DEF include
  <2> QED BY <2>1, <2>2, <2>3
<1>4. ranges' \in 0..Max({MaxRanges, MaxIncluded})
  <2>1. ranges \in Nat /\ ranges' = ranges + 1 /\ (ranges < MaxRanges \/ ranges < MaxIncluded)
    BY DEF BuilderInv, TypeOK, include
  <2> DEFINE m == Max({MaxRanges, MaxIncluded})
  <2>2. MaxRanges <= m /\ MaxIncluded <= m /\ m \in Nat /\ MaxRanges \in Nat /\ MaxIncluded \in Nat
    BY BoundFacts, BuilderAssumption
  <2> HIDE DEF m
  <2>3. ranges' \in 0..m
    BY <2>1, <2>2
  <2> QED BY <2>3 DEF m
<1>5. TypeOK'
  <2> HIDE DEF Max, Merged
  <2> QED BY <1>2, <1>3, <1>4 DEF BuilderInv, TypeOK, include
<1>6. RangesAreNamed'
  BY <1>2, <1>3 DEF BuilderInv, RangesAreNamed, include
<1>7. phase = "profile" /\ mBuilder = NewBuilder /\ device = NoDevice /\ blocking = NoDevice
      /\ mEstablishedCache = NoDevice
  BY DEF include, BuilderInv, ProfileFirst
<1>8. ProfileFirst' /\ DeviceIsConfigured' /\ BlockingIsConfigured'
  BY <1>7 DEF include, ProfileFirst, DeviceIsConfigured, BlockingIsConfigured, NewBuilder
<1>9. LeftoversAreConfigured'
  BY <1>7 DEF include, LeftoversAreConfigured, NewBuilder, AddressesOf
<1> QED BY <1>5, <1>6, <1>8, <1>9 DEF BuilderInv

(* A range that the profile excludes.                                      *)
LEMMA ExcludeStep ==
    ASSUME BuilderInv, NEW r \in IPRange, exclude(r)
    PROVE  BuilderInv'
<1>1. /\ mExcludedSubnets \in SUBSET IPRange /\ Merged(mExcludedSubnets)
      /\ AddressesOf(mExcludedSubnets) = named.excluded
  BY DEF BuilderInv, TypeOK, RangesAreNamed
<1>2. /\ mExcludedSubnets' \in SUBSET IPRange /\ Merged(mExcludedSubnets')
      /\ AddressesOf(mExcludedSubnets') = named.excluded \cup Addresses(r)
  BY <1>1, AddExact DEF exclude
<1>3. /\ named' = [included |-> named.included, excluded |-> named.excluded \cup Addresses(r)]
      /\ named' \in [included: SUBSET Address, excluded: SUBSET Address]
  <2>1. named \in [included: SUBSET Address, excluded: SUBSET Address]
    BY DEF BuilderInv, TypeOK
  <2>2. Addresses(r) \subseteq Address
    BY <1>2, WithinAddress
  <2>3. named' = [named EXCEPT !.excluded = @ \cup Addresses(r)]
    BY DEF exclude
  <2> QED BY <2>1, <2>2, <2>3
<1>4. ranges' \in 0..Max({MaxRanges, MaxIncluded})
  <2>1. ranges \in Nat /\ ranges' = ranges + 1 /\ ranges < MaxRanges
    BY DEF BuilderInv, TypeOK, exclude
  <2> DEFINE m == Max({MaxRanges, MaxIncluded})
  <2>2. MaxRanges <= m /\ m \in Nat /\ MaxRanges \in Nat
    BY BoundFacts, BuilderAssumption
  <2> HIDE DEF m
  <2>3. ranges' \in 0..m
    BY <2>1, <2>2
  <2> QED BY <2>3 DEF m
<1>5. TypeOK'
  <2> HIDE DEF Max, Merged
  <2> QED BY <1>2, <1>3, <1>4 DEF BuilderInv, TypeOK, exclude
<1>6. RangesAreNamed'
  BY <1>2, <1>3 DEF BuilderInv, RangesAreNamed, exclude
<1>7. phase = "profile" /\ mBuilder = NewBuilder /\ device = NoDevice /\ blocking = NoDevice
      /\ mEstablishedCache = NoDevice
  BY DEF exclude, BuilderInv, ProfileFirst
<1>8. ProfileFirst' /\ DeviceIsConfigured' /\ BlockingIsConfigured'
  BY <1>7 DEF exclude, ProfileFirst, DeviceIsConfigured, BlockingIsConfigured, NewBuilder
<1>9. LeftoversAreConfigured'
  BY <1>7 DEF exclude, LeftoversAreConfigured, NewBuilder, AddressesOf
<1> QED BY <1>5, <1>6, <1>8, <1>9 DEF BuilderInv

(* The steps that leave the profile alone.                                 *)
LEMMA ProfileStays ==
    ASSUME TypeOK, RangesAreNamed, UNCHANGED profileVars,
           phase' = "connection", mCache' \in Cache,
           mEstablishedCache' \in Cache \cup {NoDevice}, mBuilder' \in Builder,
           {device', blocking'} \subseteq Builder \cup {NoDevice},
           ranges' \in 0..Max({MaxRanges, MaxIncluded})
    PROVE  /\ TypeOK' /\ RangesAreNamed' /\ ProfileFirst'
           /\ Configured(mCache)' = Configured(mCache')
           /\ Configured(mEstablishedCache)' = Configured(mEstablishedCache')
           /\ BlockingIsConfigured' <=>
                (blocking' # NoDevice =>
                   Takes(blocking', Configured(BlockingCache)))
<1>1. /\ blockUnrouted' = blockUnrouted /\ dnsConfigured' = dnsConfigured
      /\ mIncludedSubnets' = mIncludedSubnets /\ mExcludedSubnets' = mExcludedSubnets
      /\ named' = named
  BY DEF profileVars
<1>2. TypeOK'
  BY <1>1 DEF TypeOK
<1>3. RangesAreNamed'
  BY <1>1 DEF RangesAreNamed
<1>4. ProfileFirst'
  BY DEF ProfileFirst
<1>5. Configured(mCache)' = Configured(mCache')
  BY <1>1 DEF Configured
<1>6. Configured(mEstablishedCache)' = Configured(mEstablishedCache')
  BY <1>1 DEF Configured
<1>7. BlockingIsConfigured' <=>
        (blocking' # NoDevice =>
           Takes(blocking', Configured(BlockingCache)))
  BY <1>1 DEF BlockingIsConfigured, Configured, Takes
<1> QED BY <1>2, <1>3, <1>4, <1>5, <1>6, <1>7

(* The blocking device, and the connection that needs none.                *)
LEMMA FirstStep ==
    ASSUME BuilderInv, setProfile \/ establishBlocking
    PROVE  BuilderInv'
<1>1. TypeOK /\ RangesAreNamed /\ ProfileFirst
  BY DEF BuilderInv
<1>2. NewCache \in Cache /\ NewBuilder \in Builder /\ AddressesOf(NewBuilder.routes) = {}
  BY <1>1, NewFacts
<1>3. BlockingCache \in Cache
  BY AllFacts DEF BlockingCache, Cache
<1>4. /\ UNCHANGED <<profileVars, mBuilder, device, ranges>>
      /\ phase' = "connection" /\ mCache' = NewCache
      /\ mBuilder = NewBuilder /\ device = NoDevice
  BY <1>1 DEF setProfile, establishBlocking, ProfileFirst
<1>5. \/ blocking' = NoDevice /\ mEstablishedCache' = NoDevice
      \/ blocking' = applyData(BlockingCache, NewBuilder) /\ mEstablishedCache' = BlockingCache
  BY <1>1 DEF setProfile, establishBlocking, ProfileFirst
<1>6. /\ applyData(BlockingCache, NewBuilder) \in Builder
      /\ Takes(applyData(BlockingCache, NewBuilder), Configured(BlockingCache))
  BY <1>1, <1>2, <1>3, ApplyExact DEF Takes
<1>7. /\ TypeOK' /\ RangesAreNamed' /\ ProfileFirst'
      /\ Configured(mCache)' = Configured(mCache')
      /\ BlockingIsConfigured' <=>
           (blocking' # NoDevice =>
              Takes(blocking', Configured(BlockingCache)))
  <2>1. /\ mCache' \in Cache /\ mEstablishedCache' \in Cache \cup {NoDevice}
        /\ mBuilder' \in Builder
        /\ {device', blocking'} \subseteq Builder \cup {NoDevice}
        /\ ranges' \in 0..Max({MaxRanges, MaxIncluded}) /\ UNCHANGED profileVars
    BY <1>1, <1>2, <1>3, <1>4, <1>5, <1>6 DEF TypeOK
  <2> QED BY <1>1, <1>4, <2>1, ProfileStays
<1>8. BlockingIsConfigured'
  BY <1>5, <1>6, <1>7
<1>9. LeftoversAreConfigured' /\ DeviceIsConfigured'
  BY <1>2, <1>4 DEF LeftoversAreConfigured, DeviceIsConfigured
<1> QED BY <1>7, <1>8, <1>9 DEF BuilderInv

(* What charon negotiates adds to what is configured.                      *)
LEMMA NegotiateStep ==
    ASSUME BuilderInv, addAddress \/ \E r \in IPRange : addRoute(r)
    PROVE  BuilderInv'
<1>1. TypeOK /\ RangesAreNamed /\ ProfileFirst
  BY DEF BuilderInv
<1>2. mCache \in Cache /\ mBuilder \in Builder
  BY <1>1 DEF TypeOK
<1>3. /\ phase' = "connection"
      /\ UNCHANGED <<profileVars, mEstablishedCache, mBuilder, device, blocking>>
  BY DEF addAddress, addRoute
<1>4. /\ mCache' \in Cache /\ (mCache.seen => mCache'.seen)
      /\ AddressesOf(mCache.mRoutes) \subseteq AddressesOf(mCache'.mRoutes)
      /\ ranges' \in 0..Max({MaxRanges, MaxIncluded})
  <2>1. CASE addAddress
    <3>1. mCache' = [seen |-> TRUE, mRoutes |-> mCache.mRoutes] /\ ranges' = ranges
      BY <1>2, <2>1 DEF addAddress, Cache
    <3> QED BY <1>1, <1>2, <3>1 DEF Cache, TypeOK
  <2>2. CASE \E r \in IPRange : addRoute(r)
    <3>1. PICK r \in IPRange : addRoute(r)
      BY <2>2
    <3>2. mCache' = [seen |-> mCache.seen, mRoutes |-> mCache.mRoutes \cup {r}]
      BY <1>2, <3>1 DEF addRoute, Cache
    <3>3. mCache' \in Cache
      BY <1>2, <3>2 DEF Cache
    <3>4. AddressesOf(mCache.mRoutes) \subseteq AddressesOf(mCache'.mRoutes)
      <4>1. AddressesOf(mCache.mRoutes \cup {r}) = AddressesOf(mCache.mRoutes) \cup AddressesOf({r})
        BY AddressesOfUnion
      <4> QED BY <3>2, <4>1
    <3>5. ranges' \in 0..Max({MaxRanges, MaxIncluded})
      <4>1. ranges \in Nat /\ ranges' = ranges + 1 /\ ranges < MaxRanges
        BY <1>1, <3>1 DEF TypeOK, addRoute
      <4> DEFINE m == Max({MaxRanges, MaxIncluded})
      <4>2. MaxRanges <= m /\ m \in Nat /\ MaxRanges \in Nat
        BY BoundFacts, BuilderAssumption
      <4> HIDE DEF m
      <4>3. ranges' \in 0..m
        BY <4>1, <4>2
      <4> QED BY <4>3 DEF m
    <3> QED BY <3>2, <3>3, <3>4, <3>5
  <2> QED BY <2>1, <2>2
<1>5. /\ TypeOK' /\ RangesAreNamed' /\ ProfileFirst'
      /\ Configured(mCache)' = Configured(mCache')
      /\ Configured(mEstablishedCache)' = Configured(mEstablishedCache')
      /\ BlockingIsConfigured' <=>
           (blocking' # NoDevice =>
              Takes(blocking', Configured(BlockingCache)))
  <2>1. /\ mEstablishedCache' \in Cache \cup {NoDevice} /\ mBuilder' \in Builder
        /\ {device', blocking'} \subseteq Builder \cup {NoDevice} /\ UNCHANGED profileVars
    BY <1>1, <1>3 DEF TypeOK
  <2> QED BY <1>1, <1>3, <1>4, <2>1, ProfileStays
<1>6. LeftoversAreConfigured'
  <2>1. Configured(mCache) \subseteq Configured(mCache')
    BY <1>2, <1>4, ConfiguredGrows
  <2> QED BY <1>3, <1>5, <2>1 DEF BuilderInv, LeftoversAreConfigured
<1>7. DeviceIsConfigured'
  BY <1>3, <1>5 DEF BuilderInv, DeviceIsConfigured
<1>8. BlockingIsConfigured'
  BY <1>3, <1>5 DEF BuilderInv, BlockingIsConfigured
<1> QED BY <1>5, <1>6, <1>7, <1>8 DEF BuilderInv

(* A device is opened, or Android refuses.                                 *)
LEMMA EstablishStep ==
    ASSUME BuilderInv, establish \/ EstablishFails \/ establishNoDns
    PROVE  BuilderInv'
<1>1. TypeOK /\ RangesAreNamed /\ ProfileFirst
  BY DEF BuilderInv
<1>2. /\ mCache \in Cache /\ mBuilder \in Builder
      /\ NewCache \in Cache /\ NewBuilder \in Builder /\ AddressesOf(NewBuilder.routes) = {}
      /\ mEstablishedCache \in Cache \cup {NoDevice}
  BY <1>1, NewFacts DEF TypeOK
<1>3. /\ applyData(mCache, mBuilder) \in Builder
      /\ Takes(applyData(mCache, mBuilder), Configured(mCache))
      /\ mBuilder.routes \subseteq applyData(mCache, mBuilder).routes
  <2>1. AddressesOf(mBuilder.routes) \subseteq Configured(mCache)
    BY DEF BuilderInv, LeftoversAreConfigured
  <2> QED BY <1>1, <1>2, <2>1, ApplyExact DEF Takes
<1>4. phase' = "connection" /\ UNCHANGED <<profileVars, ranges>>
  BY DEF establish, EstablishFails, establishNoDns
<1>5. ASSUME /\ mCache' \in Cache
             /\ mEstablishedCache' \in Cache \cup {NoDevice} /\ mBuilder' \in Builder
             /\ {device', blocking'} \subseteq Builder \cup {NoDevice}
      PROVE  /\ TypeOK' /\ RangesAreNamed' /\ ProfileFirst'
             /\ Configured(mCache)' = Configured(mCache')
             /\ Configured(mEstablishedCache)' = Configured(mEstablishedCache')
             /\ BlockingIsConfigured' <=>
                  (blocking' # NoDevice =>
                     Takes(blocking', Configured(BlockingCache)))
  <2>1. ranges' \in 0..Max({MaxRanges, MaxIncluded}) /\ UNCHANGED profileVars
    BY <1>1, <1>4 DEF TypeOK
  <2> QED BY <1>1, <1>4, <1>5, <2>1, ProfileStays
<1>6. CASE establish
  <2>1. /\ device' = applyData(mCache, mBuilder) /\ mBuilder' = NewBuilder
        /\ mEstablishedCache' = mCache /\ mCache' = NewCache /\ blocking' = NoDevice
    BY <1>6 DEF establish
  <2>2. /\ TypeOK' /\ RangesAreNamed' /\ ProfileFirst'
        /\ Configured(mEstablishedCache)' = Configured(mEstablishedCache')
    BY <1>2, <1>3, <1>5, <2>1
  <2>3. LeftoversAreConfigured' /\ BlockingIsConfigured'
    BY <1>2, <2>1 DEF LeftoversAreConfigured, BlockingIsConfigured
  <2>4. DeviceIsConfigured'
    BY <1>3, <2>1, <2>2 DEF DeviceIsConfigured
  <2> QED BY <2>2, <2>3, <2>4 DEF BuilderInv
<1>7. CASE EstablishFails
  <2>0. PICK routes \in SUBSET applyData(mCache, mBuilder).routes,
             allowed \in {mBuilder.allowed, applyData(mCache, mBuilder).allowed} :
                mBuilder' = [routes |-> routes, allowed |-> allowed]
    BY <1>7 DEF EstablishFails
  <2>1. /\ mBuilder' \in Builder
        /\ AddressesOf(mBuilder'.routes) \subseteq Configured(mCache)
        /\ UNCHANGED <<mCache, mEstablishedCache, device, blocking>>
    <3>1. routes \in SUBSET IPRange /\ allowed \in BOOLEAN
      BY <1>2, <1>3, <2>0 DEF Builder
    <3>2. mBuilder' \in Builder /\ mBuilder'.routes = routes
      BY <2>0, <3>1, Zenon DEF Builder
    <3>3. AddressesOf(routes) \subseteq AddressesOf(applyData(mCache, mBuilder).routes)
      BY <2>0 DEF AddressesOf
    <3>4. UNCHANGED <<mCache, mEstablishedCache, device, blocking>>
      BY <1>7 DEF EstablishFails
    <3> QED BY <1>3, <3>2, <3>3, <3>4 DEF Takes
  <2>2. {device', blocking'} \subseteq Builder \cup {NoDevice}
    BY <1>1, <2>1 DEF TypeOK
  <2>3. /\ TypeOK' /\ RangesAreNamed' /\ ProfileFirst'
        /\ Configured(mCache)' = Configured(mCache')
        /\ Configured(mEstablishedCache)' = Configured(mEstablishedCache')
        /\ BlockingIsConfigured' <=>
             (blocking' # NoDevice =>
                Takes(blocking', Configured(BlockingCache)))
    BY <1>2, <1>3, <1>5, <2>1, <2>2
  <2>4. LeftoversAreConfigured'
    BY <1>3, <2>1, <2>3 DEF LeftoversAreConfigured
  <2>5. DeviceIsConfigured' /\ BlockingIsConfigured'
    BY <2>1, <2>3 DEF BuilderInv, DeviceIsConfigured, BlockingIsConfigured
  <2> QED BY <2>3, <2>4, <2>5 DEF BuilderInv
<1>8. CASE establishNoDns
  <2>1. /\ device' = applyData(mEstablishedCache, NewBuilder)
        /\ mEstablishedCache \in Cache
        /\ UNCHANGED <<mCache, mEstablishedCache, mBuilder, blocking>>
    BY <1>2, <1>8 DEF establishNoDns
  <2>2. /\ applyData(mEstablishedCache, NewBuilder) \in Builder
        /\ Takes(applyData(mEstablishedCache, NewBuilder), Configured(mEstablishedCache))
    BY <1>1, <1>2, <2>1, ApplyExact DEF Takes
  <2>3. {device', blocking'} \subseteq Builder \cup {NoDevice}
    BY <1>1, <2>1, <2>2 DEF TypeOK
  <2>4. /\ TypeOK' /\ RangesAreNamed' /\ ProfileFirst'
        /\ Configured(mCache)' = Configured(mCache')
        /\ Configured(mEstablishedCache)' = Configured(mEstablishedCache')
        /\ BlockingIsConfigured' <=>
             (blocking' # NoDevice =>
                Takes(blocking', Configured(BlockingCache)))
    BY <1>2, <1>5, <2>1, <2>3
  <2>5. DeviceIsConfigured'
    BY <2>1, <2>2, <2>4 DEF DeviceIsConfigured
  <2>6. LeftoversAreConfigured' /\ BlockingIsConfigured'
    BY <2>1, <2>4 DEF BuilderInv, LeftoversAreConfigured, BlockingIsConfigured
  <2> QED BY <2>4, <2>5, <2>6 DEF BuilderInv
<1> QED BY <1>6, <1>7, <1>8

(* No variable changes.                                                    *)
LEMMA StutterStep ==
    ASSUME BuilderInv, UNCHANGED vars
    PROVE  BuilderInv'
<1>1. /\ UNCHANGED <<blockUnrouted, dnsConfigured, mIncludedSubnets, mExcludedSubnets, named>>
      /\ UNCHANGED <<phase, mCache, mEstablishedCache, mBuilder, device, blocking, ranges>>
  BY DEF vars, profileVars
<1>2. TypeOK' /\ RangesAreNamed' /\ ProfileFirst'
  BY <1>1 DEF BuilderInv, TypeOK, RangesAreNamed, ProfileFirst, NewBuilder
<1>3. LeftoversAreConfigured' /\ DeviceIsConfigured' /\ BlockingIsConfigured'
  BY <1>1 DEF BuilderInv, LeftoversAreConfigured, DeviceIsConfigured, BlockingIsConfigured, Configured, Takes
<1> QED BY <1>2, <1>3 DEF BuilderInv

(* Every step keeps the invariant.                                         *)
LEMMA NextBuilder == BuilderInv /\ [Next]_vars => BuilderInv'
<1> SUFFICES ASSUME BuilderInv, [Next]_vars PROVE BuilderInv'
  OBVIOUS
<1>1. CASE \E r \in IPRange : include(r) \/ exclude(r)
  BY <1>1, IncludeStep, ExcludeStep
<1>2. CASE setProfile \/ establishBlocking
  BY <1>2, FirstStep
<1>3. CASE addAddress \/ \E r \in IPRange : IsSubnet(r) /\ addRoute(r)
  BY <1>3, NegotiateStep
<1>4. CASE establish \/ EstablishFails \/ establishNoDns
  BY <1>4, EstablishStep
<1>5. CASE UNCHANGED vars
  BY <1>5, StutterStep
<1> QED BY <1>1, <1>2, <1>3, <1>4, <1>5 DEF Next

(* The invariant of the routes.                                            *)
THEOREM BuilderInvariance == Spec => []BuilderInv
<1>1. Init => BuilderInv
  BY InitBuilder
<1>2. BuilderInv /\ [Next]_vars => BuilderInv'
  BY NextBuilder
<1> QED BY <1>1, <1>2, PTL DEF Spec

(* The variables keep their types: what is given to Android are ranges.    *)
THEOREM BuilderTypeCorrect == Spec => []TypeOK
<1>1. BuilderInv => TypeOK
  BY DEF BuilderInv
<1> QED BY <1>1, BuilderInvariance, PTL

(* A set of ranges has the addresses that were named, whatever the profile *)
(* names and in whatever order.                                            *)
THEOREM RangesNamedTheorem == Spec => []RangesAreNamed
<1>1. BuilderInv => RangesAreNamed
  BY DEF BuilderInv
<1> QED BY <1>1, BuilderInvariance, PTL

(* The subnets of every range that is kept are exact.                      *)
THEOREM SubnetsExactTheorem == Spec => []SubnetsAreExact
<1>1. BuilderInv => SubnetsAreExact
  <2> SUFFICES ASSUME BuilderInv, NEW r \in mIncludedSubnets \cup mExcludedSubnets
               PROVE  /\ AddressesOf(toSubnets(r)) = Addresses(r)
                      /\ \A s \in toSubnets(r) :
                            /\ IsSubnet(s)
                            /\ \A t \in toSubnets(r) : s # t => ~overlaps(s, t)
                            /\ s = All \/ ~contains(r, Subnet(s.from, Common(s) - 1))
    BY DEF SubnetsAreExact
  <2>1. r \in IPRange
    BY DEF BuilderInv, TypeOK
  <2> QED BY <2>1, ToSubnetsExact
<1> QED BY <1>1, BuilderInvariance, PTL

(* charon's device takes the traffic that the profile asks for, but for    *)
(* the subnets of it that Android refuses because they are multicast.      *)
THEOREM DeviceConfiguredTheorem == Spec => []DeviceIsConfigured
<1>1. BuilderInv => DeviceIsConfigured
  BY DEF BuilderInv
<1> QED BY <1>1, BuilderInvariance, PTL

(* The connection routes no address that the blocking device left open,    *)
(* but for what that was refused.                                          *)
THEOREM BlockingCoversTheorem == Spec => BlockingCovers
<1>1. ASSUME BuilderInv, [Next]_vars, blocking # NoDevice, blocking' = NoDevice
      PROVE  AddressesOf(device'.routes) \ AddressesOf(blocking.routes)
                \subseteq Lost(Configured(BlockingCache))
  <2>1. establish
    BY <1>1 DEF Next, vars, include, exclude, setProfile, establishBlocking, addAddress, addRoute,
                EstablishFails, establishNoDns
  <2>2. mCache \in Cache /\ mBuilder \in Builder /\ TypeOK /\ RangesAreNamed
    BY <1>1 DEF BuilderInv, TypeOK
  <2>3. AddressesOf(device'.routes) \subseteq Configured(mCache)
    <3>1. AddressesOf(applyData(mCache, mBuilder).routes)
             \subseteq AddressesOf(mBuilder.routes) \cup Configured(mCache)
      BY <2>2, ApplyExact
    <3>2. AddressesOf(mBuilder.routes) \subseteq Configured(mCache)
      BY <1>1 DEF BuilderInv, LeftoversAreConfigured
    <3>3. device' = applyData(mCache, mBuilder)
      BY <2>1 DEF establish
    <3> QED BY <3>1, <3>2, <3>3
  <2>4. Configured(BlockingCache) \ AddressesOf(blocking.routes) \subseteq Lost(Configured(BlockingCache))
    BY <1>1 DEF BuilderInv, BlockingIsConfigured, Takes
  <2>5. /\ BlockingCache \in Cache /\ BlockingCache.seen
        /\ AddressesOf(mCache.mRoutes) \subseteq AddressesOf(BlockingCache.mRoutes)
    <3>1. BlockingCache \in Cache
      BY AllFacts DEF Cache, BlockingCache
    <3>2. AddressesOf(mCache.mRoutes) \subseteq Address
      BY <2>2, WithinAddress DEF Cache
    <3>3. BlockingCache.seen /\ AddressesOf(BlockingCache.mRoutes) = Address
      BY AllFacts DEF BlockingCache
    <3> QED BY <3>1, <3>2, <3>3
  <2>6. Configured(mCache) \subseteq Configured(BlockingCache)
    BY <2>2, <2>5, ConfiguredGrows
  <2> QED BY <2>3, <2>4, <2>6
<1>2. BuilderInv /\ [Next]_vars =>
        [blocking # NoDevice /\ blocking' = NoDevice
           => AddressesOf(device'.routes) \ AddressesOf(blocking.routes)
                 \subseteq Lost(Configured(BlockingCache))]_vars
  BY <1>1
<1> QED BY <1>2, BuilderInvariance, PTL DEF Spec, BlockingCovers
=============================================================================

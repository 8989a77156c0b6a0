------------------------------- MODULE IPRange -------------------------------
(***************************************************************************)
(* Ranges of IP addresses: IPRange.java of the IKEv2 client.  An address   *)
(* has WIDTH bits; LAST is the one with all bits set.                      *)
(***************************************************************************)
EXTENDS Integers, FiniteSetsExt

CONSTANTS WIDTH, LAST, NoRange

ASSUME RangeAssumption == WIDTH \in Nat /\ LAST \in Nat
ASSUME WidthAssumption == LAST = 2^WIDTH - 1

(* A fact of arithmetic, which holds for every WIDTH: powers double.       *)
ASSUME PowersAssumption == \A n \in 0..WIDTH : 2^n \in Nat \ {0} /\ 2^(n + 1) = 2 * 2^n

Address == 0..LAST
IPRange == {r \in [from: Address, to: Address] : r.from <= r.to}

ASSUME NoRangeAssumption == NoRange \notin IPRange

Addresses(r) == r.from..r.to
AddressesOf(set) == UNION {Addresses(r) : r \in set}

(* No two ranges of the set could be one.                                  *)
Merged(set) == \A r, s \in set : r # s => r.to + 1 < s.from \/ s.to + 1 < r.from

Comes(r, s) == r.from < s.from \/ (r.from = s.from /\ r.to < s.to)
contains(r, s) == r.from <= s.from /\ s.to <= r.to
overlaps(r, s) == ~(r.to < s.from \/ s.to < r.from)

(* Bytes carry over: behind the last address is the first one.             *)
inc(a) == IF a = LAST THEN 0 ELSE a + 1
dec(a) == IF a = 0 THEN LAST ELSE a - 1

-----------------------------------------------------------------------------
removeRangeKeepingEnds(r, s) ==
    IF ~overlaps(r, s) THEN {r}
    ELSE IF contains(s, r) THEN {}
    ELSE IF r.from < s.from /\ s.to < r.to
    THEN {[from |-> r.from, to |-> s.from], [from |-> s.to, to |-> r.to]}
    ELSE {[from |-> IF r.from < s.from THEN r.from ELSE s.to,
           to   |-> IF r.to > s.to THEN r.to ELSE s.from]}

(* What is left of r without s: nothing, one range or two.                 *)
removeRange(r, s) ==
    IF ~overlaps(r, s) THEN {r}
    ELSE IF contains(s, r) THEN {}
    ELSE IF r.from < s.from /\ s.to < r.to
    THEN {[from |-> r.from, to |-> dec(s.from)], [from |-> inc(s.to), to |-> r.to]}
    ELSE {[from |-> IF r.from < s.from THEN r.from ELSE inc(s.to),
           to   |-> IF r.to > s.to THEN r.to ELSE dec(s.from)]}

adjacent(r, s) == IF r.to < s.from THEN inc(r.to) = s.from ELSE dec(r.from) = s.to

Hull(r, s) == [from |-> IF r.from < s.from THEN r.from ELSE s.from,
               to   |-> IF r.to > s.to THEN r.to ELSE s.to]

(* One range for two that overlap or touch, or null.                       *)
merge(r, s) ==
    IF overlaps(r, s) \/ adjacent(r, s) THEN Hull(r, s) ELSE NoRange

(* IPRangeSet.remove(): every range of a set loses s.                      *)
remove(set, s) == UNION {removeRange(r, s) : r \in set}

-----------------------------------------------------------------------------
(* Subnets.                                                                *)

SubnetOneMore(base, prefix) ==
    LET first == base - (base % 2^(WIDTH - prefix))
    IN  [from |-> first, to |-> first + 2^(WIDTH - prefix)]

(* The subnet of an address, with a prefix of that many bits.              *)
Subnet(base, prefix) ==
    LET first == base - (base % 2^(WIDTH - prefix))
    IN  [from |-> first, to |-> first + 2^(WIDTH - prefix) - 1]

(* The length of what the two ends have in common.                         *)
Common(r) ==
    Max({p \in 0..WIDTH : r.from \div 2^(WIDTH - p) = r.to \div 2^(WIDTH - p)})

IsSubnet(r) == r = Subnet(r.from, Common(r))

BitOf(a, i) == (a \div 2^i) % 2
Clear(a, i) == a - (BitOf(a, i) * 2^i)

(* toSubnets() climbs the trees of subnets from both ends to where they    *)
(* meet.  What it knows after some bits: the addresses without those bits, *)
(* the last bit of each, whether all was full, the subnets.                *)
Climb(w, i) ==
    LET fromBit == BitOf(w.from, i)
        toBit == BitOf(w.to, i)
        right == IF w.fromPrev = fromBit THEN {}
                 ELSE {Subnet(Clear(w.from, i) + 2^i, WIDTH - i)}
        left == IF w.toPrev = toBit THEN {}
                ELSE {Subnet(Clear(w.to, i), WIDTH - i)}
    IN  [from |-> Clear(w.from, i), fromPrev |-> IF fromBit = 1 THEN 1 ELSE w.fromPrev,
         fromFull |-> w.fromFull /\ ~(w.fromPrev = 0 /\ fromBit = 1),
         to |-> Clear(w.to, i), toPrev |-> IF toBit = 0 THEN 0 ELSE w.toPrev,
         toFull |-> w.toFull /\ ~(w.toPrev = 1 /\ toBit = 0),
         list |-> w.list \cup right \cup left]

After(r, bits) ==
    LET walk[k \in 0..bits] ==
            IF k = 0
            THEN [from |-> r.from, fromPrev |-> 0, fromFull |-> TRUE,
                  to |-> r.to, toPrev |-> 1, toFull |-> TRUE, list |-> {}]
            ELSE Climb(walk[k - 1], k - 1)
    IN  walk[bits]

toSubnetsWithoutRoot(r) ==
    IF IsSubnet(r) THEN {r} ELSE After(r, WIDTH - Common(r) - 1).list

toSubnets(r) ==
    LET prefix == Common(r)
        w == After(r, WIDTH - prefix - 1)
        rest == IF w.fromFull /\ w.toFull THEN {Subnet(w.from, prefix)}
                ELSE IF w.fromFull THEN {Subnet(w.from, prefix + 1)}
                ELSE IF w.toFull THEN {Subnet(w.to, prefix + 1)}
                ELSE {}
    IN  IF IsSubnet(r) THEN {r} ELSE w.list \cup rest
=============================================================================

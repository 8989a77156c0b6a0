------------------------ MODULE EkoVPNMgrServiceProofs ------------------------
(* Proofs about EkoVPNMgrService, for every set of servers, every amount   *)
(* of time and every bound on what the user and the network do.            *)
EXTENDS EkoVPNMgrService, FiniteSetTheorems, SequenceTheorems, TLAPS

-----------------------------------------------------------------------------
(* Sequences.                                                              *)

LEMMA AppendFacts ==
    ASSUME NEW S, NEW q \in Seq(S), NEW e \in S
    PROVE  /\ Append(q, e) \in Seq(S) /\ Len(Append(q, e)) = Len(q) + 1 /\ Len(q) \in Nat
           /\ DOMAIN q = 1..Len(q) /\ DOMAIN Append(q, e) = 1..(Len(q) + 1)
           /\ \A i \in 1..Len(q) : Append(q, e)[i] = q[i]
           /\ Append(q, e)[Len(q) + 1] = e
           /\ Append(q, e) # <<>>
  OBVIOUS

LEMMA TailFacts ==
    ASSUME NEW S, NEW q \in Seq(S), q # <<>>
    PROVE  /\ Tail(q) \in Seq(S) /\ Len(q) \in Nat /\ Len(q) > 0 /\ Len(Tail(q)) = Len(q) - 1
           /\ Head(q) = q[1] /\ Head(q) \in S
           /\ DOMAIN q = 1..Len(q) /\ DOMAIN Tail(q) = 1..(Len(q) - 1)
           /\ \A i \in 1..(Len(q) - 1) : Tail(q)[i] = q[i + 1]
<1>1. Len(q) \in Nat /\ Len(q) > 0
  OBVIOUS
<1>2. Tail(q) \in Seq(S) /\ Len(Tail(q)) = Len(q) - 1
  OBVIOUS
<1>3. Head(q) = q[1] /\ Head(q) \in S
  OBVIOUS
<1>4. \A i \in 1..(Len(q) - 1) : Tail(q)[i] = q[i + 1]
  OBVIOUS
<1>5. DOMAIN q = 1..Len(q) /\ DOMAIN Tail(q) = 1..(Len(q) - 1)
  BY <1>2
<1> QED BY <1>1, <1>2, <1>3, <1>4, <1>5

-----------------------------------------------------------------------------
(* Credits on their way to the manager.                                    *)

LEMMA MoresFinite ==
    ASSUME TypeOK
    PROVE  IsFiniteSet(Mores) /\ Cardinality(Mores) \in Nat
<1>1. intents \in Seq(Intent)
  BY DEF TypeOK
<1>2. Mores \subseteq 1..Len(intents) /\ Len(intents) \in Nat
  BY <1>1 DEF Mores
<1>3. IsFiniteSet(1..Len(intents))
  BY <1>2, FS_Interval
<1> QED BY <1>2, <1>3, FS_Subset, FS_CardinalityType

LEMMA MoresAppend ==
    ASSUME TypeOK, NEW i \in Intent, intents' = Append(intents, i)
    PROVE  Cardinality(Mores') = Cardinality(Mores) + IF i.action = "more" THEN 1 ELSE 0
<1> DEFINE n == Len(intents) + 1
<1>1. /\ DOMAIN intents = 1..Len(intents) /\ DOMAIN intents' = 1..n /\ Len(intents) \in Nat
      /\ \A k \in 1..Len(intents) : intents'[k] = intents[k]
      /\ intents'[n] = i
  <2>1. intents \in Seq(Intent)
    BY DEF TypeOK
  <2> QED BY <2>1, AppendFacts
<1>2. n \notin Mores
  BY <1>1 DEF Mores
<1>3. CASE i.action = "more"
  <2>1. Mores' = Mores \cup {n}
    BY <1>1, <1>3 DEF Mores
  <2> QED BY <1>2, <1>3, <2>1, MoresFinite, FS_AddElement
<1>4. CASE i.action # "more"
  <2>1. Mores' = Mores
    BY <1>1, <1>4 DEF Mores
  <2> QED BY <1>4, <2>1, MoresFinite
<1> QED BY <1>3, <1>4

LEMMA MoresTail ==
    ASSUME TypeOK, intents # <<>>, intents' = Tail(intents)
    PROVE  /\ Cardinality(Mores') \in Nat
           /\ Cardinality(Mores) =
                Cardinality(Mores') + IF Head(intents).action = "more" THEN 1 ELSE 0
<1> DEFINE n == Len(intents)
           rest == Mores \ {1}
           f == [k \in Mores' |-> k + 1]
<1>1. /\ DOMAIN intents = 1..n /\ DOMAIN intents' = 1..(n - 1) /\ n \in Nat /\ n > 0
      /\ \A k \in 1..(n - 1) : intents'[k] = intents[k + 1]
      /\ Head(intents) = intents[1]
  <2>1. intents \in Seq(Intent)
    BY DEF TypeOK
  <2> QED BY <2>1, TailFacts
<1>2. IsFiniteSet(Mores) /\ Cardinality(Mores) \in Nat
  BY MoresFinite
<1>3. Cardinality(Mores) = Cardinality(rest) + IF Head(intents).action = "more" THEN 1 ELSE 0
  <2>1. CASE Head(intents).action = "more"
    <3>1. 1 \in Mores
      BY <1>1, <2>1 DEF Mores
    <3>2. Cardinality(rest) = Cardinality(Mores) - 1
      BY <1>2, <3>1, FS_RemoveElement
    <3> HIDE DEF rest
    <3>3. Cardinality(Mores) = Cardinality(rest) + 1
      BY <1>2, <3>2
    <3> QED BY <2>1, <3>3
  <2>2. CASE Head(intents).action # "more"
    <3>1. rest = Mores
      BY <1>1, <2>2 DEF Mores
    <3> HIDE DEF rest
    <3>2. Cardinality(Mores) = Cardinality(rest) + 0
      BY <1>2, <3>1
    <3> QED BY <2>2, <3>2
  <2> QED BY <2>1, <2>2
<1>4. f \in Bijection(Mores', rest)
  <2>1. Mores' = {k \in 1..(n - 1) : intents[k + 1].action = "more"}
    BY <1>1 DEF Mores
  <2>2. \A k \in Mores' : k \in Int /\ k + 1 \in rest
    BY <1>1, <2>1 DEF Mores
  <2>3. \A k \in rest : k - 1 \in Mores' /\ (k - 1) + 1 = k
    BY <1>1, <2>1 DEF Mores
  <2>4. f \in [Mores' -> rest]
    BY <2>2
  <2>5. \A a, b \in Mores' : f[a] = f[b] => a = b
    BY <2>2
  <2>6. \A k \in rest : f[k - 1] = k
    BY <2>3
  <2>7. f \in Injection(Mores', rest) /\ f \in Surjection(Mores', rest)
    BY <2>3, <2>4, <2>5, <2>6 DEF Injection, IsInjective, Surjection
  <2> QED BY <2>7 DEF Bijection
<1>5. Cardinality(Mores') \in Nat /\ Cardinality(Mores') = Cardinality(rest)
  <2>1. IsFiniteSet(rest)
    BY <1>2, FS_Subset
  <2>2. IsFiniteSet(Mores')
    <3>1. Mores' \subseteq 1..(n - 1) /\ IsFiniteSet(1..(n - 1))
      BY <1>1, FS_Interval DEF Mores
    <3> QED BY <3>1, FS_Subset
  <2>3. ExistsBijection(Mores', rest)
    BY <1>4, Zenon DEF ExistsBijection
  <2> QED BY <2>1, <2>2, <2>3, FS_Bijection, FS_CardinalityType
<1> QED BY <1>3, <1>5

(* The limit of the time there is, and room for one more credit.           *)
LEMMA Product ==
    ASSUME NEW a \in Nat, NEW b \in Nat, NEW c \in Nat
    PROVE  /\ a * c \in Nat /\ (a + 1) * c = a * c + c
           /\ a <= b => a * c <= b * c
<1>1. a * c \in Nat /\ b * c \in Nat /\ (a + 1) * c = a * c + c
  OBVIOUS
<1>2. ASSUME a <= b PROVE a * c <= b * c
  <2>1. (b - a) * c >= 0 /\ (b - a) * c = b * c - a * c
    BY <1>2
  <2> QED BY <1>1, <2>1
<1> QED BY <1>1, <1>2

LEMMA LimitFacts ==
    ASSUME TypeOK, TimeInv
    PROVE  /\ Credited \in 0..MaxCredits /\ Limit \in Nat /\ DefaultTime <= Limit
           /\ 0 \in Time /\ DefaultTime \in Time
           /\ getTimeLeft \in Time /\ getTimeLeft <= Limit
           /\ Credited < MaxCredits => Limit + Credit <= DefaultTime + MaxCredits * Credit
<1>1. /\ DefaultTime \in Nat /\ Credit \in Nat /\ MaxCredits \in Nat
      /\ Cardinality(Mores) \in Nat /\ credits \in 0..MaxCredits
  BY ManagerAssumption, MoresFinite DEF TypeOK
<1>2. Credited \in 0..MaxCredits
  BY <1>1 DEF Credited, TimeInv
<1>3. Credited * Credit \in Nat /\ MaxCredits * Credit \in Nat
  BY <1>1, <1>2, Product
<1>4. Credited < MaxCredits => Credited * Credit + Credit <= MaxCredits * Credit
  <2>1. ASSUME Credited < MaxCredits PROVE Credited * Credit + Credit <= MaxCredits * Credit
    <3>1. Credited + 1 \in Nat /\ Credited + 1 <= MaxCredits
      BY <1>1, <1>2, <2>1
    <3> QED BY <1>1, <1>2, <3>1, Product
  <2> QED BY <2>1
<1>5. Limit \in Nat /\ DefaultTime <= Limit
  BY <1>1, <1>3 DEF Limit
<1>6. 0 \in Time /\ DefaultTime \in Time
  BY <1>1, <1>3 DEF Time
<1>7. getTimeLeft \in Time /\ getTimeLeft <= Limit
  BY <1>5, <1>6 DEF getTimeLeft, TypeOK, TimeInv
<1> QED BY <1>1, <1>2, <1>3, <1>4, <1>5, <1>6, <1>7 DEF Limit

LEMMA TimeFacts ==
    ASSUME TypeOK
    PROVE  /\ MaxCredits * Credit \in Nat /\ DefaultTime \in Nat /\ MaxCredits \in Nat
           /\ Credit \in Nat
           /\ Time \subseteq Nat /\ 0 \in Time
           /\ timeLeft \in Nat /\ stored \in Int /\ ui.left \in Nat
           /\ \A i \in DOMAIN intents : intents[i].left \in Nat
<1>1. DefaultTime \in Nat /\ Credit \in Nat /\ MaxCredits \in Nat /\ MaxCredits * Credit \in Nat
  BY ManagerAssumption, Product
<1>2. Time \subseteq Nat /\ 0 \in Time
  BY <1>1 DEF Time
<1>3. timeLeft \in Nat /\ stored \in Int /\ ui.left \in Nat
  <2>1. timeLeft \in Time /\ stored \in Time \cup {Absent} /\ ui.left \in Time
    BY DEF TypeOK
  <2>2. \A t \in Time : t \in Nat
    BY <1>2
  <2> QED BY <2>1, <2>2 DEF Absent
<1>4. \A i \in DOMAIN intents : intents[i].left \in Nat
  <2>1. \A i \in DOMAIN intents : intents[i] \in Intent
    BY DEF TypeOK
  <2> QED BY <1>2, <2>1 DEF Intent
<1> QED BY <1>1, <1>2, <1>3, <1>4

LEMMA LimitGrows ==
    ASSUME TypeOK, TimeInv, Credited' \in Nat, Credited <= Credited'
    PROVE  /\ Limit <= Limit' /\ Limit' \in Nat /\ Limit \in Nat
           /\ Credited' = Credited + 1 => Limit' = Limit + Credit
<1>1. /\ DefaultTime \in Nat /\ Credit \in Nat /\ Credited \in Nat
  BY LimitFacts, ManagerAssumption
<1>2. /\ Credited * Credit \in Nat /\ Credited' * Credit \in Nat
      /\ Credited * Credit <= Credited' * Credit
      /\ (Credited + 1) * Credit = Credited * Credit + Credit
  BY <1>1, Product
<1>3. Limit = DefaultTime + Credited * Credit /\ Limit' = DefaultTime + Credited' * Credit
  BY DEF Limit
<1>4. ASSUME Credited' = Credited + 1
      PROVE  Credited' * Credit = Credited * Credit + Credit
  <2>1. Credited' * Credit = (Credited + 1) * Credit
    BY <1>4
  <2> QED BY <1>2, <2>1
<1> HIDE DEF Limit
<1>5. ASSUME NEW p \in Nat, NEW r \in Nat, p <= r, NEW l, l = DefaultTime + p,
             NEW m, m = DefaultTime + r
      PROVE  l <= m /\ l \in Nat /\ m \in Nat /\ (r = p + Credit => m = l + Credit)
  BY <1>1, <1>5
<1> QED BY <1>2, <1>3, <1>4, <1>5

-----------------------------------------------------------------------------
(* Type correctness.                                                       *)

LEMMA TypeDisconnect ==
    ASSUME TypeOK, NEW s \in ServerOrNull, disconnectCurrentVPN(s)
    PROVE  callbacks' \in [Kind -> Nat]
<1>1. s # None => KindOf[s] \in Kind
  BY ManagerAssumption DEF ServerOrNull
<1> QED BY <1>1 DEF TypeOK, disconnectCurrentVPN

LEMMA TypeRun ==
    ASSUME TypeOK, NEW s \in ServerOrNull, NEW left \in Time, runCountDownTimer(s, left)
    PROVE  /\ server' \in ServerOrNull /\ countDownTimer' \in BOOLEAN
           /\ timeLeft' = left /\ timeLeft' \in Time /\ callbacks' \in [Kind -> Nat]
           /\ left = 0 => stored' = 0
  BY TypeDisconnect DEF runCountDownTimer, onFinish, TypeOK, ServerOrNull

LEMMA StartFacts ==
    ASSUME TypeOK, TimeInv, onStartCommand
    PROVE  /\ Head(intents) \in Intent /\ Head(intents).left <= Limit
           /\ intents' \in Seq(Intent)
           /\ \A i \in DOMAIN intents' : \E k \in DOMAIN intents : intents'[i] = intents[k]
           /\ Credited' = Credited + IF Head(intents).action = "more" THEN 1 ELSE 0
           /\ Credited' \in 0..MaxCredits
<1>1. intents # <<>> /\ intents' = Tail(intents) /\ intents \in Seq(Intent) /\ UNCHANGED credits
  BY DEF onStartCommand, TypeOK, userVars
<1>2. Head(intents) = intents[1] /\ 1 \in DOMAIN intents /\ Head(intents) \in Intent
  BY <1>1, TailFacts
<1>3. /\ intents' \in Seq(Intent)
      /\ \A i \in DOMAIN intents' : i + 1 \in DOMAIN intents /\ intents'[i] = intents[i + 1]
  BY <1>1, TailFacts
<1>4. /\ credits \in 0..MaxCredits /\ MaxCredits \in Nat /\ Cardinality(Mores) \in Nat
      /\ Cardinality(Mores') \in Nat
      /\ Cardinality(Mores) = Cardinality(Mores') + IF Head(intents).action = "more" THEN 1 ELSE 0
  BY <1>1, MoresTail, MoresFinite, ManagerAssumption DEF TypeOK
<1>5. Credited >= 0 /\ Credited = credits - Cardinality(Mores) /\ Credited' = credits - Cardinality(Mores')
  BY <1>1 DEF Credited, TimeInv
<1>6. /\ Credited' = Credited + IF Head(intents).action = "more" THEN 1 ELSE 0
      /\ Credited' \in 0..MaxCredits
  BY <1>4, <1>5
<1> QED BY <1>2, <1>3, <1>6 DEF TimeInv

LEMMA TypeStart ==
    ASSUME TypeOK, TimeInv, onStartCommand
    PROVE  TypeOK' /\ TimeInv'
<1> DEFINE i == Head(intents)
<1>1. /\ i \in Intent /\ i.left <= Limit /\ intents' \in Seq(Intent)
      /\ i.left \in Time /\ i.server \in ServerOrNull /\ i.action \in {"free", "paid", "more"}
  BY StartFacts DEF Intent
<1>2. /\ orderly' \in BOOLEAN
      /\ UNCHANGED <<resetting, ui, pending, cancelled, screen, paid, vpn, connecting, drops, events, later,
                     taps, moves, credits>>
  BY DEF onStartCommand, uiVars, vpnVars, userVars, TypeOK
<1>3. /\ Limit <= Limit' /\ Limit' \in Nat /\ Limit \in Nat
      /\ i.action = "more" => Limit' = Limit + Credit
  BY StartFacts, LimitFacts, LimitGrows
<1>4. /\ server' \in ServerOrNull /\ countDownTimer' \in BOOLEAN /\ timeLeft' \in Time
      /\ stored' \in Time \cup {Absent} /\ callbacks' \in [Kind -> Nat]
      /\ stored' <= Limit' /\ timeLeft' <= Limit'
  <2>1. /\ stored <= Limit /\ timeLeft <= Limit /\ 0 \in Time /\ stored \in Int /\ timeLeft \in Int
    BY TimeFacts DEF TimeInv
  <2>2. CASE i.action = "free"
    <3>1. timeVPNConnection(i)
      BY <2>2 DEF onStartCommand
    <3>2. CASE i.server = None
      BY <1>3, <2>1, <3>1, <3>2 DEF timeVPNConnection, managerVars, TypeOK
    <3>3. CASE i.server # None
      <4>1. runCountDownTimer(i.server, i.left) /\ (i.left > 0 => UNCHANGED stored)
        BY <3>1, <3>3 DEF timeVPNConnection
      <4>2. i.left \in Nat
        BY <1>1, ManagerAssumption DEF Time
      <4>3. /\ server' \in ServerOrNull /\ countDownTimer' \in BOOLEAN
            /\ timeLeft' = i.left /\ timeLeft' \in Time /\ callbacks' \in [Kind -> Nat]
        BY <1>1, <4>1, TypeRun
      <4>4. timeLeft' <= Limit'
        BY <1>1, <1>3, <4>2, <4>3
      <4>5. stored' \in Time \cup {Absent} /\ stored' <= Limit'
        <5>1. CASE i.left = 0
          <6>1. stored' = 0
            BY <1>1, <4>1, <5>1, TypeRun
          <6> QED BY <1>3, <2>1, <6>1
        <5>2. CASE i.left # 0
          <6>1. stored' = stored /\ stored \in Time \cup {Absent}
            BY <4>1, <4>2, <5>2 DEF TypeOK
          <6> QED BY <1>3, <2>1, <6>1
        <5> QED BY <5>1, <5>2
      <4> QED BY <4>3, <4>4, <4>5
    <3> QED BY <3>2, <3>3
  <2>3. CASE i.action = "paid"
    BY <1>1, <1>3, <2>1, <2>3 DEF onStartCommand, runUnlimitedVPNConnection, TypeOK
  <2>4. CASE i.action = "more"
    <3>1. stored' = getTimeLeft + Credit /\ runCountDownTimer(server, stored')
      BY <2>4 DEF onStartCommand, increaseTimeLeft
    <3>2. Limit + Credit <= DefaultTime + MaxCredits * Credit
      <4>1. Credited < MaxCredits
        BY <2>4, StartFacts, LimitFacts, ManagerAssumption
      <4> QED BY <4>1, LimitFacts
    <3>3. MaxCredits * Credit \in Nat /\ Credit \in Nat /\ DefaultTime \in Nat
      BY ManagerAssumption, Product
    <3>4. getTimeLeft \in Time /\ getTimeLeft <= Limit
      BY LimitFacts
    <3>5. stored' \in Time /\ stored' <= Limit'
      BY <1>3, <2>4, <3>1, <3>2, <3>3, <3>4 DEF Time
    <3>6. server \in ServerOrNull
      BY DEF TypeOK
    <3>7. timeLeft' = stored' /\ server' \in ServerOrNull /\ countDownTimer' \in BOOLEAN /\ callbacks' \in [Kind -> Nat]
      BY <3>1, <3>5, <3>6, TypeRun
    <3> QED BY <3>5, <3>7
  <2> QED BY <1>1, <2>2, <2>3, <2>4
<1>5. TypeOK'
  BY <1>1, <1>2, <1>4 DEF TypeOK
<1>6. \A k \in DOMAIN intents' : intents'[k].left <= Limit'
  <2> SUFFICES ASSUME NEW k \in DOMAIN intents' PROVE intents'[k].left <= Limit'
    OBVIOUS
  <2>1. PICK m \in DOMAIN intents : intents'[k] = intents[m]
    BY StartFacts
  <2>2. intents[m].left <= Limit
    BY DEF TimeInv
  <2>3. intents[m].left \in Int
    <3>1. intents[m] \in Intent
      BY DEF TypeOK
    <3> QED BY <3>1, ManagerAssumption DEF Intent, Time
  <2> QED BY <1>3, <2>1, <2>2, <2>3
<1>7. ui'.left <= Limit'
  <2>1. ui.left \in Int /\ ui.left <= Limit
    BY ManagerAssumption DEF TypeOK, Time, TimeInv
  <2> QED BY <1>2, <1>3, <2>1
<1> QED BY <1>4, <1>5, <1>6, <1>7, StartFacts DEF TimeInv

LEMMA SameLimit ==
    ASSUME UNCHANGED <<credits, intents>>
    PROVE  Limit' = Limit /\ Credited' = Credited
  BY DEF Limit, Credited, Mores

(* Steps without a new credit or intent.                                   *)
LEMMA TypeTick ==
    ASSUME TypeOK, TimeInv, NEW hit \in BOOLEAN, Tick(hit)
    PROVE  TypeOK' /\ TimeInv'
<1>1. UNCHANGED <<resetting, ui, pending, cancelled, screen, paid, vpn, connecting, drops, events, intents,
                  later, taps, moves, credits, orderly>>
  BY DEF Tick, uiVars, vpnVars, userVars
<1>2. /\ Limit \in Nat /\ 0 \in Time /\ server \in ServerOrNull /\ MaxCredits * Credit \in Nat
      /\ timeLeft \in Time /\ timeLeft \in Nat /\ timeLeft <= Limit
      /\ stored \in Time \cup {Absent} /\ stored <= Limit
  BY LimitFacts, TimeFacts DEF TypeOK, TimeInv
<1>3. CASE timeLeft > 1
  <2>1. /\ timeLeft' = timeLeft - 1 /\ stored' \in {stored, timeLeft'}
        /\ UNCHANGED <<server, countDownTimer, callbacks>>
    BY <1>3 DEF Tick
  <2>2. timeLeft' \in Time /\ timeLeft' <= Limit
    BY <1>2, <1>3, <2>1, ManagerAssumption DEF Time
  <2> QED BY <1>1, <1>2, <2>1, <2>2, SameLimit DEF TypeOK, TimeInv
<1>4. CASE ~(timeLeft > 1)
  <2>1. onFinish(server)
    BY <1>4 DEF Tick
  <2>2. callbacks' \in [Kind -> Nat] /\ server' \in ServerOrNull
    BY <1>2, <2>1, TypeDisconnect DEF onFinish, ServerOrNull
  <2>3. countDownTimer' = FALSE /\ timeLeft' = 0 /\ stored' = 0
    BY <2>1 DEF onFinish
  <2>4. TypeOK'
    BY <1>1, <1>2, <2>2, <2>3 DEF TypeOK
  <2> QED BY <1>1, <1>2, <2>3, <2>4, SameLimit DEF TimeInv
<1> QED BY <1>3, <1>4

LEMMA EventsAppend ==
    ASSUME TypeOK, NEW e \in Event
    PROVE  Append(events, e) \in Seq(Event)
<1>1. events \in Seq(Event)
  BY DEF TypeOK
<1> QED BY <1>1, AppendFacts

LEMMA TypeService ==
    ASSUME TypeOK, TimeInv, NEW k \in Kind, onServiceConnected(k)
    PROVE  TypeOK' /\ TimeInv'
<1>1. UNCHANGED <<server, countDownTimer, timeLeft, stored, resetting, ui, pending, cancelled, screen, paid,
                  drops, intents, later, taps, moves, credits, orderly>>
  BY DEF onServiceConnected, managerVars, storedVars, uiVars, userVars
<1>2. /\ callbacks' \in [Kind -> Nat] /\ connecting' \subseteq Server /\ vpn' \in ServerOrNull
  BY DEF onServiceConnected, TypeOK, ServerOrNull
<1>3. events' \in Seq(Event)
  <2>1. [up |-> FALSE, kind |-> k] \in Event /\ events \in Seq(Event)
    BY DEF Event, TypeOK
  <2> QED BY <2>1, EventsAppend DEF onServiceConnected
<1> QED BY <1>1, <1>2, <1>3, SameLimit DEF TypeOK, TimeInv

LEMMA TypeRender ==
    ASSUME TypeOK, TimeInv, render
    PROVE  TypeOK' /\ TimeInv'
<1>1. /\ UNCHANGED <<timeLeft, stored, resetting, ui, cancelled, screen, paid, vpn, connecting, drops, events,
                  intents, later, taps, moves, credits, orderly>>
      /\ pending' = FALSE
  BY DEF render, storedVars, vpnVars, userVars
<1>2. server' \in ServerOrNull /\ countDownTimer' \in BOOLEAN /\ callbacks' \in [Kind -> Nat]
  <2>1. CASE stopCountDownTimerService
    <3>1. server \in ServerOrNull /\ disconnectCurrentVPN(server)
      BY <2>1 DEF stopCountDownTimerService, TypeOK
    <3> QED BY <2>1, <3>1, TypeDisconnect DEF stopCountDownTimerService, ServerOrNull
  <2>2. CASE UNCHANGED <<server, countDownTimer, callbacks>>
    BY <2>2 DEF TypeOK
  <2> QED BY <2>1, <2>2, Zenon DEF render
<1> QED BY <1>1, <1>2, SameLimit DEF TypeOK, TimeInv

LEMMA TypeConnect ==
    ASSUME TypeOK, NEW s \in Server, connectToServer(s)
    PROVE  /\ ui' \in [status : Status, current : ServerOrNull, left : Time] /\ ui'.left = ui.left
           /\ pending' \in BOOLEAN /\ cancelled' \in BOOLEAN /\ orderly' \in BOOLEAN
           /\ connecting' \subseteq Server
           /\ callbacks' \in [Kind -> Nat]
<1>1. ui' = [ui EXCEPT !.status = "CONNECTING", !.current = s] /\ pending' = TRUE
  BY DEF connectToServer
<1>2. orderly' \in BOOLEAN /\ cancelled' \in BOOLEAN
  BY DEF connectToServer, TypeOK
<1>3. KindOf[s] \in Kind /\ server \in ServerOrNull /\ connecting \subseteq Server
      /\ callbacks \in [Kind -> Nat]
  BY ManagerAssumption DEF TypeOK
<1>4. connecting' \in {connecting, connecting \cup {s}}
  BY DEF connectToServer, startOrStop
<1>5. \/ callbacks' = callbacks \/ disconnectCurrentVPN(server)
      \/ callbacks' = [callbacks EXCEPT ![KindOf[s]] = @ + 1]
  BY DEF connectToServer, startOrStop
<1>6. callbacks' \in [Kind -> Nat]
  BY <1>3, <1>5, TypeDisconnect
<1>7. ui' \in [status : Status, current : ServerOrNull, left : Time] /\ ui'.left = ui.left
  BY <1>1 DEF TypeOK, Status, ServerOrNull
<1> QED BY <1>1, <1>2, <1>3, <1>4, <1>6, <1>7

LEMMA TypeTaps ==
    ASSUME TypeOK, TimeInv,
           \/ \E s \in Server : TapConnect(s) \/ showDialogOrConnect(s)
           \/ TapDisconnect \/ Delayed
    PROVE  TypeOK' /\ TimeInv'
<1>0. /\ UNCHANGED <<server, countDownTimer, timeLeft, stored, resetting, screen, paid, vpn, drops,
                  events, intents, moves, credits>>
      /\ taps' \in 0..MaxTaps
  BY ManagerAssumption DEF TapConnect, showDialogOrConnect, TapDisconnect, Delayed,
     managerVars, storedVars, userVars, TypeOK
<1>1. CASE \E s \in Server : connectToServer(s) /\ later' \in ServerOrNull
  <2>1. PICK s \in Server : connectToServer(s) /\ later' \in ServerOrNull
    BY <1>1
  <2> QED BY <1>0, <2>1, TypeConnect, SameLimit DEF TypeOK, TimeInv
<1>2. CASE \E s \in Server : /\ disconnectCurrentVPN(server) /\ later' = s
                              /\ UNCHANGED <<uiVars, connecting, orderly>>
  <2>1. disconnectCurrentVPN(server) /\ later' \in ServerOrNull
        /\ UNCHANGED <<ui, pending, cancelled, connecting, orderly>>
    BY <1>2 DEF ServerOrNull, uiVars
  <2>2. callbacks' \in [Kind -> Nat]
    BY <2>1, TypeDisconnect DEF TypeOK
  <2> QED BY <1>0, <2>1, <2>2, SameLimit DEF TypeOK, TimeInv
<1>3. /\ later \in ServerOrNull /\ ui.current \in ServerOrNull /\ None \in ServerOrNull
      /\ \A s \in ServerOrNull : s # None => s \in Server
  BY DEF TypeOK, ServerOrNull
<1>4. ASSUME NEW s \in Server, TapConnect(s) \/ showDialogOrConnect(s)
      PROVE  TypeOK' /\ TimeInv'
  BY <1>1, <1>2, <1>3, <1>4 DEF TapConnect, showDialogOrConnect
<1>5. ASSUME TapDisconnect \/ Delayed
      PROVE  TypeOK' /\ TimeInv'
  BY <1>1, <1>3, <1>5 DEF TapDisconnect, Delayed
<1> QED BY <1>4, <1>5

LEMMA TypeScreen ==
    ASSUME TypeOK, TimeInv,
           \/ \E s \in {"ads", "hidden"} : Leave(s)
           \/ onResume \/ updateUserWithOrderData
    PROVE  TypeOK' /\ TimeInv'
<1>0. /\ UNCHANGED <<server, countDownTimer, timeLeft, stored, resetting, vpn, connecting, drops,
                  events, intents, callbacks, later, taps, credits, orderly>>
      /\ moves' \in 0..MaxMoves /\ screen' \in Screen /\ paid' \in BOOLEAN
  <2>1. moves \in 0..MaxMoves /\ MaxMoves \in Nat /\ screen \in Screen /\ paid \in BOOLEAN
    BY ManagerAssumption DEF TypeOK
  <2>2. moves' = moves \/ (moves' = moves + 1 /\ moves < MaxMoves)
    BY DEF Leave, onResume, updateUserWithOrderData, userVars
  <2>3. moves' \in 0..MaxMoves
    BY <2>1, <2>2
  <2> QED BY <2>1, <2>3 DEF Leave, onResume, updateUserWithOrderData,
          managerVars, storedVars, vpnVars, userVars, Screen
<1>1. /\ ui' \in [status : Status, current : ServerOrNull, left : Time] /\ ui'.left <= Limit
      /\ pending' \in BOOLEAN /\ cancelled' \in BOOLEAN
  <2>1. CASE onResume
    BY <2>1, LimitFacts DEF onResume, TypeOK
  <2>2. CASE ~onResume
    BY <2>2 DEF Leave, updateUserWithOrderData, uiVars, TypeOK, TimeInv
  <2> QED BY <2>1, <2>2
<1> QED BY <1>0, <1>1, SameLimit DEF TypeOK, TimeInv

LEMMA TypeNetwork ==
    ASSUME TypeOK, TimeInv,
           ServerDrops \/ Reconnects \/ \E s \in Server : ServerUp(s) \/ ServerFails(s)
    PROVE  TypeOK' /\ TimeInv'
<1>0. UNCHANGED <<server, countDownTimer, timeLeft, stored, resetting, ui, pending, cancelled, screen, paid,
                  intents, callbacks, later, taps, moves, credits, orderly>>
  BY DEF ServerDrops, Reconnects, ServerUp, ServerFails, managerVars, storedVars, uiVars, vpnVars,
     userVars
<1>1. vpn' \in ServerOrNull /\ connecting' \subseteq Server /\ drops' \in 0..MaxEvents
  <2>1. drops \in 0..MaxEvents /\ MaxEvents \in Nat
    BY ManagerAssumption DEF TypeOK
  <2>2. drops' = drops \/ (drops' = drops + 1 /\ drops < MaxEvents)
    BY DEF ServerDrops, Reconnects, ServerUp, ServerFails, vpnVars
  <2>3. drops' \in 0..MaxEvents
    BY <2>1, <2>2
  <2>4. vpn' \in Server \cup {vpn, None} /\ connecting' \subseteq connecting
    BY DEF ServerDrops, Reconnects, ServerUp, ServerFails, vpnVars
  <2> QED BY <2>3, <2>4 DEF TypeOK, ServerOrNull
<1>2. /\ \A s \in Server, b \in BOOLEAN : [up |-> b, kind |-> KindOf[s]] \in Event
      /\ vpn # None => vpn \in Server
      /\ events \in Seq(Event)
  BY ManagerAssumption DEF Event, TypeOK, ServerOrNull
<1>3. events' \in Seq(Event)
  <2>1. CASE ServerDrops
    BY <1>2, <2>1, EventsAppend DEF ServerDrops
  <2>4. CASE Reconnects
    <3>1. [up |-> TRUE, kind |-> "openvpn"] \in Event
      BY DEF Event, Kind
    <3> QED BY <2>4, <3>1, EventsAppend DEF Reconnects
  <2>2. ASSUME NEW s \in Server, ServerFails(s) PROVE events' \in Seq(Event)
    BY <1>2, <2>2, EventsAppend DEF ServerFails
  <2>3. ASSUME NEW s \in Server, ServerUp(s) PROVE events' \in Seq(Event)
    <3> DEFINE up == [up |-> TRUE, kind |-> KindOf[s]]
               down == [up |-> FALSE, kind |-> KindOf[vpn]]
    <3>1. up \in Event
      BY <1>2
    <3>2. CASE vpn \in {None, s}
      BY <1>2, <2>3, <3>1, <3>2, EventsAppend DEF ServerUp
    <3>3. CASE vpn \notin {None, s}
      <4>1. down \in Event
        BY <1>2, <3>3
      <4>2. <<up, down>> \in Seq(Event) /\ <<down, up>> \in Seq(Event)
        BY <3>1, <4>1
      <4>3. events' \in {events \o <<up, down>>, events \o <<down, up>>}
        BY <2>3, <3>3 DEF ServerUp
      <4> QED BY <1>2, <4>2, <4>3, ConcatProperties
    <3> QED BY <3>2, <3>3
  <2> QED BY <2>1, <2>2, <2>3, <2>4
<1> QED BY <1>0, <1>1, <1>3, SameLimit DEF TypeOK, TimeInv

(* Steps with a new intent or a new credit.                                *)
LEMMA TypeGrows ==
    ASSUME TypeOK, TimeInv, credits' \in 0..MaxCredits, ui' \in [status : Status, current : ServerOrNull, left : Time],
           ui'.left <= Limit, pending' \in BOOLEAN, cancelled' \in BOOLEAN, orderly' \in BOOLEAN, resetting' \in BOOLEAN,
           events' \in Seq(Event),
           UNCHANGED <<server, countDownTimer, timeLeft, screen, paid, vpn, connecting, drops,
                       callbacks, later, taps, moves>>,
           \/ /\ UNCHANGED intents /\ Credited' >= Credited
              /\ stored' \in Time \cup {Absent} /\ stored' <= Limit'
           \/ /\ UNCHANGED stored
              /\ \E i \in Intent : /\ intents' = Append(intents, i) /\ i.left <= Limit
                                   /\ credits' = credits + IF i.action = "more" THEN 1 ELSE 0
    PROVE  TypeOK' /\ TimeInv'
<1>1. intents \in Seq(Intent) /\ credits \in 0..MaxCredits /\ MaxCredits \in Nat
      /\ Cardinality(Mores) \in Nat /\ Credited \in Nat
  <2>1. Credited \in 0..MaxCredits /\ MaxCredits \in Nat
    BY LimitFacts, TimeFacts
  <2> QED BY <2>1, MoresFinite DEF TypeOK
<1>2. CASE /\ UNCHANGED intents /\ Credited' >= Credited
           /\ stored' \in Time \cup {Absent} /\ stored' <= Limit'
  <2>1. Credited' \in Nat
    BY <1>1, <1>2 DEF Credited, Mores
  <2>2. Limit <= Limit' /\ Limit \in Nat /\ Limit' \in Nat
    BY <1>2, <2>1, LimitGrows
  <2>3. timeLeft \in Nat /\ ui'.left \in Nat /\ \A k \in DOMAIN intents : intents[k].left \in Nat
    BY TimeFacts
  <2>4. TypeOK'
    BY <1>2 DEF TypeOK
  <2> QED BY <1>2, <2>1, <2>2, <2>3, <2>4 DEF TimeInv
<1>3. ASSUME NEW i \in Intent, intents' = Append(intents, i), i.left <= Limit,
             credits' = credits + IF i.action = "more" THEN 1 ELSE 0, UNCHANGED stored
      PROVE  TypeOK' /\ TimeInv'
  <2>1. /\ intents' \in Seq(Intent) /\ DOMAIN intents' = 1..(Len(intents) + 1) /\ Len(intents) \in Nat
        /\ DOMAIN intents = 1..Len(intents)
        /\ \A k \in 1..Len(intents) : intents'[k] = intents[k]
        /\ intents'[Len(intents) + 1] = i
    BY <1>1, <1>3, AppendFacts
  <2>2. Credited' = Credited /\ Limit' = Limit
    <3>1. Cardinality(Mores') = Cardinality(Mores) + IF i.action = "more" THEN 1 ELSE 0
      BY <1>3, MoresAppend
    <3>2. credits' - Cardinality(Mores') = credits - Cardinality(Mores)
      BY <1>1, <1>3, <3>1
    <3> QED BY <3>2 DEF Credited, Limit
  <2>3. ASSUME NEW k \in DOMAIN intents' PROVE intents'[k].left <= Limit'
    <3>1. k \in DOMAIN intents \/ k = Len(intents) + 1
      BY <2>1, <2>3
    <3> QED BY <1>3, <2>1, <2>2, <3>1 DEF TimeInv
  <2>4. TypeOK'
    BY <1>3, <2>1 DEF TypeOK
  <2> QED BY <1>3, <2>2, <2>3, <2>4 DEF TimeInv
<1> QED BY <1>2, <1>3

LEMMA TypeHear ==
    ASSUME TypeOK, TimeInv, Hear
    PROVE  TypeOK' /\ TimeInv'
<1> DEFINE e == Head(events)
<1>1. events' \in Seq(Event) /\ e \in Event
  BY TailFacts DEF Hear, TypeOK
<1>2. /\ UNCHANGED <<server, countDownTimer, timeLeft, stored, resetting, screen, paid, vpn, connecting,
                     drops, callbacks, later, taps, moves, credits>>
      /\ pending' \in BOOLEAN /\ cancelled' \in BOOLEAN /\ orderly' \in BOOLEAN
  BY DEF Hear, managerVars, storedVars, uiVars, vpnVars, userVars, TypeOK
<1>3. /\ ui' \in [status : Status, current : ServerOrNull, left : Time] /\ ui'.left <= Limit
      /\ \/ UNCHANGED intents
         \/ \E i \in Intent : /\ intents' = Append(intents, i) /\ i.left <= Limit
                              /\ i.action # "more"
  <2>1. CASE ~Listening(e.kind)
    BY <2>1 DEF Hear, uiVars, TypeOK, TimeInv
  <2>2. CASE Listening(e.kind)
    <3>1. onStateChange(e)
      BY <2>2 DEF Hear
    <3>2. CASE e.up
      <4> DEFINE i == [action |-> IF shouldShowAds THEN "free" ELSE "paid",
                       server |-> ui.current, left |-> ui.left]
      <4>1. intents' = Append(intents, i) /\ ui' = [ui EXCEPT !.status = "CONNECTED"]
        BY <3>1, <3>2 DEF onStateChange
      <4>2. i \in Intent /\ i.left <= Limit /\ i.action # "more"
        BY DEF Intent, TypeOK, TimeInv
      <4>3. ui' \in [status : Status, current : ServerOrNull, left : Time] /\ ui'.left <= Limit
        BY <4>1 DEF TypeOK, TimeInv, Status
      <4> HIDE DEF i
      <4> QED BY <4>1, <4>2, <4>3
    <3>3. CASE ~e.up
      BY <3>1, <3>3, LimitFacts DEF onStateChange, Status, ServerOrNull
    <3> QED BY <3>2, <3>3
  <2> QED BY <2>1, <2>2
<1>4. stored \in Time \cup {Absent} /\ stored <= Limit /\ credits \in 0..MaxCredits /\ resetting \in BOOLEAN
      /\ MaxCredits \in Nat /\ Credited \in Nat
  BY LimitFacts, ManagerAssumption DEF TypeOK, TimeInv
<1>5. CASE UNCHANGED intents
  BY <1>1, <1>2, <1>3, <1>4, <1>5, TypeGrows, SameLimit
<1>6. ASSUME NEW i \in Intent, intents' = Append(intents, i), i.left <= Limit, i.action # "more"
      PROVE  TypeOK' /\ TimeInv'
  <2>1. credits' = credits + IF i.action = "more" THEN 1 ELSE 0
    BY <1>2, <1>4, <1>6
  <2> QED BY <1>1, <1>2, <1>3, <1>4, <1>6, <2>1, TypeGrows
<1> QED BY <1>3, <1>5, <1>6

LEMMA TypeCredits ==
    ASSUME TypeOK, TimeInv, addMoreTime \/ addToTimeLeft \/ doWork
    PROVE  TypeOK' /\ TimeInv'
<1>1. /\ UNCHANGED <<server, countDownTimer, timeLeft, ui, pending, cancelled, screen, paid, vpn, connecting,
                     drops, events, callbacks, later, taps, moves, orderly>>
      /\ credits' \in {credits, credits + 1} /\ (credits' = credits + 1 => credits < MaxCredits)
      /\ resetting' \in BOOLEAN
  <2>1. CASE addMoreTime
    BY <2>1 DEF addMoreTime, managerVars, uiVars, vpnVars, TypeOK
  <2>2. CASE addToTimeLeft
    BY <2>2 DEF addToTimeLeft, managerVars, storedVars, uiVars, vpnVars, TypeOK
  <2>3. CASE doWork
    BY <2>3 DEF doWork, managerVars, uiVars, vpnVars, TypeOK
  <2> QED BY <2>1, <2>2, <2>3
<1>2. /\ ui \in [status : Status, current : ServerOrNull, left : Time] /\ ui.left <= Limit
      /\ pending \in BOOLEAN /\ cancelled \in BOOLEAN /\ orderly \in BOOLEAN /\ resetting \in BOOLEAN
      /\ events \in Seq(Event)
      /\ credits \in 0..MaxCredits /\ MaxCredits \in Nat /\ Cardinality(Mores) \in Nat
      /\ Credited \in Nat /\ Limit \in Nat /\ 0 \in Time
      /\ Credit \in Nat /\ MaxCredits * Credit \in Nat /\ DefaultTime \in Nat
      /\ getTimeLeft \in Time /\ getTimeLeft <= Limit
  <2>1. /\ ui \in [status : Status, current : ServerOrNull, left : Time] /\ ui.left <= Limit
        /\ pending \in BOOLEAN /\ cancelled \in BOOLEAN /\ orderly \in BOOLEAN /\ resetting \in BOOLEAN
        /\ events \in Seq(Event) /\ credits \in 0..MaxCredits
    BY DEF TypeOK, TimeInv
  <2>2. Credited \in 0..MaxCredits
    BY LimitFacts
  <2>3. Credited \in Nat
    BY <2>2, TimeFacts
  <2> QED BY <2>1, <2>3, LimitFacts, TimeFacts, MoresFinite
<1>3. credits' \in 0..MaxCredits
  BY <1>1, <1>2
<1>4. CASE /\ intents' = Append(intents, [action |-> "more", server |-> None, left |-> 0])
           /\ credits' = credits + 1 /\ UNCHANGED <<stored, resetting>>
  <2> DEFINE i == [action |-> "more", server |-> None, left |-> 0]
  <2>1. i \in Intent /\ i.left <= Limit /\ i.action = "more"
    BY <1>2 DEF Intent, ServerOrNull
  <2>2. intents' = Append(intents, i) /\ credits' = credits + IF i.action = "more" THEN 1 ELSE 0
    BY <1>4
  <2> HIDE DEF i
  <2> QED BY <1>1, <1>2, <1>3, <1>4, <2>1, <2>2, TypeGrows
<1>5. CASE UNCHANGED intents
  <2>1. Credited' = Credited + (credits' - credits)
    BY <1>1, <1>2, <1>5 DEF Credited, Mores
  <2>2. /\ Credited' \in Nat /\ Credited' >= Credited
        /\ Limit' \in Nat /\ Limit <= Limit'
        /\ credits' = credits + 1 => Limit' = Limit + Credit
    <3>0. Credited \in Nat /\ credits \in Int
      BY <1>2
    <3>1. credits' = credits => Credited' = Credited
      BY <3>0, <2>1
    <3>2. credits' = credits + 1 => Credited' = Credited + 1
      BY <3>0, <2>1
    <3>3. Credited' \in Nat /\ Credited' >= Credited
      BY <1>1, <3>0, <3>1, <3>2
    <3> QED BY <3>2, <3>3, LimitGrows
  <2>3. CASE stored' = getTimeLeft + Credit /\ credits' = credits + 1
    <3>1. Credited < MaxCredits
      BY <1>1, <1>2, <2>3 DEF Credited
    <3>2. stored' \in Time /\ stored' <= Limit'
      BY <1>2, <2>2, <2>3, <3>1, LimitFacts DEF Time
    <3> QED BY <1>1, <1>2, <1>3, <1>5, <2>2, <3>2, TypeGrows
  <2>4. CASE stored' \in {0, Absent}
    <3>1. stored' <= Limit'
      BY <2>2, <2>4 DEF Absent
    <3> QED BY <1>1, <1>2, <1>3, <1>5, <2>2, <2>4, <3>1, TypeGrows
  <2> QED BY <1>5, <2>3, <2>4, AppendFacts DEF addMoreTime, addToTimeLeft, doWork, TypeOK
<1> QED BY <1>4, <1>5 DEF addMoreTime, addToTimeLeft, doWork, storedVars

LEMMA TypeStep == TypeOK /\ TimeInv /\ [Next]_vars => TypeOK' /\ TimeInv'
<1> SUFFICES ASSUME TypeOK, TimeInv, [Next]_vars PROVE TypeOK' /\ TimeInv'
  OBVIOUS
<1>1. CASE UNCHANGED vars
  <2>1. TypeOK'
    BY <1>1 DEF vars, managerVars, storedVars, uiVars, vpnVars, userVars, TypeOK
  <2> QED BY <1>1, <2>1, SameLimit DEF vars, managerVars, storedVars, uiVars, userVars, TimeInv
<1>2. CASE System
  <2>1. TRUE \in BOOLEAN
    OBVIOUS
  <2> QED BY <1>2, <2>1, TypeStart, TypeHear, TypeRender, TypeTaps, TypeTick, TypeService DEF System
<1>3. CASE User
  BY <1>3, TypeTaps, TypeScreen, TypeCredits DEF User
<1>4. CASE Environment
  BY <1>4, TypeTick, TypeCredits, TypeNetwork DEF Environment
<1> QED BY <1>1, <1>2, <1>3, <1>4 DEF Next

LEMMA TypeInit == Init => TypeOK /\ TimeInv
<1> SUFFICES ASSUME Init PROVE TypeOK /\ TimeInv
  OBVIOUS
<1>1. /\ DefaultTime \in Nat /\ Credit \in Nat /\ MaxCredits \in Nat /\ MaxCredits * Credit \in Nat
      /\ MaxTaps \in Nat /\ MaxMoves \in Nat /\ MaxEvents \in Nat
  BY ManagerAssumption, Product
<1>2. 0 \in Time /\ DefaultTime \in Time
  BY <1>1 DEF Time
<1>3. events \in Seq(Event) /\ intents \in Seq(Intent) /\ DOMAIN intents = {}
  BY DEF Init
<1>4. TypeOK
  <2>1. ui \in [status : Status, current : ServerOrNull, left : Time] /\ callbacks \in [Kind -> Nat]
    BY <1>2 DEF Init, ServerOrNull, Status
  <2>2. /\ taps \in 0..MaxTaps /\ moves \in 0..MaxMoves /\ credits \in 0..MaxCredits
        /\ drops \in 0..MaxEvents /\ timeLeft \in Time
    BY <1>1, <1>2 DEF Init
  <2>3. /\ events \in Seq(Event) /\ intents \in Seq(Intent)
        /\ server \in ServerOrNull /\ vpn \in ServerOrNull /\ later \in ServerOrNull
        /\ connecting \subseteq Server /\ screen \in Screen
    BY <1>3 DEF Init, ServerOrNull, Screen
  <2> QED BY <2>1, <2>2, <2>3 DEF Init, TypeOK
<1>5. Mores = {}
  BY <1>3 DEF Mores
<1>6. Credited = 0 /\ Limit = DefaultTime
  BY <1>1, <1>5, FS_EmptySet DEF Credited, Limit, Init
<1> QED BY <1>1, <1>3, <1>4, <1>6 DEF Init, TimeInv, Absent

-----------------------------------------------------------------------------
(* An orderly history.                                                     *)
Sound == OneInv /\ ManagerInv /\ UpInv

LEMMA DisconnectFacts ==
    ASSUME TypeOK, NEW s \in ServerOrNull, disconnectCurrentVPN(s)
    PROVE  /\ \A k \in Kind : callbacks[k] > 0 => callbacks'[k] > 0
           /\ s = vpn /\ vpn # None => callbacks'[KindOf[vpn]] > 0
           /\ callbacks' # callbacks => s # None
<1>1. callbacks \in [Kind -> Nat] /\ (s # None => KindOf[s] \in Kind)
  BY ManagerAssumption DEF TypeOK, ServerOrNull
<1>2. s = vpn /\ vpn # None => Active(KindOf[s])
  BY DEF Active, Up
<1>3. CASE s = None \/ (KindOf[s] = "openvpn" /\ ~Active("openvpn"))
  BY <1>2, <1>3 DEF disconnectCurrentVPN
<1>4. CASE ~(s = None \/ (KindOf[s] = "openvpn" /\ ~Active("openvpn")))
  <2>1. callbacks' = [callbacks EXCEPT ![KindOf[s]] = @ + 1] /\ s # None
    BY <1>4 DEF disconnectCurrentVPN
  <2>2. \A k \in Kind : callbacks'[k] = IF k = KindOf[s] THEN callbacks[k] + 1 ELSE callbacks[k]
    BY <1>1, <2>1
  <2>3. \A k \in Kind : callbacks[k] \in Nat
    BY <1>1
  <2>4. callbacks'[KindOf[s]] > 0
    BY <1>1, <2>1, <2>2, <2>3
  <2> QED BY <2>1, <2>2, <2>3, <2>4
<1> QED BY <1>3, <1>4

LEMMA VpnKind ==
    ASSUME TypeOK, vpn # None
    PROVE  vpn \in Server /\ KindOf[vpn] \in Kind
  BY ManagerAssumption DEF TypeOK, ServerOrNull

LEMMA SoundSame ==
    ASSUME Sound, UNCHANGED <<server, countDownTimer, ui, pending, cancelled, paid, vpn, connecting, events,
                              intents, callbacks>>
    PROVE  Sound'
  BY DEF Sound, OneInv, ManagerInv, UpInv, Ended

(* The manager forgets its server, and disconnects it.                     *)
LEMMA SoundForgets ==
    ASSUME TypeOK, Sound, disconnectCurrentVPN(server), server' = None, countDownTimer' = FALSE,
           UNCHANGED <<ui, cancelled, paid, vpn, connecting, events, intents>>
    PROVE  Sound'
<1>1. server \in ServerOrNull
  BY DEF TypeOK
<1>2. /\ \A k \in Kind : callbacks[k] > 0 => callbacks'[k] > 0
      /\ server = vpn /\ vpn # None => callbacks'[KindOf[vpn]] > 0
  BY <1>1, DisconnectFacts
<1>3. OneInv'
  BY DEF Sound, OneInv
<1>4. ManagerInv'
  BY DEF Sound, ManagerInv, Ended
<1>5. UpInv'
  BY <1>2, VpnKind DEF Sound, UpInv, Ended
<1> QED BY <1>3, <1>4, <1>5 DEF Sound

LEMMA SoundTick ==
    ASSUME TypeOK, Sound, NEW hit, Tick(hit)
    PROVE  Sound'
<1>1. UNCHANGED <<ui, pending, cancelled, paid, vpn, connecting, events, intents>>
  BY DEF Tick, uiVars, vpnVars
<1>2. CASE onFinish(server)
  BY <1>1, <1>2, SoundForgets DEF onFinish
<1>3. CASE UNCHANGED <<server, countDownTimer, callbacks>>
  BY <1>1, <1>3, SoundSame
<1> QED BY <1>2, <1>3, Zenon DEF Tick

LEMMA SoundRender ==
    ASSUME TypeOK, Sound, render
    PROVE  Sound'
<1>1. UNCHANGED <<ui, cancelled, paid, vpn, connecting, events, intents>> /\ pending' = FALSE
  BY DEF render, vpnVars
<1>2. CASE stopCountDownTimerService
  BY <1>1, <1>2, SoundForgets DEF stopCountDownTimerService
<1>3. CASE ui.status # "DISCONNECTED" /\ UNCHANGED <<server, countDownTimer, callbacks>>
  BY <1>1, <1>3 DEF Sound, OneInv, ManagerInv, UpInv, Ended
<1> QED BY <1>2, <1>3, Zenon DEF render

LEMMA SoundStart ==
    ASSUME TypeOK, TimeInv, Sound, onStartCommand, Head(intents).action = "more" => server # None
    PROVE  Sound'
<1> DEFINE i == Head(intents)
<1>1. /\ UNCHANGED <<ui, pending, cancelled, paid, vpn, connecting, events>>
      /\ intents # <<>> /\ intents' = Tail(intents) /\ intents \in Seq(Intent)
  BY DEF onStartCommand, uiVars, vpnVars, TypeOK
<1>2. /\ i = intents[1] /\ 1 \in DOMAIN intents /\ i.server \in ServerOrNull
      /\ i.action \in {"free", "paid", "more"}
      /\ Len(intents) \in Nat /\ DOMAIN intents = 1..Len(intents)
      /\ DOMAIN intents' = 1..(Len(intents) - 1)
      /\ \A k \in 1..(Len(intents) - 1) : intents'[k] = intents[k + 1]
  <2>1. /\ i = intents[1] /\ i \in Intent /\ Len(intents) \in Nat /\ Len(intents) > 0
        /\ DOMAIN intents = 1..Len(intents)
        /\ DOMAIN intents' = 1..(Len(intents) - 1)
        /\ \A k \in 1..(Len(intents) - 1) : intents'[k] = intents[k + 1]
    BY <1>1, TailFacts
  <2>2. i.server \in ServerOrNull /\ i.action \in {"free", "paid", "more"}
    BY <2>1 DEF Intent
  <2> QED BY <2>1, <2>2
<1>3. connecting = {} /\ (i.action # "more" => i.server = vpn \/ Ended)
      /\ (i.action = "paid" => paid)
  BY <1>1, <1>2 DEF Sound, OneInv, ManagerInv
<1>4. \A k \in DOMAIN intents' : \E m \in DOMAIN intents : intents'[k] = intents[m]
  BY <1>2
<1>5. ASSUME NEW m \in DOMAIN intents, intents[m].action # "more", i.action = "more"
      PROVE  \E k \in DOMAIN intents' : intents'[k].action # "more"
  <2>1. m - 1 \in DOMAIN intents' /\ (m - 1) + 1 = m
    BY <1>2, <1>5
  <2> QED BY <1>2, <1>5, <2>1
<1>6. OneInv'
  BY <1>1, <1>3 DEF Sound, OneInv
<1>7. \A k \in DOMAIN intents' :
          /\ intents'[k].action # "more" => intents'[k].server = vpn' \/ Ended'
          /\ intents'[k].action = "paid" => paid'
  BY <1>1, <1>4 DEF Sound, ManagerInv, Ended
<1> DEFINE s == IF i.action = "more" THEN server ELSE i.server
<1>8. /\ \/ s # None /\ server' = s /\ (countDownTimer' \/ paid) /\ UNCHANGED callbacks
         \/ s # None /\ server' = None /\ ~countDownTimer' /\ disconnectCurrentVPN(s)
         \/ s = None /\ UNCHANGED <<server, countDownTimer, callbacks>>
  <2>1. ASSUME NEW t, NEW left, runCountDownTimer(t, left)
        PROVE  \/ server' = t /\ countDownTimer' /\ UNCHANGED callbacks
               \/ server' = None /\ ~countDownTimer' /\ disconnectCurrentVPN(t)
    BY <2>1 DEF runCountDownTimer, onFinish
  <2>2. CASE i.action = "free"
    BY <2>1, <2>2 DEF onStartCommand, timeVPNConnection, managerVars
  <2>3. CASE i.action = "paid"
    BY <1>3, <2>3 DEF onStartCommand, runUnlimitedVPNConnection, TypeOK
  <2>4. CASE i.action = "more"
    BY <2>1, <2>4 DEF onStartCommand, increaseTimeLeft
  <2> QED BY <1>2, <2>2, <2>3, <2>4
<1>9. s \in ServerOrNull /\ (i.action # "more" => s = i.server) /\ (i.action = "more" => s = server /\ s # None)
  BY <1>2 DEF TypeOK
<1>10. /\ s # None => s = vpn \/ Ended \/ s = server
       /\ vpn # None => ~Ended
  BY <1>3, <1>9 DEF Ended
<1> HIDE DEF s, i
<1>11. ManagerInv'
  BY <1>1, <1>7, <1>8, <1>10 DEF Sound, ManagerInv, Ended
<1>12. /\ \A k \in Kind : callbacks[k] > 0 => callbacks'[k] > 0
       /\ s = vpn /\ vpn # None => server' = vpn \/ callbacks'[KindOf[vpn]] > 0
  BY <1>8, <1>9, DisconnectFacts
<1>13. UpInv'
  <2>1. ui'.status = "CONNECTED" => (vpn' # None /\ ~cancelled') \/ Ended'
    BY <1>1 DEF Sound, UpInv, Ended
  <2>2. ASSUME vpn # None
        PROVE  /\ \/ server' = vpn \/ events # <<>> \/ callbacks'[KindOf[vpn]] > 0
                  \/ \E k \in DOMAIN intents' : intents'[k].action # "more"
               /\ ui.status = "CONNECTED" \/ cancelled \/ events # <<>> \/ callbacks'[KindOf[vpn]] > 0
    <3>1. KindOf[vpn] \in Kind
      BY <2>2, VpnKind
    <3>2. CASE server = vpn
      BY <1>8, <1>10, <1>12, <2>2, <3>1, <3>2 DEF Sound, UpInv
    <3>3. CASE \E m \in DOMAIN intents : intents[m].action # "more"
      BY <1>3, <1>5, <1>9, <1>10, <1>12, <2>2, <3>1, <3>3 DEF Sound, UpInv
    <3> QED BY <1>12, <2>2, <3>1, <3>2, <3>3 DEF Sound, UpInv
  <2> QED BY <1>1, <2>1, <2>2 DEF UpInv
<1> QED BY <1>6, <1>11, <1>13 DEF Sound

LEMMA EventFacts ==
    ASSUME TypeOK, NEW e \in Event, events' = Append(events, e)
    PROVE  /\ Len(events) \in Nat /\ Len(events') = Len(events) + 1 /\ events' # <<>>
           /\ DOMAIN events = 1..Len(events) /\ DOMAIN events' = 1..(Len(events) + 1)
           /\ \A i \in DOMAIN events : events'[i] = events[i]
           /\ events'[Len(events')] = e
<1>1. events \in Seq(Event)
  BY DEF TypeOK
<1> QED BY <1>1, AppendFacts

(* A server that was up, or was being connected, reports its end.          *)
LEMMA SoundDown ==
    ASSUME TypeOK, Sound, NEW e \in Event, ~e.up, events' = Append(events, e), vpn' = None,
           vpn # None \/ connecting # {}, connecting' = {},
           UNCHANGED <<server, countDownTimer, ui, pending, cancelled, paid, intents>>
    PROVE  Sound'
<1>1. events' # <<>> /\ Ended'
  BY EventFacts DEF Ended
<1>2. \A i \in DOMAIN events' : events'[i].up <=> i < Len(events')
  <2> SUFFICES ASSUME NEW i \in DOMAIN events' PROVE events'[i].up <=> i < Len(events')
    OBVIOUS
  <2>1. CASE i = Len(events')
    BY <2>1, EventFacts
  <2>2. CASE i # Len(events')
    <3>1. i \in DOMAIN events /\ i < Len(events') /\ events'[i] = events[i]
      BY <2>2, EventFacts
    <3>2. vpn # None
      BY <3>1 DEF Sound, OneInv
    <3> QED BY <3>1, <3>2 DEF Sound, OneInv
  <2> QED BY <2>1, <2>2
<1>3. OneInv'
  BY <1>2 DEF OneInv
<1>4. ManagerInv'
  BY <1>1 DEF Sound, ManagerInv
<1>5. UpInv'
  BY <1>1 DEF UpInv
<1> QED BY <1>3, <1>4, <1>5 DEF Sound

LEMMA SoundService ==
    ASSUME TypeOK, Sound, NEW k \in Kind, onServiceConnected(k)
    PROVE  Sound'
<1> DEFINE e == [up |-> FALSE, kind |-> k]
<1>1. /\ UNCHANGED <<server, countDownTimer, ui, pending, cancelled, paid, intents>>
      /\ connecting' = {s \in connecting : KindOf[s] # k}
      /\ vpn' = IF Up(k) THEN None ELSE vpn
      /\ events' = IF Active(k) THEN Append(events, e) ELSE events
      /\ \A l \in Kind : l # k => callbacks'[l] = callbacks[l]
  BY DEF onServiceConnected, managerVars, uiVars, TypeOK
<1>2. e \in Event /\ ~e.up
  BY DEF Event
<1> HIDE DEF e
<1>3. CASE Active(k)
  <2>1. vpn' = None /\ connecting' = {} /\ (vpn # None \/ connecting # {})
    BY <1>1, <1>3 DEF Active, Up, Sound, OneInv
  <2> QED BY <1>1, <1>2, <1>3, <2>1, SoundDown
<1>4. CASE ~Active(k)
  <2>1. vpn' = vpn /\ connecting' = connecting /\ (vpn # None => KindOf[vpn] # k)
    BY <1>1, <1>4 DEF Active, Up
  <2> QED BY <1>1, <1>4, <2>1, VpnKind DEF Sound, OneInv, ManagerInv, UpInv, Ended
<1> QED BY <1>3, <1>4

LEMMA SoundNetwork ==
    ASSUME TypeOK, Sound, ServerDrops \/ Reconnects \/ \E s \in Server : ServerUp(s) \/ ServerFails(s)
    PROVE  Sound'
<1>1. UNCHANGED <<server, countDownTimer, ui, pending, cancelled, paid, intents, callbacks>>
  BY DEF ServerDrops, Reconnects, ServerUp, ServerFails, managerVars, uiVars
<1>2. \A s \in Server, b \in BOOLEAN : [up |-> b, kind |-> KindOf[s]] \in Event
  BY ManagerAssumption DEF Event
<1>3. CASE ServerDrops
  <2>1. vpn # None /\ vpn \in Server /\ connecting = {} /\ UNCHANGED connecting
    BY <1>3, VpnKind DEF ServerDrops, Sound, OneInv
  <2>2. vpn' = None /\ events' = Append(events, [up |-> FALSE, kind |-> KindOf[vpn]])
    BY <1>3 DEF ServerDrops
  <2> QED BY <1>1, <1>2, <2>1, <2>2, SoundDown
<1>6. CASE Reconnects
  <2>1. vpn # None /\ connecting = {} /\ UNCHANGED <<vpn, connecting>>
    BY <1>6 DEF Reconnects, Up, vpnVars, Sound, OneInv
  <2> DEFINE e == [up |-> TRUE, kind |-> "openvpn"]
  <2>2. e \in Event /\ e.up /\ events' = Append(events, e)
    BY <1>6 DEF Reconnects, Event, Kind
  <2> HIDE DEF e
  <2>3. events' # <<>> /\ \A i \in DOMAIN events' : events'[i].up
    BY <2>1, <2>2, EventFacts DEF Sound, OneInv
  <2> QED BY <1>1, <2>1, <2>3 DEF Sound, OneInv, ManagerInv, UpInv, Ended
<1>4. ASSUME NEW s \in Server, ServerUp(s) PROVE Sound'
  <2>1. /\ connecting = {s} /\ connecting' = {} /\ ui.current = s /\ vpn = None /\ vpn' = s
        /\ events = <<>> /\ intents = <<>> /\ server = None /\ s # None
    BY <1>4, ManagerAssumption DEF ServerUp, Sound, OneInv
  <2> DEFINE e == [up |-> TRUE, kind |-> KindOf[s]]
  <2>2. e \in Event /\ e.up /\ events' = Append(events, e)
    BY <1>2, <1>4, <2>1 DEF ServerUp
  <2> HIDE DEF e
  <2>3. events' # <<>> /\ \A i \in DOMAIN events' : events'[i].up
    BY <2>1, <2>2, EventFacts
  <2>4. OneInv'
    BY <1>1, <2>1, <2>3 DEF OneInv
  <2>5. ManagerInv'
    BY <1>1, <2>1 DEF Sound, ManagerInv
  <2>6. UpInv'
    <3>1. ui.status # "CONNECTED"
      BY <2>1 DEF Sound, UpInv, Ended
    <3> QED BY <1>1, <2>1, <2>3, <3>1 DEF UpInv
  <2> QED BY <2>4, <2>5, <2>6 DEF Sound
<1>5. ASSUME NEW s \in Server, ServerFails(s) PROVE Sound'
  <2>1. connecting = {s} /\ connecting' = {} /\ vpn = None /\ vpn' = None /\ events = <<>>
    BY <1>5 DEF ServerFails, Sound, OneInv
  <2>2. CASE events' = Append(events, [up |-> FALSE, kind |-> KindOf[s]])
    BY <1>1, <1>2, <2>1, <2>2, SoundDown
  <2>3. CASE events' = events
    BY <1>1, <2>1, <2>3 DEF Sound, OneInv, ManagerInv, UpInv, Ended
  <2> QED BY <1>5, <2>2, <2>3 DEF ServerFails
<1> QED BY <1>3, <1>4, <1>5, <1>6

LEMMA SoundHear ==
    ASSUME TypeOK, Sound, Hear, ~Disorder(Head(events))
    PROVE  Sound'
<1> DEFINE e == Head(events)
           n == Len(events)
<1>1. /\ UNCHANGED <<server, countDownTimer, paid, vpn, connecting, callbacks>>
      /\ events # <<>> /\ events' = Tail(events) /\ pending' = TRUE /\ cancelled' = FALSE
      /\ onStateChange(e)
      /\ intents = <<>> /\ (e.up => server = None)
  BY DEF Hear, Disorder, managerVars, vpnVars
<1>2. /\ n \in Nat /\ n > 0 /\ DOMAIN events = 1..n /\ DOMAIN events' = 1..(n - 1)
      /\ e = events[1] /\ Len(events') = n - 1
      /\ \A i \in 1..(n - 1) : events'[i] = events[i + 1]
      /\ n > 1 => events' # <<>>
  <2>1. events \in Seq(Event)
    BY DEF TypeOK
  <2>2. /\ n \in Nat /\ n > 0 /\ DOMAIN events = 1..n /\ DOMAIN events' = 1..(n - 1)
        /\ e = events[1] /\ Len(events') = n - 1
        /\ \A i \in 1..(n - 1) : events'[i] = events[i + 1]
    BY <1>1, <2>1, TailFacts
  <2>3. n > 1 => events' # <<>>
    BY <2>2
  <2> QED BY <2>2, <2>3
<1>3. connecting = {} /\ (e.up <=> (vpn # None \/ 1 < n))
  BY <1>1, <1>2 DEF Sound, OneInv
<1>4. \A i \in DOMAIN events' : events'[i].up <=> (vpn' # None \/ i < Len(events'))
  <2> SUFFICES ASSUME NEW i \in DOMAIN events'
               PROVE  events'[i].up <=> (vpn # None \/ i < n - 1)
    BY <1>1, <1>2
  <2>1. i + 1 \in DOMAIN events /\ events'[i] = events[i + 1]
    BY <1>2
  <2>2. events[i + 1].up <=> (vpn # None \/ i + 1 < n)
    BY <2>1 DEF Sound, OneInv
  <2> QED BY <1>2, <2>1, <2>2
<1>5. CASE e.up
  <2> DEFINE i == [action |-> IF shouldShowAds THEN "free" ELSE "paid",
                   server |-> ui.current, left |-> ui.left]
  <2>1. intents' = Append(intents, i) /\ ui' = [ui EXCEPT !.status = "CONNECTED"]
    BY <1>1, <1>5 DEF onStateChange
  <2>2. i \in Intent /\ i.action # "more" /\ i.server = ui.current /\ (i.action = "paid" => paid)
    BY DEF Intent, TypeOK, shouldShowAds
  <2> HIDE DEF i
  <2>3. DOMAIN intents' = {1} /\ intents'[1] = i
    BY <1>1, <2>1
  <2>4. ui'.status = "CONNECTED" /\ ui'.current = ui.current
    BY <2>1 DEF TypeOK
  <2>5. vpn # None \/ Ended'
    BY <1>1, <1>2, <1>3, <1>5 DEF Ended
  <2>6. OneInv'
    BY <1>1, <1>3, <1>4, <2>4 DEF Sound, OneInv
  <2>7. ManagerInv'
    BY <1>1, <1>5, <2>2, <2>3, <2>5 DEF Sound, ManagerInv, OneInv
  <2>8. UpInv'
    BY <1>1, <2>2, <2>3, <2>4, <2>5 DEF UpInv
  <2> QED BY <2>6, <2>7, <2>8 DEF Sound
<1>6. CASE ~e.up
  <2>1. vpn = None /\ UNCHANGED intents /\ ui'.status = "DISCONNECTED"
    BY <1>1, <1>3, <1>6 DEF onStateChange
  <2>2. OneInv'
    BY <1>1, <1>3, <1>4, <2>1 DEF OneInv
  <2>3. ManagerInv'
    BY <1>1, <2>1 DEF Sound, ManagerInv
  <2>4. UpInv'
    BY <1>1, <2>1 DEF UpInv
  <2> QED BY <2>2, <2>3, <2>4 DEF Sound
<1> QED BY <1>5, <1>6

(* connectToServer() when nothing else is under way.                       *)
LEMMA SoundConnect ==
    ASSUME TypeOK, Sound, NEW s \in Server, connectToServer(s), orderly',
           UNCHANGED <<server, countDownTimer, paid, vpn, events, intents>>
    PROVE  Sound'
<1>1. /\ connecting = {} /\ events = <<>> /\ intents = <<>> /\ \A k \in Kind : callbacks[k] = 0
      /\ ui.status = "DISCONNECTED" => ~pending
      /\ vpn \in {None, s} /\ cancelled' = (vpn = s /\ callbacks' = callbacks)
      /\ ui' = [ui EXCEPT !.status = "CONNECTING", !.current = s] /\ pending' = TRUE
      /\ startOrStop(s)
  BY DEF connectToServer, InOrder, Settled
<1>2. ui'.status = "CONNECTING" /\ ui'.current = s /\ s # None
  BY <1>1, ManagerAssumption DEF TypeOK
<1>3. server # None => vpn = server
  BY <1>1 DEF Sound, ManagerInv, Ended
<1>4. CASE vpn = None
  <2>1. connecting' = {s}
    BY <1>1, <1>2, <1>4 DEF startOrStop, Up
  <2>2. OneInv'
    BY <1>1, <1>2, <1>3, <1>4, <2>1 DEF OneInv
  <2>3. ManagerInv'
    BY <1>1, <1>3, <1>4 DEF Sound, ManagerInv
  <2>4. UpInv'
    BY <1>2, <1>4 DEF UpInv
  <2> QED BY <2>2, <2>3, <2>4 DEF Sound
<1>5. CASE vpn # None
  <2>1. vpn = s /\ KindOf[s] \in Kind /\ server \in ServerOrNull
        /\ callbacks \in [Kind -> Nat]
    BY <1>1, <1>5, ManagerAssumption DEF TypeOK
  <2>2. connecting' = {} /\ (cancelled' \/ callbacks'[KindOf[s]] > 0)
    <3>1. CASE KindOf[s] = "wireguard"
      <4>1. disconnectCurrentVPN(server) /\ UNCHANGED connecting
        BY <1>1, <1>5, <2>1, <3>1 DEF startOrStop, Up
      <4>2. server # None => server = vpn /\ callbacks'[KindOf[s]] > 0
        BY <1>3, <2>1, <4>1, DisconnectFacts
      <4>3. server = None => callbacks' = callbacks
        BY <2>1, <4>1, DisconnectFacts
      <4> QED BY <1>1, <2>1, <4>1, <4>2, <4>3
    <3>2. CASE KindOf[s] # "wireguard"
      <4>1. /\ UNCHANGED connecting
            /\ callbacks' \in {callbacks, [callbacks EXCEPT ![KindOf[s]] = @ + 1]}
        BY <1>1, <2>1, <3>2 DEF startOrStop
      <4>2. callbacks' = callbacks => cancelled'
        BY <1>1, <2>1
      <4>3. callbacks' # callbacks => callbacks'[KindOf[s]] > 0
        BY <2>1, <4>1
      <4> QED BY <1>1, <4>1, <4>2, <4>3
    <3> QED BY <3>1, <3>2
  <2>3. OneInv'
    BY <1>1, <1>2, <2>1, <2>2 DEF OneInv
  <2>4. ManagerInv'
    BY <1>1, <1>3 DEF Sound, ManagerInv
  <2>5. UpInv'
    <3>1. server = vpn
      BY <1>1, <1>5, <2>1 DEF Sound, UpInv
    <3> QED BY <1>2, <2>1, <2>2, <3>1 DEF UpInv
  <2> QED BY <2>3, <2>4, <2>5 DEF Sound
<1> QED BY <1>4, <1>5

LEMMA SoundTaps ==
    ASSUME TypeOK, Sound, orderly',
           \/ \E s \in Server : TapConnect(s) \/ showDialogOrConnect(s)
           \/ TapDisconnect \/ Delayed
    PROVE  Sound'
<1>1. UNCHANGED <<server, countDownTimer, paid, vpn, events, intents>>
  BY DEF TapConnect, showDialogOrConnect, TapDisconnect, Delayed, managerVars
<1>2. CASE \E s \in Server : connectToServer(s)
  BY <1>1, <1>2, SoundConnect
<1>3. CASE disconnectCurrentVPN(server) /\ UNCHANGED <<uiVars, connecting>>
  <2>1. \A k \in Kind : callbacks[k] > 0 => callbacks'[k] > 0
    BY <1>3, DisconnectFacts DEF TypeOK
  <2> QED BY <1>1, <1>3, <2>1, VpnKind DEF uiVars, Sound, OneInv, ManagerInv, UpInv, Ended
<1>4. later \in ServerOrNull /\ ui.current \in ServerOrNull
      /\ \A s \in ServerOrNull : s # None => s \in Server
  BY DEF TypeOK, ServerOrNull
<1>5. ASSUME NEW s \in Server, TapConnect(s) \/ showDialogOrConnect(s)
      PROVE  Sound'
  BY <1>2, <1>3, <1>5 DEF TapConnect, showDialogOrConnect
<1>6. ASSUME TapDisconnect \/ Delayed
      PROVE  Sound'
  BY <1>2, <1>4, <1>6 DEF TapDisconnect, Delayed
<1> QED BY <1>5, <1>6

(* What the user does besides.                                             *)
LEMMA SoundOthers ==
    ASSUME TypeOK, Sound,
           \/ \E s \in {"ads", "hidden"} : Leave(s)
           \/ onResume \/ updateUserWithOrderData \/ addMoreTime \/ addToTimeLeft \/ doWork
    PROVE  Sound'
<1>1. /\ UNCHANGED <<server, countDownTimer, vpn, connecting, events, callbacks>>
      /\ paid => paid'
      /\ pending => pending'
      /\ UNCHANGED cancelled
  BY DEF Leave, onResume, updateUserWithOrderData, addMoreTime, addToTimeLeft, doWork,
     managerVars, uiVars, vpnVars
<1>2. ui'.status = ui.status /\ ui'.current = ui.current
  BY DEF Leave, onResume, updateUserWithOrderData, addMoreTime, addToTimeLeft, doWork, uiVars, TypeOK
<1>3. /\ \/ UNCHANGED intents
         \/ /\ server # None
            /\ \E i \in Intent : i.action = "more" /\ intents' = Append(intents, i)
  <2>1. [action |-> "more", server |-> None, left |-> 0] \in Intent
    BY TimeFacts DEF Intent, ServerOrNull
  <2> QED BY <2>1 DEF Leave, onResume, updateUserWithOrderData, addMoreTime, addToTimeLeft, doWork
<1>4. /\ \A k \in DOMAIN intents : k \in DOMAIN intents' /\ intents'[k] = intents[k]
      /\ \A k \in DOMAIN intents' :
            (k \in DOMAIN intents /\ intents'[k] = intents[k]) \/ intents'[k].action = "more"
  <2>1. intents \in Seq(Intent)
    BY DEF TypeOK
  <2>2. ASSUME NEW i \in Intent, i.action = "more", intents' = Append(intents, i)
        PROVE  /\ \A k \in DOMAIN intents : k \in DOMAIN intents' /\ intents'[k] = intents[k]
               /\ \A k \in DOMAIN intents' :
                     (k \in DOMAIN intents /\ intents'[k] = intents[k]) \/ intents'[k].action = "more"
    BY <2>1, <2>2, AppendFacts
  <2> QED BY <1>3, <2>2
<1>5. OneInv'
  BY <1>1, <1>2, <1>3 DEF Sound, OneInv
<1>6. ManagerInv'
  BY <1>1, <1>2, <1>4 DEF Sound, ManagerInv, Ended
<1>7. UpInv'
  <2>1. ui'.status = "CONNECTED" => (vpn' # None /\ ~cancelled') \/ Ended'
    BY <1>1, <1>2 DEF Sound, UpInv, Ended
  <2>2. ASSUME vpn # None
        PROVE  /\ \/ server' = vpn \/ events' # <<>> \/ callbacks'[KindOf[vpn]] > 0
                  \/ \E i \in DOMAIN intents' : intents'[i].action # "more"
               /\ \/ ui'.status = "CONNECTED" \/ cancelled'
                  \/ events' # <<>> \/ callbacks'[KindOf[vpn]] > 0
    <3>1. \/ server = vpn \/ events # <<>> \/ callbacks[KindOf[vpn]] > 0
          \/ \E i \in DOMAIN intents : intents[i].action # "more"
      BY <2>2 DEF Sound, UpInv
    <3>2. \/ ui.status = "CONNECTED" \/ cancelled
          \/ events # <<>> \/ callbacks[KindOf[vpn]] > 0
      BY <2>2 DEF Sound, UpInv
    <3> QED BY <1>1, <1>2, <1>4, <3>1, <3>2
  <2> QED BY <1>1, <2>1, <2>2 DEF UpInv
<1> QED BY <1>5, <1>6, <1>7 DEF Sound

LEMMA OrderlyStep == TypeOK /\ TimeInv /\ OrderlyInv /\ [Next]_vars => OrderlyInv'
<1> SUFFICES ASSUME TypeOK, TimeInv, OrderlyInv, [Next]_vars, orderly' PROVE Sound'
  BY DEF OrderlyInv, Sound
<1>0. orderly => Sound
  BY DEF OrderlyInv, Sound
<1>1. CASE UNCHANGED vars
  BY <1>0, <1>1, SoundSame DEF vars, managerVars, uiVars, vpnVars
<1>2. CASE onStartCommand
  <2>1. orderly /\ (Head(intents).action = "more" => server # None)
    BY <1>2 DEF onStartCommand
  <2> QED BY <1>0, <1>2, <2>1, SoundStart
<1>3. CASE Hear
  <2>1. orderly /\ ~Disorder(Head(events))
    BY <1>3 DEF Hear
  <2> QED BY <1>0, <1>3, <2>1, SoundHear
<1>4. CASE render
  <2>1. orderly
    BY <1>4 DEF render
  <2> QED BY <1>0, <1>4, <2>1, SoundRender
<1>5. ASSUME NEW hit \in BOOLEAN, Tick(hit) PROVE Sound'
  <2>1. orderly
    BY <1>5 DEF Tick
  <2> QED BY <1>0, <1>5, <2>1, SoundTick
<1>6. ASSUME NEW k \in Kind, onServiceConnected(k) PROVE Sound'
  <2>1. orderly
    BY <1>6 DEF onServiceConnected
  <2> QED BY <1>0, <1>6, <2>1, SoundService
<1>7. CASE \/ \E s \in Server : TapConnect(s) \/ showDialogOrConnect(s)
           \/ TapDisconnect \/ Delayed
  <2>1. orderly
    BY <1>7 DEF TapConnect, showDialogOrConnect, TapDisconnect, Delayed, connectToServer
  <2> QED BY <1>0, <1>7, <2>1, SoundTaps
<1>8. CASE \/ \E s \in {"ads", "hidden"} : Leave(s)
           \/ onResume \/ updateUserWithOrderData \/ addMoreTime \/ addToTimeLeft \/ doWork
  <2>1. orderly
    BY <1>8 DEF Leave, onResume, updateUserWithOrderData, addMoreTime, addToTimeLeft, doWork
  <2> QED BY <1>0, <1>8, <2>1, SoundOthers
<1>9. CASE ServerDrops \/ Reconnects \/ \E s \in Server : ServerUp(s) \/ ServerFails(s)
  <2>1. orderly
    BY <1>9 DEF ServerDrops, Reconnects, ServerUp, ServerFails
  <2> QED BY <1>0, <1>9, <2>1, SoundNetwork
<1>10. CASE System
  BY <1>2, <1>3, <1>4, <1>5, <1>6, <1>7, <1>10 DEF System
<1>11. CASE User
  BY <1>7, <1>8, <1>11 DEF User
<1>12. CASE Environment
  BY <1>5, <1>8, <1>9, <1>12 DEF Environment
<1> QED BY <1>1, <1>10, <1>11, <1>12 DEF Next

-----------------------------------------------------------------------------
(* The theorems.                                                           *)

(* No amount of time is ever there, stored, counted down, shown or on its  *)
(* way to the manager, that the default and the credits do not make up.    *)
THEOREM TimeTheorem == Spec => [](TypeOK /\ TimeInv)
<1> QED BY TypeInit, TypeStep, PTL DEF Spec

(* Every variable of the manager, the home screen and the time keeps its   *)
(* type: no countdown runs on less than nothing or more than was credited. *)
THEOREM ManagerTypeCorrect == Spec => []TypeOK
<1> QED BY TimeTheorem, PTL

(* What an orderly history has led to, for every set of servers.           *)
THEOREM OrderlyInvariance == Spec => []OrderlyInv
<1>1. Init => OrderlyInv
  BY DEF Init, OrderlyInv, OneInv, ManagerInv, UpInv
<1> QED BY <1>1, OrderlyStep, TimeTheorem, PTL DEF Spec

(* When all is quiet, the server that is up is the manager's and counted.  *)
THEOREM ConnectedTheorem == Spec => []ConnectedIsTimed
<1>1. TypeOK /\ OrderlyInv => ConnectedIsTimed
  <2> SUFFICES ASSUME TypeOK, OrderlyInv, orderly, Quiet, vpn # None
               PROVE  server = vpn /\ (countDownTimer \/ paid)
    BY DEF ConnectedIsTimed
  <2>1. intents = <<>> /\ events = <<>> /\ callbacks[KindOf[vpn]] = 0
    BY VpnKind DEF Quiet, Settled
  <2> QED BY <2>1 DEF OrderlyInv, UpInv, ManagerInv
<1> QED BY <1>1, OrderlyInvariance, ManagerTypeCorrect, PTL

(* When all is quiet, the manager counts only a server that is up.         *)
THEOREM TimedTheorem == Spec => []TimedIsConnected
<1>1. OrderlyInv => TimedIsConnected
  BY DEF OrderlyInv, ManagerInv, Ended, TimedIsConnected, Quiet, Settled
<1> QED BY <1>1, OrderlyInvariance, PTL

(* When all is quiet, the home screen shows CONNECTED if and only if there *)
(* is a connection, but for one the user was asked about and kept.         *)
THEOREM ScreenTheorem == Spec => []ScreenIsTrue
<1>1. TypeOK /\ OrderlyInv => ScreenIsTrue
  <2> SUFFICES ASSUME TypeOK, OrderlyInv, orderly, Quiet
               PROVE  ui.status = "CONNECTED" <=> vpn # None /\ ~cancelled
    BY DEF ScreenIsTrue
  <2>1. events = <<>> /\ (vpn # None => callbacks[KindOf[vpn]] = 0)
    BY VpnKind DEF Quiet, Settled
  <2> QED BY <2>1 DEF OrderlyInv, UpInv, Ended
<1> QED BY <1>1, OrderlyInvariance, ManagerTypeCorrect, PTL
===============================================================================

--------------------------- MODULE Probes_proofs -----------------------------
(***************************************************************************)
(* Proofs about the loops that go on beside a connection, MCProbes, for    *)
(* every value of its constants: the RTT probe raises no false alarm and   *)
(* misses none, and the rotation of the backend pool passes nobody over.   *)
(***************************************************************************)
EXTENDS MCProbes, SequenceTheorems, FiniteSetTheorems,
        WellFoundedInduction, TLAPS

Entries == [age : Nat, left : Int]

\* What Pong relies on: the stamp is the time of a ping at least as recent as
\* any in flight, so that a measurement is at most the pong's age.
IInv ==
  /\ sincePing \in Nat
  /\ flight \in Seq(Entries)
  /\ badStreak \in Nat /\ slow \in Nat /\ degraded \in BOOLEAN
  /\ ~degraded => badStreak < DegradedStreak
  /\ \A i \in DOMAIN flight : flight[i].age >= sincePing
  /\ badStreak <= slow

LEMMA InitIInv == Init => IInv
<1> SUFFICES ASSUME Init PROVE IInv
  OBVIOUS
<1>1. flight \in Seq(Entries) /\ DOMAIN flight = {}
  BY DEF Init
<1>2. degraded \in BOOLEAN
  BY DEF Init
<1>3. QED
  BY <1>1, <1>2, ProbeAssumption DEF Init, IInv

\* A ping renews the stamp and joins the flight at age 0.
LEMMA PingIInv == ASSUME IInv, Ping PROVE IInv'
<1>1. PICK d \in Delays :
        LET last == IF flight = <<>> THEN 0 ELSE flight[Len(flight)].left
        IN flight' = Append(flight, [age |-> 0, left |-> IF d < last THEN last ELSE d])
  BY DEF Ping
<1> DEFINE last == IF flight = <<>> THEN 0 ELSE flight[Len(flight)].left
           e == [age |-> 0, left |-> IF d < last THEN last ELSE d]
<1>2. flight' = Append(flight, e)
  BY <1>1
<1>3. e \in Entries
  <2>1. d \in Int
    BY ProbeAssumption
  <2>2. ASSUME flight # <<>> PROVE flight[Len(flight)] \in Entries
    BY <2>2, EmptySeq, ElementOfSeq DEF IInv
  <2>3. last \in Int
    BY <2>2 DEF Entries
  <2> QED
    BY <2>1, <2>3 DEF Entries
<1>4. e.age = 0
  OBVIOUS
<1> HIDE DEF e, last
<1>5. flight \in Seq(Entries) /\ Len(flight) \in Nat
  BY DEF IInv
<1>6. /\ flight' \in Seq(Entries) /\ DOMAIN flight' = 1..(Len(flight) + 1)
      /\ flight'[Len(flight) + 1] = e
      /\ \A i \in 1..Len(flight) : flight'[i] = flight[i]
  BY <1>2, <1>3, <1>5
<1>7. ASSUME NEW i \in DOMAIN flight' PROVE flight'[i].age >= 0
  <2>1. flight'[i] \in Entries
    BY <1>6
  <2> QED
    BY <2>1 DEF Entries
<1>8. QED
  BY <1>6, <1>7 DEF Ping, IInv

\* A pong that is measured slow is slow, so both counts grow or neither resets
\* alone.
LEMMA PongIInv == ASSUME IInv, Pong PROVE IInv'
<1>1. flight \in Seq(Entries) /\ flight # <<>>
  BY DEF IInv, Pong
<1>2. /\ Head(flight) = flight[1] /\ 1 \in DOMAIN flight
      /\ Head(flight).age \in Nat /\ Head(flight).age >= sincePing
  <2>1. Len(flight) \in Nat \ {0} /\ DOMAIN flight = 1..Len(flight)
    BY <1>1, EmptySeq
  <2>2. Head(flight) = flight[1] /\ 1 \in DOMAIN flight
    BY <1>1, <2>1
  <2>3. flight[1] \in Entries /\ flight[1].age >= sincePing
    BY <1>1, <2>1 DEF IInv
  <2> QED
    BY <2>2, <2>3 DEF Entries
<1>3. flight' \in Seq(Entries)
      /\ \A i \in DOMAIN flight' : i + 1 \in DOMAIN flight /\ flight'[i] = flight[i + 1]
  <2>1. flight' = Tail(flight)
    BY DEF Pong
  <2>2. Len(flight) \in Nat /\ DOMAIN flight = 1..Len(flight)
    BY <1>1
  <2> QED
    BY <1>1, <2>1, <2>2, HeadTailProperties
<1>4. \A i \in DOMAIN flight' : flight'[i].age >= sincePing'
  BY <1>3 DEF Pong, IInv
<1>5. badStreak' \in Nat /\ slow' \in Nat /\ badStreak' <= slow'
  BY <1>2, ProbeAssumption DEF Pong, IInv, NextSlow, SlowBound
<1>6. degraded' \in BOOLEAN /\ (~degraded' => badStreak' < DegradedStreak)
  <2>1. CASE badStreak' >= DegradedStreak
    BY <2>1, <1>5, ProbeAssumption DEF Pong
  <2>2. CASE ~(badStreak' >= DegradedStreak)
    BY <2>2, <1>5, ProbeAssumption DEF Pong
  <2> QED
    BY <2>1, <2>2
<1>7. QED
  BY <1>3, <1>4, <1>5, <1>6 DEF Pong, IInv

\* A second ages stamp and flight alike.
LEMMA SecondIInv == ASSUME IInv, Second PROVE IInv'
<1>1. /\ DOMAIN flight' = DOMAIN flight
      /\ \A i \in DOMAIN flight :
           flight'[i] = [age |-> flight[i].age + 1, left |-> flight[i].left - 1]
  BY DEF Second
<1>2. \A i \in DOMAIN flight : flight[i] \in Entries
  BY DEF IInv
<1>3. \A i \in DOMAIN flight : flight'[i] \in Entries /\ flight'[i].age = flight[i].age + 1
  BY <1>1, <1>2 DEF Entries
<1>4. flight' \in Seq(Entries)
  <2>1. flight' = [i \in 1..Len(flight) |-> flight'[i]]
    BY DEF Second, IInv
  <2>2. Len(flight) \in Nat /\ DOMAIN flight = 1..Len(flight)
    BY DEF IInv
  <2>3. QED
    BY <2>1, <2>2, <1>3
<1>5. QED
  BY <1>1, <1>2, <1>3, <1>4 DEF Second, IInv, Entries

\* No false alarm: the streak that ends a generation is never longer than the
\* run of pongs that really took too long (client.go:163-178).
THEOREM NoFalseAlarm == Spec => []DegradedOnlyIfSlow
<1>1. Init => IInv
  BY InitIInv
<1>2. IInv /\ [Next]_vars => IInv'
  BY PingIInv, PongIInv, SecondIInv DEF Next, IInv, vars
<1>3. IInv => DegradedOnlyIfSlow
  BY DEF IInv, DegradedOnlyIfSlow
<1>4. QED
  BY <1>1, <1>2, <1>3, PTL DEF Spec

-------------------------------------------------------------------------------
\* With round trips shorter than the heartbeat at most one ping is in flight,
\* the last, and a measurement is exact.
Exact ==
  /\ sincePing \in Nat /\ badStreak \in Nat /\ badStreak = slow
  /\ degraded \in BOOLEAN /\ (degraded <=> badStreak = DegradedStreak)
  /\ badStreak <= DegradedStreak
  /\ flight # <<>> =>
       \E l \in Nat : /\ flight = <<[age |-> sincePing, left |-> l]>>
                     /\ sincePing + l < Heartbeat

LEMMA PingExact ==
  ASSUME \A d \in Delays : d < Heartbeat, Exact, Ping
  PROVE  Exact'
<1>1. flight = <<>>
  BY ProbeAssumption DEF Exact, Ping
<1>2. PICK d \in Delays : flight' = Append(flight, [age |-> 0, left |-> d])
  <2>1. PICK d \in Delays :
          flight' = Append(flight, [age |-> 0, left |-> IF d < 0 THEN 0 ELSE d])
    BY <1>1 DEF Ping
  <2>2. d \in Nat
    BY ProbeAssumption
  <2> QED
    BY <2>1, <2>2
<1>3. flight' = <<[age |-> 0, left |-> d]>>
  BY <1>1, <1>2
<1>4. d \in Nat /\ 0 + d < Heartbeat
  BY ProbeAssumption
<1>5. QED
  BY <1>3, <1>4 DEF Exact, Ping

LEMMA PongExact == ASSUME Exact, Pong PROVE Exact'
<1>1. PICK l \in Nat : flight = <<[age |-> sincePing, left |-> l]>>
  BY DEF Exact, Pong
<1>2. Head(flight).age = sincePing /\ flight' = <<>>
  BY <1>1 DEF Pong
<1>3. badStreak < DegradedStreak
  BY ProbeAssumption DEF Exact, Pong
<1>4. badStreak' \in Nat /\ badStreak' = slow' /\ badStreak' <= DegradedStreak
  BY <1>2, <1>3, ProbeAssumption DEF Exact, Pong, NextSlow, SlowBound
<1>5. degraded' \in BOOLEAN /\ (degraded' <=> badStreak' = DegradedStreak)
  BY <1>4, ProbeAssumption DEF Pong
<1>6. QED
  BY <1>2, <1>4, <1>5 DEF Exact, Pong

LEMMA SecondExact == ASSUME Exact, Second PROVE Exact'
<1>1. CASE flight = <<>>
  <2>1. flight' = <<>>
    BY <1>1 DEF Second
  <2> QED
    BY <2>1 DEF Exact, Second
<1>2. CASE flight # <<>>
  <2>1. PICK l \in Nat : /\ flight = <<[age |-> sincePing, left |-> l]>>
                        /\ sincePing + l < Heartbeat
    BY <1>2 DEF Exact
  <2>2. DOMAIN flight = {1} /\ l > 0
    BY <2>1 DEF Second
  <2>3. flight' = <<[age |-> sincePing', left |-> l - 1]>>
    BY <2>1, <2>2 DEF Second
  <2>4. l - 1 \in Nat /\ sincePing' + (l - 1) < Heartbeat
    BY <2>1, <2>2, ProbeAssumption DEF Exact, Second
  <2> QED
    BY <2>3, <2>4 DEF Exact, Second
<1>3. QED
  BY <1>1, <1>2

\* The exact condition under which a slow profile is noticed (CENSORSHIP.md:65):
\* round trips shorter than the heartbeat.
THEOREM SlowNoticed ==
  ASSUME \A d \in Delays : d < Heartbeat
  PROVE  Spec => []SlowIsDegraded
<1>1. Init => Exact
  <2> SUFFICES ASSUME Init PROVE Exact
    OBVIOUS
  <2>1. ~(badStreak = DegradedStreak) /\ degraded = FALSE /\ flight = <<>>
    BY ProbeAssumption DEF Init
  <2>2. degraded \in BOOLEAN /\ (degraded <=> badStreak = DegradedStreak)
    BY <2>1, Zenon
  <2> QED
    BY <2>1, <2>2, ProbeAssumption DEF Init, Exact
<1>2. Exact /\ [Next]_vars => Exact'
  BY PingExact, PongExact, SecondExact DEF Next, Exact, vars
<1>3. Exact => SlowIsDegraded
  BY DEF Exact, SlowIsDegraded, SlowBound
<1>4. QED
  BY <1>1, <1>2, <1>3, PTL DEF Spec

-------------------------------------------------------------------------------
(* BackendPool: the rotation is even.  What is inductive is where the last *)
(* picks stand: the backend picked k picks ago is the one next pointed to  *)
(* k picks ago, modulo the number of live ones.                            *)

Live == Cardinality(healthy)

\* What the picks in s are to a counter nx that will make the next.
InTurn(s, nx) ==
  \A i \in 1..Len(s) : \E q \in Int : Pool!Rank(s[i]) + (Len(s) + 1 - i) = nx + q * Live

PoolInv ==
  /\ Pool!TypeOK
  /\ picked \in Seq(1..N) /\ Len(picked) <= N
  /\ InTurn(picked, next)

LEMMA PoolBounds ==
  /\ N \in Nat \ {0} /\ FailThreshold \in Nat \ {0} /\ Period \in Nat \ {0}
  /\ \A n \in 1..N : \E k \in Int : Period = k * n
<1>1. \A k \in 1..Period : k \in Int
  BY PoolAssumption
<1>2. QED
  BY <1>1, PoolAssumption

LEMMA SameCardinality == \A S : Pool!Cardinality(S) = Cardinality(S)
BY DEF Pool!Cardinality, Cardinality

LEMMA Remainder == ASSUME NEW a \in Nat, NEW n \in Nat \ {0} PROVE a % n \in 0..(n - 1)
OBVIOUS

\* The live backends can be counted, all of them and those before one.
LEMMA RankNat ==
  ASSUME Pool!TypeOK
  PROVE  /\ Live \in 0..N /\ (healthy # {} => Live # 0)
         /\ \A b : Pool!Rank(b) \in Nat
<1>1. healthy \subseteq 1..N
  BY DEF Pool!TypeOK
<1>2. IsFiniteSet(1..N) /\ Cardinality(1..N) = N
  BY FS_Interval, PoolBounds
<1>3. IsFiniteSet(healthy) /\ Live \in Nat /\ Live <= N /\ (healthy # {} => Live # 0)
  <2>1. IsFiniteSet(healthy) /\ Cardinality(healthy) <= N
    BY <1>1, <1>2, FS_Subset
  <2>2. Live \in Nat /\ Live <= N
    BY <2>1, FS_CardinalityType DEF Live
  <2>3. healthy # {} => Live # 0
    BY <2>1, FS_EmptySet DEF Live
  <2>4. QED
    BY <2>1, <2>2, <2>3
<1>4. ASSUME NEW b PROVE Pool!Rank(b) \in Nat
  <2>1. {c \in healthy : c < b} \subseteq healthy
    OBVIOUS
  <2>2. IsFiniteSet({c \in healthy : c < b})
    BY <2>1, <1>3, FS_Subset
  <2>3. QED
    BY <2>2, FS_CardinalityType, SameCardinality DEF Pool!Rank
<1>5. QED
  BY <1>3, <1>4, PoolBounds

\* A pick joins the others, and the counter goes on by one, or back to zero.
LEMMA TurnAppend ==
  ASSUME Pool!TypeOK, picked \in Seq(1..N), InTurn(picked, next),
         NEW b \in healthy, Pool!Rank(b) = next % Live
  PROVE  InTurn(Append(picked, b), next + 1)
<1> DEFINE n == Len(picked) s == Append(picked, b)
<1>0. b \in 1..N
  BY DEF Pool!TypeOK
<1>1. n \in Nat /\ Len(s) = n + 1 /\ s[n + 1] = b /\ \A i \in 1..n : s[i] = picked[i]
  BY <1>0
<1>2. next \in Nat /\ Live \in Nat \ {0}
  <2>1. next \in Nat
    BY PoolBounds DEF Pool!TypeOK
  <2>2. QED
    BY <2>1, RankNat
<1>3. \E q \in Int : Pool!Rank(b) + 1 = (next + 1) + q * Live
  <2>1. next = Live * (next \div Live) + (next % Live) /\ next \div Live \in Int
    BY <1>2
  <2>2. Pool!Rank(b) + 1 = (next + 1) + (-(next \div Live)) * Live
    BY <2>1, <1>2
  <2>3. QED
    BY <2>1, <2>2
<1>4. ASSUME NEW i \in 1..n
      PROVE  \E q \in Int : Pool!Rank(picked[i]) + (n + 2 - i) = (next + 1) + q * Live
  <2>1. PICK q \in Int : Pool!Rank(picked[i]) + (n + 1 - i) = next + q * Live
    BY DEF InTurn
  <2>2. Pool!Rank(picked[i]) \in Nat /\ q * Live \in Int
    BY RankNat, <1>2
  <2>3. Pool!Rank(picked[i]) + (n + 2 - i) = (next + 1) + q * Live
    BY <2>1, <2>2, <1>1, <1>2
  <2>4. QED
    BY <2>3
<1>5. ASSUME NEW i \in 1..Len(s)
      PROVE  \E q \in Int : Pool!Rank(s[i]) + (Len(s) + 1 - i) = (next + 1) + q * Live
  <2>1. CASE i = n + 1
    BY <2>1, <1>1, <1>3
  <2>2. CASE i \in 1..n
    BY <2>2, <1>1, <1>4
  <2>3. QED
    BY <2>1, <2>2, <1>1
<1>6. QED
  BY <1>5 DEF InTurn

LEMMA TurnTail ==
  ASSUME NEW s \in Seq(1..N), s # <<>>, NEW nx, InTurn(s, nx)
  PROVE  Tail(s) \in Seq(1..N) /\ Len(Tail(s)) = Len(s) - 1 /\ InTurn(Tail(s), nx)
<1> DEFINE t == Tail(s)
<1>1. /\ t \in Seq(1..N) /\ Len(t) = Len(s) - 1 /\ Len(s) \in Nat \ {0}
      /\ \A i \in 1..Len(t) : t[i] = s[i + 1] /\ i + 1 \in 1..Len(s)
  BY HeadTailProperties, EmptySeq
<1> HIDE DEF t
<1>2. ASSUME NEW i \in 1..Len(t)
      PROVE  \E q \in Int : Pool!Rank(t[i]) + (Len(t) + 1 - i) = nx + q * Live
  <2>1. PICK q \in Int : Pool!Rank(s[i + 1]) + (Len(s) + 1 - (i + 1)) = nx + q * Live
    BY <1>1 DEF InTurn
  <2>2. Len(s) + 1 - (i + 1) = Len(t) + 1 - i
    <3>1. Len(s) \in Int /\ i \in Int /\ Len(t) = Len(s) - 1
      BY <1>1
    <3>2. QED
      BY <3>1
  <2>3. QED
    BY <2>1, <2>2, <1>1
<1>3. QED
  BY <1>1, <1>2 DEF InTurn, t

\* The number of live backends divides the period, so counting modulo the period
\* does not disturb the order.
LEMMA TurnWrap ==
  ASSUME Pool!TypeOK, healthy # {}, NEW s, InTurn(s, next + 1)
  PROVE  InTurn(s, (next + 1) % Period)
<1>1. Live \in 1..N /\ next \in 0..(Period - 1)
  BY RankNat, PoolBounds DEF Pool!TypeOK
<1>2. CASE next + 1 < Period
  <2>1. (next + 1) % Period = next + 1
    BY <1>1, <1>2, PoolBounds
  <2>2. QED
    BY <2>1
<1>3. CASE next + 1 = Period
  <2>1. (next + 1) % Period = 0
    BY <1>3, PoolBounds
  <2>2. PICK k \in Int : Period = k * Live
    BY <1>1, PoolBounds
  <2>3. ASSUME NEW i \in 1..Len(s)
        PROVE  \E q \in Int : Pool!Rank(s[i]) + (Len(s) + 1 - i) = 0 + q * Live
    <3>1. PICK q \in Int : Pool!Rank(s[i]) + (Len(s) + 1 - i) = (next + 1) + q * Live
      BY DEF InTurn
    <3>2. (next + 1) + q * Live = 0 + (q + k) * Live
      BY <1>1, <1>3, <2>2
    <3>3. q + k \in Int
      OBVIOUS
    <3>4. QED
      BY <3>1, <3>2, <3>3
  <2>4. QED
    BY <2>1, <2>3 DEF InTurn
<1>4. QED
  BY <1>1, <1>2, <1>3, PoolBounds

LEMMA NoMultiple == ASSUME NEW d \in Int, NEW m \in Int, NEW L \in Nat, d = m * L, 0 < d, d < L PROVE FALSE
<1>1. CASE m <= 0
  BY <1>1
<1>2. CASE m >= 1
  <2>1. m * L = L + (m - 1) * L
    OBVIOUS
  <2>2. (m - 1) * L >= 0
    BY <1>2
  <2>3. QED
    BY <2>1, <2>2
<1>3. QED
  BY <1>1, <1>2

\* Two picks of one backend are a multiple of the live ones apart.
LEMMA InTurnEven == PoolInv => Pool!RoundRobin
<1> SUFFICES ASSUME PoolInv, NEW i \in 1..Len(picked), NEW j \in 1..Len(picked),
                    i < j, j - i < Live, picked[i] = picked[j]
             PROVE  FALSE
  BY SameCardinality DEF Pool!RoundRobin, Live
<1>0. Live \in Nat /\ Pool!Rank(picked[i]) \in Nat
  BY RankNat DEF PoolInv
<1>1. PICK q \in Int : Pool!Rank(picked[i]) + (Len(picked) + 1 - i) = next + q * Live
  BY DEF PoolInv, InTurn
<1>2. PICK r \in Int : Pool!Rank(picked[j]) + (Len(picked) + 1 - j) = next + r * Live
  BY DEF PoolInv, InTurn
<1>3. next \in Nat /\ Len(picked) \in Nat /\ q * Live \in Int /\ r * Live \in Int
  BY <1>0, PoolBounds DEF PoolInv, Pool!TypeOK
<1>4. j - i = q * Live - r * Live
  BY <1>0, <1>1, <1>2, <1>3
<1>5. q * Live - r * Live = (q - r) * Live
  BY <1>0
<1>6. QED
  BY <1>0, <1>4, <1>5, NoMultiple

-------------------------------------------------------------------------------
LEMMA PoolInit == Pool!Init => PoolInv
<1> SUFFICES ASSUME Pool!Init PROVE PoolInv
  OBVIOUS
<1>1. Pool!TypeOK
  BY PoolBounds DEF Pool!Init, Pool!TypeOK
<1>2. picked = <<>> /\ Len(picked) = 0 /\ picked \in Seq(1..N)
  BY DEF Pool!Init
<1>3. QED
  BY <1>1, <1>2, PoolBounds DEF PoolInv, InTurn

LEMMA ApplyInv == ASSUME PoolInv, Pool!Apply PROVE PoolInv'
<1>0. Pool!TypeOK
  BY DEF PoolInv
<1>1. turn \in 1..N
  BY <1>0, PoolBounds DEF Pool!TypeOK, Pool!Apply
<1>2. turn' \in 0..N /\ result' = "none"
  BY <1>1, PoolBounds, Remainder DEF Pool!Apply, Pool!NextTurn
<1>3. /\ fails' \in [1..N -> 0..FailThreshold]
      /\ \A b \in 1..N : b # turn => fails'[b] = fails[b]
      /\ result = "ok" => fails'[turn] = 0
      /\ result # "ok" => fails'[turn] = IF fails[turn] < FailThreshold THEN fails[turn] + 1 ELSE fails[turn]
  BY <1>0, <1>1, PoolBounds DEF Pool!TypeOK, Pool!Apply
<1>4. healthy' = {b \in 1..N : fails'[b] < FailThreshold}
  <2>1. healthy' \subseteq 1..N
    BY <1>0, <1>1 DEF Pool!TypeOK, Pool!Apply
  <2>2. ASSUME NEW b \in 1..N PROVE b \in healthy' <=> fails'[b] < FailThreshold
    <3>1. CASE b # turn
      BY <3>1, <1>0, <1>1, <1>3 DEF Pool!TypeOK, Pool!Apply
    <3>2. CASE b = turn /\ result = "ok"
      BY <3>2, <1>0, <1>1, <1>3, PoolBounds DEF Pool!TypeOK, Pool!Apply
    <3>3. CASE b = turn /\ result # "ok"
      BY <3>3, <1>0, <1>1, <1>3, PoolBounds DEF Pool!TypeOK, Pool!Apply
    <3>4. QED
      BY <3>1, <3>2, <3>3
  <2>3. QED
    BY <2>1, <2>2
<1>5. Pool!TypeOK'
  BY <1>0, <1>2, <1>3, <1>4 DEF Pool!TypeOK, Pool!Apply
<1>6. picked' \in Seq(1..N) /\ Len(picked') <= N /\ InTurn(picked, next)'
  <2>1. CASE healthy' = healthy
    BY <2>1 DEF Pool!Apply, Pool!History, PoolInv, InTurn, Live, Pool!Rank
  <2>2. CASE healthy' # healthy
    <3>1. picked' = <<>> /\ Len(picked') = 0
      BY <2>2 DEF Pool!Apply, Pool!History
    <3>2. QED
      BY <3>1, PoolBounds DEF InTurn
  <2>3. QED
    BY <2>1, <2>2
<1>7. QED
  BY <1>5, <1>6 DEF PoolInv

LEMMA PickInv == ASSUME PoolInv, Pool!Pick PROVE PoolInv'
<1>0. Pool!TypeOK /\ picked \in Seq(1..N) /\ Len(picked) <= N /\ InTurn(picked, next)
  BY DEF PoolInv
<1>1. PICK b \in healthy : Pool!Rank(b) = next % Live /\ picked' = Pool!LastN(Append(picked, b))
  BY SameCardinality DEF Pool!Pick, Live
<1> DEFINE s == Append(picked, b)
<1>2. b \in 1..N /\ healthy # {}
  BY <1>0 DEF Pool!TypeOK
<1>3. s \in Seq(1..N) /\ Len(s) = Len(picked) + 1 /\ s # <<>> /\ Len(s) \in Nat
  BY <1>0, <1>2
<1>4. InTurn(s, next')
  <2>1. InTurn(s, next + 1)
    BY <1>0, <1>1, TurnAppend
  <2>2. InTurn(s, (next + 1) % Period)
    BY <2>1, <1>0, <1>2, TurnWrap
  <2>3. QED
    BY <2>2 DEF Pool!Pick
<1> HIDE DEF s
<1>5. picked' \in Seq(1..N) /\ Len(picked') <= N /\ InTurn(picked', next')
  <2>1. CASE Len(s) > N
    <3>1. picked' = Tail(s)
      BY <2>1, <1>1 DEF Pool!LastN, s
    <3>2. QED
      BY <3>1, <1>0, <1>3, <1>4, TurnTail, PoolBounds
  <2>2. CASE ~(Len(s) > N)
    <3>1. picked' = s
      BY <2>2, <1>1 DEF Pool!LastN, s
    <3>2. QED
      BY <2>2, <3>1, <1>3, <1>4, PoolBounds
  <2>3. QED
    BY <2>1, <2>2
<1>6. InTurn(picked, next)'
  BY <1>5 DEF Pool!Pick, InTurn, Live, Pool!Rank
<1>7. Pool!TypeOK'
  <2>1. next + 1 \in Nat /\ next' = (next + 1) % Period
    BY <1>0, PoolBounds DEF Pool!Pick, Pool!TypeOK
  <2>2. next' \in 0..(Period - 1)
    BY <2>1, Remainder, PoolBounds
  <2>3. QED
    BY <2>2, <1>0 DEF Pool!Pick, Pool!TypeOK
<1>8. QED
  BY <1>5, <1>6, <1>7 DEF PoolInv

LEMMA SameTurn ==
  ASSUME InTurn(picked, next), UNCHANGED <<healthy, next, picked>>
  PROVE  InTurn(picked, next)'
BY DEF InTurn, Live, Pool!Rank

LEMMA PoolStep == PoolInv /\ [Pool!Next]_pool => PoolInv'
<1> SUFFICES ASSUME PoolInv, [Pool!Next]_pool PROVE PoolInv'
  OBVIOUS
<1>1. CASE Pool!BackendChanges
  BY <1>1, SameTurn DEF PoolInv, Pool!BackendChanges, Pool!TypeOK
<1>2. CASE Pool!Tick
  BY <1>2, SameTurn, PoolBounds DEF PoolInv, Pool!Tick, Pool!TypeOK
<1>3. CASE Pool!Probe
  BY <1>3, SameTurn DEF PoolInv, Pool!Probe, Pool!TypeOK
<1>4. CASE UNCHANGED pool
  BY <1>4, SameTurn DEF pool, PoolInv, Pool!TypeOK
<1>5. QED
  BY <1>1, <1>2, <1>3, <1>4, ApplyInv, PickInv DEF Pool!Next, Pool!HealthLoop

\* backendpool.go:117: between two changes of the live set no backend gets a
\* second flow before every other live one got its first, for any number of
\* backends and any threshold.
THEOREM EvenRotation == Pool!Spec => []Pool!RoundRobin
<1>2. Pool!Init => PoolInv
  BY PoolInit
<1>3. PoolInv /\ [Pool!Next]_(Pool!vars) => PoolInv'
  BY PoolStep DEF Pool!vars, pool
<1>4. PoolInv => Pool!RoundRobin
  BY InTurnEven
<1>5. QED
  BY <1>2, <1>3, <1>4, PTL DEF Pool!Spec

-------------------------------------------------------------------------------
(* Failover: the types, with a cooldown never longer than what the         *)
(* failures since the last success have earned.                            *)

DialInv == Dial!TypeOK /\ addrIdx \in [Dial!Profiles -> Nat]

LEMMA DialBounds ==
  /\ ProfileCount \in Nat \ {0} /\ RetryMin \in Nat \ {0} /\ RetryMax \in Nat \ {0}
  /\ RetryMin <= RetryMax /\ MaxCool \in Nat /\ ShortLived \in Nat /\ DialMax \in Nat
  /\ 1 \in Dial!Profiles /\ Dial!Profiles = 1..ProfileCount
BY DialAssumption DEF Dial!Profiles

LEMMA Least == ASSUME NEW S \in SUBSET Nat, S # {} PROVE \E n \in S : \A m \in S : n <= m
<1>1. PICK n \in S : \A m \in S : ~(<<m, n>> \in OpToRel(<, Nat))
  BY NatLessThanWellFounded, WFMin
<1>2. \A m \in S : ~(m < n)
  BY <1>1 DEF OpToRel
<1>3. QED
  BY <1>2

\* pickProfile returns one of the profiles.
LEMMA PickIn == ASSUME NEW c PROVE Dial!PickProfile(c) \in Dial!Profiles
<1>1. CASE \E p \in Dial!Profiles : c[p] = 0
  <2> DEFINE S == {p \in Dial!Profiles : c[p] = 0}
  <2>1. S \in SUBSET Nat /\ S # {}
    BY <1>1, DialBounds
  <2>2. \E p \in S : \A q \in S : p <= q
    BY <2>1, Least
  <2>3. \E p \in Dial!Profiles : c[p] = 0 /\ \A q \in Dial!Profiles : c[q] = 0 => p <= q
    BY <2>2
  <2>4. (CHOOSE p \in Dial!Profiles : c[p] = 0 /\ \A q \in Dial!Profiles : c[q] = 0 => p <= q)
          \in Dial!Profiles
    BY <2>3
  <2>5. QED
    BY <1>1, <2>4 DEF Dial!PickProfile
<1>2. CASE ~ \E p \in Dial!Profiles : c[p] = 0
  BY <1>2, DialBounds DEF Dial!PickProfile
<1>3. QED
  BY <1>1, <1>2

\* Cooldowns only run down with time.
LEMMA ElapsedDown ==
  ASSUME DialInv, NEW t \in Nat
  PROVE  /\ Dial!Elapsed(t) \in [Dial!Profiles -> Nat]
         /\ \A p \in Dial!Profiles : Dial!Elapsed(t)[p] <= cool[p]
BY DEF DialInv, Dial!TypeOK, Dial!Elapsed

\* A failure adds to the count of its profile, and sets its cooldown by it.
LEMMA FailTypes ==
  ASSUME DialInv, NEW p \in Dial!Profiles, NEW n \in Nat, NEW c \in [Dial!Profiles -> Nat],
         \A q \in Dial!Profiles : c[q] <= cool[q], Dial!Fail(p, n, c)
  PROVE  /\ failCount' \in [Dial!Profiles -> 0..MaxCool]
         /\ cool' \in [Dial!Profiles -> Nat]
         /\ \A q \in Dial!Profiles : cool'[q] <= failCount'[q]
         /\ addrIdx' \in [Dial!Profiles -> Nat]
         /\ \A q \in Dial!Profiles : addrIdx'[q] \in 0..(IF q = 1 THEN 1 ELSE 0)
<1>1. failCount \in [Dial!Profiles -> 0..MaxCool] /\ addrIdx \in [Dial!Profiles -> Nat]
      /\ \A q \in Dial!Profiles : cool[q] \in Nat /\ cool[q] <= failCount[q]
  BY DEF DialInv, Dial!TypeOK
<1>2. Dial!Lower(failCount[p] + n, MaxCool) \in 0..MaxCool
  BY <1>1, DialBounds DEF Dial!Lower
<1>3. failCount' = [failCount EXCEPT ![p] = Dial!Lower(failCount[p] + n, MaxCool)]
  BY DEF Dial!Fail
<1>4. failCount' \in [Dial!Profiles -> 0..MaxCool] /\ failCount'[p] \in Nat
      /\ \A q \in Dial!Profiles : q # p => failCount'[q] = failCount[q]
  BY <1>1, <1>2, <1>3, DialBounds
<1>5. cool' = [c EXCEPT ![p] = failCount'[p]]
  BY DEF Dial!Fail
<1>6. cool' \in [Dial!Profiles -> Nat] /\ cool'[p] = failCount'[p]
      /\ \A q \in Dial!Profiles : q # p => cool'[q] = c[q]
  BY <1>4, <1>5
<1>7. \A q \in Dial!Profiles : cool'[q] <= failCount'[q]
  <2> SUFFICES ASSUME NEW q \in Dial!Profiles PROVE cool'[q] <= failCount'[q]
    OBVIOUS
  <2>1. CASE q = p
    BY <2>1, <1>4, <1>6
  <2>2. CASE q # p
    <3>1. cool'[q] = c[q] /\ failCount'[q] = failCount[q]
      BY <2>2, <1>4, <1>6
    <3>2. c[q] \in Nat /\ failCount[q] \in 0..MaxCool /\ c[q] <= cool[q] /\ cool[q] <= failCount[q]
          /\ cool[q] \in Nat
      BY <1>1
    <3>3. QED
      BY <3>1, <3>2, DialBounds
  <2>3. QED
    BY <2>1, <2>2
<1>8. addrIdx' = [addrIdx EXCEPT ![p] = (addrIdx[p] + 1) % ((IF p = 1 THEN 1 ELSE 0) + 1)]
  BY DialBounds DEF Dial!Fail
<1>9. (addrIdx[p] + 1) % ((IF p = 1 THEN 1 ELSE 0) + 1) \in 0..(IF p = 1 THEN 1 ELSE 0)
  <2>1. addrIdx[p] + 1 \in Nat
    BY <1>1
  <2>2. CASE p = 1
    BY <2>1, <2>2
  <2>3. CASE p # 1
    BY <2>1, <2>3
  <2>4. QED
    BY <2>2, <2>3
<1>10. \A q \in Dial!Profiles : addrIdx[q] \in 0..(IF q = 1 THEN 1 ELSE 0)
  BY DialBounds DEF DialInv, Dial!TypeOK
<1>11. addrIdx' \in [Dial!Profiles -> Nat]
       /\ \A q \in Dial!Profiles : addrIdx'[q] \in 0..(IF q = 1 THEN 1 ELSE 0)
  BY <1>1, <1>8, <1>9, <1>10
<1>12. QED
  BY <1>4, <1>6, <1>7, <1>11

LEMMA DialStep == DialInv /\ [Dial!Next]_dial => DialInv'
<1> SUFFICES ASSUME DialInv, [Dial!Next]_dial PROVE DialInv'
  OBVIOUS
<1>0. Dial!TypeOK /\ addrIdx \in [Dial!Profiles -> Nat] /\ cur \in Dial!Profiles
  BY DEF DialInv, Dial!TypeOK
<1>f. ASSUME NEW n \in Nat, NEW c \in [Dial!Profiles -> Nat],
             \A q \in Dial!Profiles : c[q] <= cool[q], Dial!Fail(cur, n, c),
             UNCHANGED <<works, calm, wait, cur, lived>>, phase' = "wait"
      PROVE  DialInv'
  <2>1. \A q \in Dial!Profiles :
          addrIdx'[q] \in 0..[p \in Dial!Profiles |-> IF p = 1 THEN 1 ELSE 0][q]
    BY <1>0, <1>f, FailTypes
  <2>2. QED
    BY <1>0, <1>f, <2>1, FailTypes, DialBounds DEF DialInv, Dial!TypeOK, Dial!Paths, Dial!Profiles
<1>c. cool \in [Dial!Profiles -> Nat] /\ \A q \in Dial!Profiles : cool[q] <= cool[q]
  BY <1>0 DEF Dial!TypeOK
<1>1. CASE Dial!DialFails
  <2>1. PICK t \in 0..DialMax : Dial!Fail(cur, 1, Dial!Elapsed(t))
    BY <1>1 DEF Dial!DialFails
  <2>2. t \in Nat
    BY DialBounds
  <2>3. QED
    BY <1>1, <1>f, <2>1, <2>2, ElapsedDown DEF Dial!DialFails, Dial!env
<1>2. CASE Dial!Connect
  BY <1>0, <1>2, DialBounds DEF DialInv, Dial!TypeOK, Dial!Connect, Dial!env
<1>3. CASE Dial!Live
  <2>1. lived' \in 0..ShortLived
    BY <1>0, <1>3, DialBounds DEF Dial!TypeOK, Dial!Live, Dial!Lower
  <2>2. cool' \in [Dial!Profiles -> Nat] /\ \A q \in Dial!Profiles : cool'[q] <= cool[q]
    BY <1>3, ElapsedDown DEF Dial!Live
  <2>3. \A q \in Dial!Profiles : cool'[q] <= failCount[q]
    BY <1>0, <2>2, DialBounds DEF Dial!TypeOK
  <2>4. QED
    BY <1>0, <1>3, <2>1, <2>2, <2>3 DEF DialInv, Dial!TypeOK, Dial!Live, Dial!env
<1>4. CASE Dial!EndsWell
  <2>1. failCount' = [failCount EXCEPT ![cur] = 0] /\ cool' = [cool EXCEPT ![cur] = 0]
    BY <1>4 DEF Dial!EndsWell
  <2>2. failCount' \in [Dial!Profiles -> 0..MaxCool] /\ cool' \in [Dial!Profiles -> Nat]
        /\ \A q \in Dial!Profiles : cool'[q] <= failCount'[q]
    BY <1>0, <2>1, DialBounds DEF Dial!TypeOK
  <2>3. QED
    BY <1>0, <1>4, <2>2, DialBounds DEF DialInv, Dial!TypeOK, Dial!EndsWell, Dial!env
<1>5. CASE Dial!EndsEarly
  BY <1>5, <1>c, <1>f DEF Dial!EndsEarly, Dial!env
<1>6. CASE Dial!Degrades
  BY <1>6, <1>c, <1>f DEF Dial!Degrades, Dial!env
<1>7. CASE Dial!Wait
  <2>1. wait \in Nat /\ wait' \in RetryMin..RetryMax
    BY <1>0, <1>7, DialBounds DEF Dial!TypeOK, Dial!Wait, Dial!Lower
  <2>2. cool' \in [Dial!Profiles -> Nat] /\ \A q \in Dial!Profiles : cool'[q] <= cool[q]
    BY <1>7, <2>1, ElapsedDown DEF Dial!Wait
  <2>3. \A q \in Dial!Profiles : cool'[q] <= failCount[q]
    BY <1>0, <2>2, DialBounds DEF Dial!TypeOK
  <2>4. cur' \in Dial!Profiles
    BY <1>7, PickIn DEF Dial!Wait
  <2>5. QED
    BY <1>0, <1>7, <2>1, <2>2, <2>3, <2>4 DEF DialInv, Dial!TypeOK, Dial!Wait, Dial!env
<1>8. CASE Dial!NetworkChanges
  BY <1>0, <1>8 DEF DialInv, Dial!TypeOK, Dial!NetworkChanges, Dial!env
<1>9. CASE UNCHANGED dial
  BY <1>0, <1>9 DEF dial, DialInv, Dial!TypeOK
<1>10. QED
  BY <1>1, <1>2, <1>3, <1>4, <1>5, <1>6, <1>7, <1>8, <1>9 DEF Dial!Next, Dial!Run

LEMMA DialInit == Dial!Init => DialInv
<1> SUFFICES ASSUME Dial!Init PROVE DialInv
  OBVIOUS
<1>1. works \subseteq Dial!Paths /\ calm \in BOOLEAN
  BY DEF Dial!Init
<1>2. /\ failCount = [p \in Dial!Profiles |-> 0] /\ cool = [p \in Dial!Profiles |-> 0]
      /\ addrIdx = [p \in Dial!Profiles |-> 0]
      /\ wait = RetryMin /\ phase = "dial" /\ cur = 1 /\ lived = 0
  BY DEF Dial!Init
<1>3. /\ failCount \in [Dial!Profiles -> 0..MaxCool] /\ cool \in [Dial!Profiles -> Nat]
      /\ addrIdx \in [Dial!Profiles -> Nat]
      /\ \A p \in Dial!Profiles : cool[p] <= failCount[p]
  BY <1>2, DialBounds
<1>4. \A q \in Dial!Profiles :
        addrIdx[q] \in 0..[p \in Dial!Profiles |-> IF p = 1 THEN 1 ELSE 0][q]
  BY <1>2
<1>5. wait \in RetryMin..RetryMax /\ cur \in Dial!Profiles /\ lived \in 0..ShortLived
      /\ phase \in {"dial", "up", "wait"}
  BY <1>2, DialBounds
<1>6. QED
  BY <1>1, <1>3, <1>4, <1>5 DEF DialInv, Dial!TypeOK, Dial!Profiles

-------------------------------------------------------------------------------
(* RttProbe: the types.  Pings in flight are one heartbeat apart, and the  *)
(* stamp is the last one's.                                                *)

Flying == [age : Nat, left : Nat]
Probe == TypeOK /\ flight \in Seq(Flying)

LEMMA Spaced == ASSUME NEW k \in Int PROVE Heartbeat * (k + 1) = Heartbeat + Heartbeat * k
BY ProbeAssumption

LEMMA PingTypes == ASSUME Probe, Ping PROVE Probe'
<1> DEFINE last == IF flight = <<>> THEN 0 ELSE flight[Len(flight)].left
<1>1. PICK d \in Delays :
        flight' = Append(flight, [age |-> 0, left |-> IF d < last THEN last ELSE d])
  BY DEF Ping
<1> DEFINE e == [age |-> 0, left |-> IF d < last THEN last ELSE d]
<1>2. e \in Flying /\ e.age = 0
  <2>1. d \in Nat
    BY ProbeAssumption
  <2>2. ASSUME flight # <<>> PROVE flight[Len(flight)] \in Flying
    BY <2>2, EmptySeq, ElementOfSeq DEF Probe
  <2>3. last \in Nat
    BY <2>2 DEF Flying
  <2>4. QED
    BY <2>1, <2>3 DEF Flying
<1> HIDE DEF e, last
<1>3. flight \in Seq(Flying) /\ Len(flight) \in Nat
  BY DEF Probe
<1>4. flight' = Append(flight, e)
  BY <1>1 DEF e
<1>5. /\ flight' \in Seq(Flying) /\ Len(flight') = Len(flight) + 1
      /\ flight'[Len(flight) + 1] = e /\ \A i \in 1..Len(flight) : flight'[i] = flight[i]
  BY <1>2, <1>3, <1>4, AppendProperties
<1>6. sincePing = Heartbeat /\ sincePing' = 0 /\ Heartbeat \in Nat
  BY ProbeAssumption DEF Ping
<1>7. ASSUME NEW i \in DOMAIN flight'
      PROVE  /\ flight'[i].age \in Nat /\ flight'[i].left \in Nat
             /\ flight'[i].age = sincePing' + Heartbeat * (Len(flight') - i)
  <2>1. i \in 1..(Len(flight) + 1) /\ flight'[i] \in Flying
    BY <1>3, <1>5
  <2>2. CASE i = Len(flight) + 1
    <3>1. Len(flight') - i = 0 /\ Heartbeat * 0 = 0
      BY <2>2, <1>3, <1>5, <1>6
    <3>2. QED
      BY <2>1, <2>2, <3>1, <1>2, <1>5, <1>6 DEF Flying
  <2>3. CASE i \in 1..Len(flight)
    <3>1. flight[i].age = Heartbeat + Heartbeat * (Len(flight) - i)
      BY <2>3, <1>3, <1>6 DEF Probe, TypeOK
    <3>2. Len(flight') - i = (Len(flight) - i) + 1 /\ Len(flight) - i \in Int
      BY <2>3, <1>3, <1>5
    <3>3. Heartbeat * (Len(flight') - i) = Heartbeat + Heartbeat * (Len(flight) - i)
      BY <3>2, Spaced
    <3>4. Heartbeat * (Len(flight) - i) \in Int
      BY <3>2, <1>6
    <3>5. QED
      BY <2>1, <2>3, <3>1, <3>3, <3>4, <1>5, <1>6 DEF Flying
  <2>4. QED
    BY <2>1, <2>2, <2>3, <1>3
<1>8. QED
  BY <1>5, <1>6, <1>7 DEF Ping, Probe, TypeOK

LEMMA PongTypes == ASSUME Probe, Pong PROVE Probe'
<1>0. flight \in Seq(Flying) /\ flight # <<>> /\ flight' = Tail(flight)
  BY DEF Probe, Pong
<1>1. /\ flight' \in Seq(Flying) /\ Len(flight') = Len(flight) - 1 /\ Len(flight) \in Nat \ {0}
      /\ Head(flight) \in Flying
      /\ \A i \in 1..Len(flight') : flight'[i] = flight[i + 1] /\ i + 1 \in 1..Len(flight)
  BY <1>0, HeadTailProperties, EmptySeq
<1>2. ASSUME NEW i \in DOMAIN flight'
      PROVE  /\ flight'[i].age \in Nat /\ flight'[i].left \in Nat
             /\ flight'[i].age = sincePing' + Heartbeat * (Len(flight') - i)
  <2>1. i \in 1..Len(flight') /\ i + 1 \in DOMAIN flight
    BY <1>0, <1>1
  <2>2. Len(flight) - (i + 1) = Len(flight') - i
    <3>1. Len(flight) \in Int /\ i \in Int /\ Len(flight') = Len(flight) - 1
      BY <1>1, <2>1
    <3>2. QED
      BY <3>1
  <2>3. flight'[i] = flight[i + 1] /\ sincePing' = sincePing
    BY <1>1, <2>1 DEF Pong
  <2>4. QED
    BY <2>1, <2>2, <2>3 DEF Probe, TypeOK
<1>3. Head(flight).age \in Nat /\ sincePing \in Nat /\ badStreak \in Nat /\ slow \in 0..SlowBound
  BY <1>1, ProbeAssumption DEF Flying, Probe, TypeOK, SlowBound
<1>4. slow' \in 0..SlowBound
  BY <1>3, ProbeAssumption DEF Pong, NextSlow, SlowBound
<1>5. badStreak < DegradedStreak
  <2>1. degraded = (badStreak = DegradedStreak) /\ ~degraded
    BY DEF Probe, TypeOK, Pong
  <2>2. badStreak # DegradedStreak
    BY <2>1
  <2>3. QED
    BY <2>2, ProbeAssumption DEF Probe, TypeOK
<1>6. badStreak' \in 0..DegradedStreak
  BY <1>3, <1>5, ProbeAssumption DEF Pong
<1>7. degraded' = (badStreak' = DegradedStreak)
  <2>1. (badStreak' >= DegradedStreak) <=> (badStreak' = DegradedStreak)
    BY <1>6, ProbeAssumption
  <2>2. QED
    BY <2>1, Zenon DEF Pong
<1>8. sincePing' = sincePing /\ sincePing \in 0..Heartbeat
  BY DEF Pong, Probe, TypeOK
<1>9. QED
  BY <1>1, <1>2, <1>4, <1>6, <1>7, <1>8 DEF Probe, TypeOK, SlowBound

LEMMA SecondTypes == ASSUME Probe, Second PROVE Probe'
<1> DEFINE n == Len(flight)
<1>0. flight \in Seq(Flying) /\ n \in Nat /\ DOMAIN flight = 1..n
  BY DEF Probe
<1>1. sincePing \in Nat /\ sincePing' = sincePing + 1 /\ sincePing' \in 0..Heartbeat
  BY ProbeAssumption DEF Probe, TypeOK, Second
<1>2. /\ flight' = [i \in 1..n |-> [age |-> flight[i].age + 1, left |-> flight[i].left - 1]]
      /\ \A i \in 1..n : flight[i] \in Flying /\ flight[i].left > 0
  <2>1. \A i \in 1..n : flight[i] \in Flying
    BY <1>0
  <2>2. QED
    BY <1>0, <2>1 DEF Second
<1>3. \A i \in 1..n : [age |-> flight[i].age + 1, left |-> flight[i].left - 1] \in Flying
  BY <1>2 DEF Flying
<1>4. flight' \in Seq(Flying) /\ Len(flight') = n /\ DOMAIN flight' = 1..n
  BY <1>0, <1>2, <1>3
<1>5. ASSUME NEW i \in DOMAIN flight'
      PROVE  /\ flight'[i].age \in Nat /\ flight'[i].left \in Nat
             /\ flight'[i].age = sincePing' + Heartbeat * (Len(flight') - i)
  <2>1. i \in 1..n /\ flight'[i] = [age |-> flight[i].age + 1, left |-> flight[i].left - 1]
    BY <1>2, <1>4
  <2>2. flight[i].age = sincePing + Heartbeat * (n - i) /\ flight'[i] \in Flying
    BY <1>0, <1>3, <2>1 DEF Probe, TypeOK
  <2>3. Heartbeat * (n - i) \in Int
    BY <1>0, <2>1, ProbeAssumption
  <2>4. flight[i].age \in Nat /\ flight'[i].age = flight[i].age + 1
        /\ flight'[i].age \in Nat /\ flight'[i].left \in Nat
    BY <1>2, <2>1, <2>2 DEF Flying
  <2>5. Len(flight') - i = n - i
    BY <1>4
  <2>6. QED
    BY <1>1, <2>2, <2>3, <2>4, <2>5
<1>6. QED
  BY <1>1, <1>4, <1>5 DEF Second, Probe, TypeOK, SlowBound

LEMMA ProbeInit == Init => Probe
<1> SUFFICES ASSUME Init PROVE Probe
  OBVIOUS
<1>1. flight = <<>> /\ flight \in Seq(Flying) /\ DOMAIN flight = {}
  BY DEF Init
<1>2. (badStreak = DegradedStreak) = FALSE
  BY ProbeAssumption DEF Init
<1>3. degraded = (badStreak = DegradedStreak)
  BY <1>2, Zenon DEF Init
<1>4. QED
  BY <1>1, <1>3, ProbeAssumption DEF Init, Probe, TypeOK, SlowBound

LEMMA ProbeStep == Probe /\ [Next]_vars => Probe'
<1>1. Probe /\ UNCHANGED vars => Probe'
  BY DEF vars, Probe, TypeOK, SlowBound
<1>2. QED
  BY <1>1, PingTypes, PongTypes, SecondTypes DEF Next

-------------------------------------------------------------------------------
\* The loops side by side: the types of three of them, and the even rotation of
\* backendpool.go, in every behaviour the run checks.
THEOREM RotationSafe == LoopSpec => []RoundRobin
<1> DEFINE I == Probe /\ PoolInv /\ DialInv
<1>1. LoopInit => I
  BY ProbeInit, PoolInit, DialInit DEF LoopInit
<1>2. I /\ [LoopNext]_<<vars, pool, dial, flow, loop>> => I'
  <2> SUFFICES ASSUME I, [LoopNext]_<<vars, pool, dial, flow, loop>> PROVE I'
    OBVIOUS
  <2>1. [Next]_vars /\ [Pool!Next]_pool /\ [Dial!Next]_dial
    BY DEF LoopNext
  <2>2. QED
    BY <2>1, ProbeStep, PoolStep, DialStep
<1>3. I => RoundRobin
  BY InTurnEven DEF Probe, PoolInv, DialInv, RoundRobin, TypesOK
<1>4. QED
  BY <1>1, <1>2, <1>3, PTL DEF LoopSpec

===============================================================================

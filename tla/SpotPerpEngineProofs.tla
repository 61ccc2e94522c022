------------------------ MODULE SpotPerpEngineProofs ------------------------
(***************************************************************************)
(* What the spot/perp strategy keeps, for every setting and any number of  *)
(* orders: what it takes its spot holding for differs from the holding by  *)
(* what is in flight and what was cut, and a pair that closes takes no new *)
(* risk.                                                                   *)
(***************************************************************************)
EXTENDS SpotPerpEngine, TwoLegsProofs, WellFoundedInduction

(* Sums.  A set of numbers that is not empty has a least one, so a set that  *)
(* has 0 and the successor of each of its numbers has every number.          *)
LEMMA LeastNumber ==
  ASSUME NEW T \in SUBSET Nat, T # {}
  PROVE  \E x \in T : \A y \in T : x <= y
<1> DEFINE R == {ss \in Nat \X Nat : ss[1] < ss[2]}
<1>1. R = OpToRel(<, Nat)
  BY DEF OpToRel
<1>2. IsWellFoundedOn(R, Nat)
  BY <1>1, NatLessThanWellFounded
<1>3. PICK x \in T : \A y \in T : ~(<<y, x>> \in R)
  <2> HIDE DEF R
  <2> QED
    BY <1>2, WFMin
<1>4. ASSUME NEW y \in T
      PROVE  x <= y
  <2>1. x \in Nat /\ y \in Nat
    OBVIOUS
  <2>2. ~(y < x)
    BY <1>3, <2>1
  <2> QED
    BY <2>1, <2>2
<1> QED
  BY <1>4

LEMMA SetInduction ==
  ASSUME NEW S, 0 \in S, \A n \in Nat : n \in S => n + 1 \in S
  PROVE  Nat \subseteq S
<1> SUFFICES ASSUME Nat \ S # {}
             PROVE  FALSE
  OBVIOUS
<1>1. PICK x \in Nat \ S : \A y \in Nat \ S : x <= y
  <2>1. Nat \ S \in SUBSET Nat
    OBVIOUS
  <2> QED
    BY <2>1, LeastNumber
<1>2. x # 0 /\ x - 1 \in Nat /\ x - 1 \notin Nat \ S
  BY <1>1
<1>3. (x - 1) + 1 = x
  BY <1>1
<1> QED
  BY <1>1, <1>2, <1>3

(* g gives the sums of the first n of f, for each n. *)
Sums(f, g, n) ==
  /\ g \in [0..n -> Int]
  /\ \A i \in 0..n : g[i] = IF i = 0 THEN 0 ELSE g[i - 1] + f[i]

LEMMA SumsExist ==
  ASSUME NEW f \in [1..MaxOrders -> Int]
  PROVE  \E g : Sums(f, g, MaxOrders)
<1> DEFINE S == {n \in Nat : n <= MaxOrders => \E g : Sums(f, g, n)}
<1>0. MaxOrders \in Nat \ {0}
  BY TwoLegsAssumption
<1>1. 0 \in S
  <2>1. Sums(f, [i \in 0..0 |-> 0], 0)
    BY DEF Sums
  <2> QED
    BY <2>1
<1>2. ASSUME NEW n \in Nat, n \in S
      PROVE  n + 1 \in S
  <2> SUFFICES ASSUME n + 1 <= MaxOrders
               PROVE  \E g : Sums(f, g, n + 1)
    OBVIOUS
  <2>1. PICK g : Sums(f, g, n)
    BY <1>0, <1>2
  <2> DEFINE h == [i \in 0..n + 1 |-> IF i = n + 1 THEN g[n] + f[i] ELSE g[i]]
  <2>2. f[n + 1] \in Int /\ n \in 0..n
    BY <1>0
  <2>3. h \in [0..n + 1 -> Int]
    BY <2>1, <2>2 DEF Sums
  <2>4. ASSUME NEW i \in 0..n + 1
        PROVE  h[i] = IF i = 0 THEN 0 ELSE h[i - 1] + f[i]
    <3>1. CASE i = n + 1
      BY <2>2, <3>1
    <3>2. CASE i # n + 1
      BY <2>1, <3>2 DEF Sums
    <3> QED
      BY <3>1, <3>2
  <2> HIDE DEF h
  <2> QED
    BY <2>3, <2>4 DEF Sums
<1>3. Nat \subseteq S
  <2> HIDE DEF S
  <2> QED
    BY <1>1, <1>2, SetInduction
<1> QED
  BY <1>0, <1>3

(* Sum is what the recursion of its definition says. *)
LEMMA SumIsLast ==
  ASSUME NEW f \in [1..MaxOrders -> Int]
  PROVE  \E g : Sums(f, g, MaxOrders) /\ Sum(f) = g[MaxOrders]
<1> DEFINE sum == CHOOSE sum : sum = [i \in 0..MaxOrders |->
                                        IF i = 0 THEN 0 ELSE sum[i - 1] + f[i]]
<1>0. MaxOrders \in Nat \ {0}
  BY TwoLegsAssumption
<1>1. PICK g : Sums(f, g, MaxOrders)
  BY SumsExist
<1>2. g = [i \in 0..MaxOrders |-> IF i = 0 THEN 0 ELSE g[i - 1] + f[i]]
  BY <1>1 DEF Sums
<1>3. sum = [i \in 0..MaxOrders |-> IF i = 0 THEN 0 ELSE sum[i - 1] + f[i]]
  BY <1>2
<1>4. Sum(f) = sum[MaxOrders]
  BY DEF Sum
<1> HIDE DEF sum
<1> DEFINE S == {n \in Nat : n <= MaxOrders => sum[n] = g[n]}
<1>5. 0 \in S
  BY <1>0, <1>1, <1>3 DEF Sums
<1>6. ASSUME NEW n \in Nat, n \in S
      PROVE  n + 1 \in S
  <2> SUFFICES ASSUME n + 1 <= MaxOrders
               PROVE  sum[n + 1] = g[n + 1]
    OBVIOUS
  <2>1. n + 1 \in 0..MaxOrders /\ n + 1 # 0 /\ (n + 1) - 1 = n /\ sum[n] = g[n]
    BY <1>0, <1>6
  <2>2. sum[n + 1] = sum[n] + f[n + 1]
    BY <1>3, <2>1
  <2>3. g[n + 1] = g[n] + f[n + 1]
    BY <1>1, <2>1 DEF Sums
  <2> QED
    BY <2>1, <2>2, <2>3
<1>7. Nat \subseteq S
  <2> HIDE DEF S
  <2> QED
    BY <1>5, <1>6, SetInduction
<1>8. sum[MaxOrders] = g[MaxOrders]
  BY <1>0, <1>7
<1> QED
  BY <1>1, <1>4, <1>8

(* A sum changes by as much as the one element that changes. *)
LEMMA SumChanges ==
  ASSUME NEW f \in [1..MaxOrders -> Int], NEW h \in [1..MaxOrders -> Int],
         NEW j \in 1..MaxOrders, \A i \in 1..MaxOrders : i # j => h[i] = f[i]
  PROVE  Sum(f) \in Int /\ Sum(h) = Sum(f) + h[j] - f[j]
<1>0. MaxOrders \in Nat \ {0}
  BY TwoLegsAssumption
<1>1. PICK a : Sums(f, a, MaxOrders) /\ Sum(f) = a[MaxOrders]
  BY SumIsLast
<1>2. PICK b : Sums(h, b, MaxOrders) /\ Sum(h) = b[MaxOrders]
  BY SumIsLast
<1>3. /\ \A i \in 0..MaxOrders : a[i] \in Int /\ b[i] \in Int
      /\ f[j] \in Int /\ h[j] \in Int
  BY <1>1, <1>2 DEF Sums
<1> DEFINE S == {n \in Nat : n <= MaxOrders => b[n] = IF n < j THEN a[n] ELSE a[n] + h[j] - f[j]}
<1>4. 0 \in S
  BY <1>0, <1>1, <1>2 DEF Sums
<1>5. ASSUME NEW n \in Nat, n \in S
      PROVE  n + 1 \in S
  <2> SUFFICES ASSUME n + 1 <= MaxOrders
               PROVE  b[n + 1] = IF n + 1 < j THEN a[n + 1] ELSE a[n + 1] + h[j] - f[j]
    OBVIOUS
  <2>1. /\ n + 1 \in 0..MaxOrders /\ n \in 0..MaxOrders /\ n + 1 # 0 /\ (n + 1) - 1 = n
        /\ n + 1 \in 1..MaxOrders
    BY <1>0
  <2>2. b[n] = IF n < j THEN a[n] ELSE a[n] + h[j] - f[j]
    BY <1>5, <2>1
  <2>3. a[n + 1] = a[n] + f[n + 1] /\ b[n + 1] = b[n] + h[n + 1]
    BY <1>1, <1>2, <2>1 DEF Sums
  <2>4. a[n] \in Int /\ b[n] \in Int /\ f[n + 1] \in Int /\ h[n + 1] \in Int
    BY <1>3, <2>1
  <2>5. CASE n + 1 = j
    BY <1>3, <2>2, <2>3, <2>4, <2>5
  <2>6. CASE n + 1 # j
    <3>1. h[n + 1] = f[n + 1]
      BY <2>1, <2>6
    <3>2. n + 1 < j <=> n < j
      BY <2>6
    <3> QED
      BY <1>3, <2>2, <2>3, <2>4, <3>1, <3>2
  <2> QED
    BY <2>5, <2>6
<1>6. Nat \subseteq S
  <2> HIDE DEF S
  <2> QED
    BY <1>4, <1>5, SetInduction
<1>7. b[MaxOrders] = a[MaxOrders] + h[j] - f[j]
  BY <1>0, <1>6
<1>8. a[MaxOrders] \in Int
  BY <1>0, <1>3
<1> QED
  BY <1>1, <1>2, <1>7, <1>8

-----------------------------------------------------------------------------
(* A slot without an order tells of no spot order either. *)
FreeIsUntold == \A i \in 1..MaxOrders : orders["long"][i] = NoOrder => spot[i].asked = 0

TrackedWillReport == \A s \in tracked : orders[s[1]][s[2]].state # "free"

Inv == TypeOK /\ TrackedWillReport /\ FreeIsUntold /\ HoldingIsAccounted

SpotOrders == [1..MaxOrders -> [asked : Int, said : Int]]

(* Of a step: what the strategy changes stays typed ... *)
StrategyTyped ==
  /\ orders' \in Orders(Int)
  /\ InUse(orders', tracked')
  /\ status' \in PairStatus
  /\ spot' \in SpotOrders
  /\ \A i \in 1..MaxOrders : orders'["long"][i] = NoOrder => spot'[i].asked = 0

(* ... its spot orders have filled what those in os had filled ... *)
FlightFrom(os) ==
  \A i \in 1..MaxOrders :
    spot'[i].asked - orders'["long"][i].left =
      IF os["long"][i] = NoOrder THEN 0 ELSE spot[i].asked - os["long"][i].left

(* ... and what it opens is to close the pair, whose sizes are s. *)
NewCloses(s) ==
  \A l \in Leg, i \in 1..MaxOrders :
    IsNew(l, i) => IF l = "short" THEN orders'[l][i].type = "close"
                   ELSE orders'[l][i].left <= 0 \/ s["long"] < 0

(* Orders of which the strategy starts that have filled what there was. *)
SameFlight(os) ==
  \A i \in 1..MaxOrders :
    /\ os["long"][i] = NoOrder => orders["long"][i] = NoOrder
    /\ os["long"][i].left = orders["long"][i].left

LEMMA InvParts ==
  ASSUME Inv
  PROVE  /\ setting \in Settings /\ orders \in Orders(Int) /\ InUse(orders, tracked)
         /\ size \in [Leg -> Int] /\ size["short"] \in Sizes(MaxSize)
         /\ position \in [Leg -> Sizes(MaxSize)]
         /\ forced \subseteq Slot /\ tracked \subseteq Slot
         /\ status \in PairStatus /\ schedule \in {NoSchedule} \cup 0..Chunks
         /\ spot \in SpotOrders
         /\ \A i \in 1..MaxOrders : orders["long"][i] = NoOrder => spot[i].asked = 0
BY DEF Inv, TypeOK, Orders, InUse, TrackedWillReport, SpotOrders, FreeIsUntold

-----------------------------------------------------------------------------
(* Sizes may be any number. *)
LEMMA RoundedDownType ==
  ASSUME NEW k \in Int, NEW n \in Nat \ {0}
  PROVE  RoundedDown(k, n) \in Int /\ (k <= 0 => RoundedDown(k, n) <= 0)
<1>1. \A j \in Nat : j \div n \in 0..j
  OBVIOUS
<1>2. CASE k < 0
  <2>1. Abs(k) \in Nat
    BY <1>2 DEF Abs
  <2>2. Abs(k) \div n \in 0..Abs(k)
    BY <1>1, <2>1
  <2> QED
    BY <1>2, <2>1, <2>2 DEF RoundedDown
<1>3. CASE ~(k < 0)
  <2>1. k \in Nat
    BY <1>3
  <2>2. k \div n \in 0..k
    BY <1>1, <2>1
  <2>3. k = 0 => k \div n = 0
    BY <2>2
  <2> QED
    BY <1>3, <2>1, <2>2, <2>3 DEF RoundedDown
<1> QED
  BY <1>2, <1>3

LEMMA SpotChunkType ==
  ASSUME NEW n \in Nat \ {0}, NEW s \in [Leg -> Int]
  PROVE  /\ ChunkOf(n, s) \in [Leg -> Int]
         /\ ChunkOf(n, s)["long"] <= 0 \/ s["long"] < 0
<1>1. \A l \in Leg : -s[l] \in Int
  OBVIOUS
<1>2. ChunkOf(n, s) \in [Leg -> Int]
  BY <1>1, RoundedDownType DEF ChunkOf
<1>3. ChunkOf(n, s)["long"] = RoundedDown(-s["long"], n) /\ s["long"] \in Int
  BY LegHas DEF ChunkOf
<1>4. s["long"] >= 0 => -s["long"] <= 0 /\ -s["long"] \in Int
  BY <1>3
<1>5. s["long"] >= 0 => ChunkOf(n, s)["long"] <= 0
  BY <1>3, <1>4, RoundedDownType
<1> QED
  BY <1>2, <1>3, <1>5

LEMMA SpotCloseType ==
  ASSUME NEW s \in [Leg -> Int]
  PROVE  /\ CloseSizes(s) \in [Leg -> Int]
         /\ CloseSizes(s)["long"] <= 0 \/ s["long"] < 0
<1>1. CloseSizes(s)["long"] = -s["long"] /\ s["long"] \in Int
  BY LegHas DEF CloseSizes
<1> QED
  BY <1>1 DEF CloseSizes

LEMMA SpotUnwindType ==
  ASSUME setting \in Settings, NEW s \in [Leg -> Int],
         schedule \in {NoSchedule} \cup 0..Chunks
  PROVE  /\ UnwindSizes(s) \in [Leg -> Int]
         /\ UnwindSizes(s)["long"] <= 0 \/ s["long"] < 0
         /\ Advance(schedule) \in {NoSchedule} \cup 0..Chunks
<1>1. Chunks \in Nat
  BY SettingParts
<1>2. schedule \in Int /\ (schedule > 0 => schedule \in Nat \ {0})
  BY <1>1 DEF NoSchedule
<1>3. Advance(schedule) \in {NoSchedule} \cup 0..Chunks
  BY <1>1, <1>2 DEF Advance, NoSchedule
<1> QED
  BY <1>2, <1>3, SpotChunkType, SpotCloseType DEF UnwindSizes, UnwindAll

LEMMA SpotRecoveryType ==
  ASSUME NEW s \in [Leg -> Int]
  PROVE  RecoverySizes(s) \in [Leg -> Int]
<1>1. \A l \in Leg : Other(l) \in Leg
  BY DEF Leg, Other
<1>2. \A l \in Leg : Abs(s[Other(l)]) \in Int
  BY <1>1 DEF Abs
<1> QED
  BY <1>2 DEF RecoverySizes

-----------------------------------------------------------------------------
(* What a dispatch leaves, from orders that opened none before it. *)
LEMMA DispatchKeeps ==
  ASSUME Inv, NEW os \in Orders(Int), NEW trk, InUse(os, trk), OpensNone(orders, os),
         NEW base \in PairStatus, NEW next \in DOMAIN PaperStatus, next \in PairStatus,
         NEW perp \in OrderType, NEW asks \in SUBSET Leg, NEW want \in [Leg -> Int],
         DispatchEach(os, trk, base, perp, asks, want, next)
  PROVE  /\ StrategyTyped /\ FlightFrom(os)
         /\ \A s : perp = "close" /\ (want["long"] <= 0 \/ s["long"] < 0) => NewCloses(s)
<1> DEFINE type == [l \in Leg |-> IF l = "long" THEN "limit" ELSE perp]
<1>1. type \in [Leg -> OrderType] /\ type["short"] = perp
  BY LegHas DEF OrderType, Leg
<1>2. PaperStatus[next] \in PairStatus
  BY DEF PaperStatus, PairStatus, Transitional
<1>3. /\ orders' \in Orders(Int) /\ InUse(orders', tracked') /\ status' \in PairStatus
      /\ OnlyPlaces(os, orders', type, asks, want)
  <2>1. CASE paper
    <3>1. orders' = os /\ tracked' = trk /\ status' = PaperStatus[next]
      BY <2>1 DEF DispatchEach
    <3> QED
      BY <1>2, <3>1 DEF OnlyPlaces
  <2>2. CASE ~paper
    <3>1. DispatchIf(Covered(os, want), os, trk, base, type, asks, want, next)
      BY <2>2 DEF DispatchEach
    <3> HIDE DEF type
    <3> QED
      BY <1>1, <3>1, DispatchPlaces
  <2> QED
    BY <2>1, <2>2
<1>4. RecordSpot(os, want["long"]) /\ want["long"] \in Int
  BY LegHas DEF DispatchEach
<1>5. ASSUME NEW i \in 1..MaxOrders
      PROVE  /\ spot'[i] \in [asked : Int, said : Int]
             /\ orders'["long"][i] = NoOrder => spot'[i].asked = 0
             /\ spot'[i].asked - orders'["long"][i].left =
                  IF os["long"][i] = NoOrder THEN 0 ELSE spot[i].asked - os["long"][i].left
  <2>1. spot'[i] = IF orders'["long"][i] = NoOrder THEN Untold
                   ELSE IF os["long"][i] = NoOrder THEN [asked |-> want["long"], said |-> 0]
                   ELSE spot[i]
    BY <1>4 DEF RecordSpot
  <2>2. Untold \in [asked : Int, said : Int] /\ Untold.asked = 0 /\ NoOrder.left = 0
        /\ NoOrder.state = "free"
    BY DEF Untold, NoOrder
  <2>3. spot[i] \in [asked : Int, said : Int]
    BY InvParts DEF SpotOrders
  <2>4. \/ orders'["long"][i] = os["long"][i]
        \/ /\ os["long"][i] = NoOrder /\ orders'["long"][i].left = want["long"]
           /\ orders'["long"][i].state = "open"
    BY <1>3, LegHas DEF OnlyPlaces
  <2>5. CASE orders'["long"][i] = NoOrder
    BY <2>1, <2>2, <2>4, <2>5
  <2>6. CASE orders'["long"][i] # NoOrder /\ os["long"][i] = NoOrder
    BY <1>4, <2>1, <2>4, <2>6
  <2>7. CASE orders'["long"][i] # NoOrder /\ os["long"][i] # NoOrder
    BY <2>1, <2>3, <2>4, <2>7
  <2> QED
    BY <2>5, <2>6, <2>7
<1>6. spot' \in SpotOrders
  BY <1>4, <1>5 DEF RecordSpot, SpotOrders
<1>7. ASSUME NEW s, perp = "close", want["long"] <= 0 \/ s["long"] < 0
      PROVE  NewCloses(s)
  <2> SUFFICES ASSUME NEW l \in Leg, NEW i \in 1..MaxOrders, IsNew(l, i)
               PROVE  IF l = "short" THEN orders'[l][i].type = "close"
                      ELSE orders'[l][i].left <= 0 \/ s["long"] < 0
    BY DEF NewCloses
  <2>1. orders'[l][i] # os[l][i]
    BY DEF IsNew, OpensNone
  <2>2. orders'[l][i].type = type[l] /\ orders'[l][i].left = want[l]
    BY <1>3, <2>1 DEF OnlyPlaces
  <2> QED
    BY <1>1, <1>7, <2>2, LegHas
<1> QED
  BY <1>3, <1>5, <1>6, <1>7 DEF StrategyTyped, FlightFrom

LEMMA NoActionKeeps ==
  ASSUME Inv, NEW os \in Orders(Int), NEW trk, InUse(os, trk), OpensNone(orders, os),
         NEW base \in PairStatus, NoAction(os, trk, base)
  PROVE  StrategyTyped /\ FlightFrom(os) /\ \A s : NewCloses(s)
<1>1. /\ orders' = os /\ tracked' = trk /\ status' = base
      /\ RecordSpot(os, 0)
  BY DEF NoAction
<1>2. ASSUME NEW i \in 1..MaxOrders
      PROVE  /\ spot'[i] \in [asked : Int, said : Int]
             /\ orders'["long"][i] = NoOrder => spot'[i].asked = 0
             /\ spot'[i].asked - orders'["long"][i].left =
                  IF os["long"][i] = NoOrder THEN 0 ELSE spot[i].asked - os["long"][i].left
  <2>1. spot'[i] = IF os["long"][i] = NoOrder THEN Untold ELSE spot[i]
    BY <1>1 DEF RecordSpot
  <2>2. Untold \in [asked : Int, said : Int] /\ Untold.asked = 0 /\ NoOrder.left = 0
    BY DEF Untold, NoOrder
  <2>3. spot[i] \in [asked : Int, said : Int]
    BY InvParts DEF SpotOrders
  <2> QED
    BY <1>1, <2>1, <2>2, <2>3
<1>3. spot' \in SpotOrders
  BY <1>1, <1>2 DEF RecordSpot, SpotOrders
<1> QED
  BY <1>1, <1>2, <1>3 DEF StrategyTyped, FlightFrom, NewCloses, IsNew, OpensNone

(* The engine's actions *)
LEMMA PlacesKeep ==
  ASSUME Inv, NEW os \in Orders(Int), NEW trk, InUse(os, trk), OpensNone(orders, os),
         NEW base \in PairStatus, NEW s \in [Leg -> Int], NEW want \in [Leg -> Int],
         \/ Enter(os, trk, base, want)
         \/ Rebalance(os, trk, base, want) /\ base = "Active"
         \/ Recover(os, trk, base, s)
  PROVE  StrategyTyped /\ FlightFrom(os)
<1>1. /\ {"Entering", "Active", "Recovering"} \subseteq DOMAIN PaperStatus
      /\ {"Entering", "Active", "Recovering"} \subseteq PairStatus
      /\ "market" \in OrderType
  BY DEF PaperStatus, PairStatus, Transitional, OrderType
<1>2. \A w : Sized(w) \in SUBSET Leg
  BY DEF Sized
<1>3. RecoverySizes(s) \in [Leg -> Int]
  BY SpotRecoveryType
<1>4. PICK w \in [Leg -> Int], next \in {"Entering", "Active", "Recovering"} :
        DispatchEach(os, trk, base, "market", Sized(w), w, next)
  BY <1>3 DEF Enter, Rebalance, Recover, DispatchLegs
<1> QED
  BY <1>1, <1>2, <1>4, DispatchKeeps

LEMMA ClosesKeep ==
  ASSUME Inv, NEW os \in Orders(Int), NEW trk, InUse(os, trk), OpensNone(orders, os),
         NEW base \in PairStatus, NEW s \in [Leg -> Int],
         NEW want \in [Leg -> Int], want["long"] <= 0 \/ s["long"] < 0,
         Exit(os, trk, base, s) \/ Unwind(os, trk, base, s, want)
  PROVE  StrategyTyped /\ FlightFrom(os) /\ NewCloses(s)
<1>1. /\ {"Exiting", "Unwinding"} \subseteq DOMAIN PaperStatus
      /\ {"Exiting", "Unwinding"} \subseteq PairStatus
      /\ "close" \in OrderType
  BY DEF PaperStatus, PairStatus, Transitional, OrderType
<1>2. \A w : Sized(w) \in SUBSET Leg
  BY DEF Sized
<1>3. CloseSizes(s) \in [Leg -> Int] /\ (CloseSizes(s)["long"] <= 0 \/ s["long"] < 0)
  BY SpotCloseType
<1>4. PICK w \in [Leg -> Int], v \in {s, CloseSizes(s)}, next \in {"Exiting", "Unwinding"} :
        /\ w["long"] <= 0 \/ s["long"] < 0
        /\ DispatchEach(os, trk, base, "close", Sized(v), w, next)
  BY <1>3 DEF Exit, Unwind, DispatchLegs
<1> QED
  BY <1>1, <1>2, <1>4, DispatchKeeps

-----------------------------------------------------------------------------
(* The rest of what a step of the strategy keeps, when the pair was in the   *)
(* status st and has the sizes s. *)
RestTyped == forced' \subseteq Slot /\ schedule' \in {NoSchedule} \cup 0..Chunks
ClosesFrom(st, s) == st \in {"Exiting", "Unwinding"} => NewCloses(s)

LEMMA TransitionsKeep ==
  ASSUME Inv, NEW os \in Orders(Int), NEW trk, InUse(os, trk), OpensNone(orders, os),
         NEW ended, NEW s \in [Leg -> Int], NEW st \in PairStatus,
         CheckTransitions(os, trk, ended, s, st)
  PROVE  StrategyTyped /\ FlightFrom(os) /\ RestTyped /\ ClosesFrom(st, s)
<1> USE DEF RestTyped, ClosesFrom
<1>1. /\ setting \in Settings /\ forced \subseteq Slot
      /\ schedule \in {NoSchedule} \cup 0..Chunks
  BY InvParts
<1>2. {"Active", "Inactive", "Entering", "Exiting", "Recovering", "Unwinding"} = PairStatus
  BY DEF PairStatus, Transitional
<1>3. /\ UnwindSizes(s) \in [Leg -> Int] /\ (UnwindSizes(s)["long"] <= 0 \/ s["long"] < 0)
      /\ Advance(schedule) \in {NoSchedule} \cup 0..Chunks
      /\ CloseSizes(s) \in [Leg -> Int] /\ (CloseSizes(s)["long"] <= 0 \/ s["long"] < 0)
  BY <1>1, SpotUnwindType, SpotCloseType
<1>4. CASE /\ NoAction(os, trk, st)
           /\ forced' = forced \ ended
           /\ UNCHANGED schedule
  BY <1>1, <1>4, NoActionKeeps
<1>5. CASE /\ st \in {"Entering", "Recovering"}
           /\ IF OneLegged(s) THEN Recover(os, trk, "Recovering", s)
              ELSE NoAction(os, trk, IF Entered(s) THEN "Active" ELSE "Recovering")
           /\ forced' = {}
           /\ UNCHANGED schedule
  <2>1. CASE Recover(os, trk, "Recovering", s)
    BY <1>1, <1>2, <1>5, <2>1, PlacesKeep
  <2>2. CASE NoAction(os, trk, IF Entered(s) THEN "Active" ELSE "Recovering")
    <3>1. (IF Entered(s) THEN "Active" ELSE "Recovering") \in PairStatus
      BY <1>2
    <3> QED
      BY <1>1, <1>5, <2>2, <3>1, NoActionKeeps
  <2> QED
    BY <1>5, <2>1, <2>2
<1>6. CASE /\ IF Exited(s) THEN NoAction(os, trk, "Inactive") ELSE Exit(os, trk, "Exiting", s)
           /\ forced' = {}
           /\ UNCHANGED schedule
  <2>1. CASE NoAction(os, trk, "Inactive")
    BY <1>1, <1>2, <1>6, <2>1, NoActionKeeps
  <2>2. CASE Exit(os, trk, "Exiting", s)
    BY <1>1, <1>2, <1>3, <1>6, <2>2, ClosesKeep
  <2> QED
    BY <1>6, <2>1, <2>2
<1>7. CASE /\ IF Exited(s)
              THEN NoAction(os, trk, "Inactive") /\ schedule' = NoSchedule
              ELSE /\ Unwind(os, trk, "Unwinding", s, UnwindSizes(s))
                   /\ schedule' = Advance(schedule)
           /\ forced' = {}
  <2>1. CASE NoAction(os, trk, "Inactive") /\ schedule' = NoSchedule
    BY <1>1, <1>2, <1>7, <2>1, NoActionKeeps
  <2>2. CASE Unwind(os, trk, "Unwinding", s, UnwindSizes(s)) /\ schedule' = Advance(schedule)
    BY <1>1, <1>2, <1>3, <1>7, <2>2, ClosesKeep
  <2> QED
    BY <1>7, <2>1, <2>2
<1> QED
  BY <1>4, <1>5, <1>6, <1>7 DEF CheckTransitions

-----------------------------------------------------------------------------
(* What the spot orders have filled, when those in os are *)
Flight(os, sp) == [i \in 1..MaxOrders |-> sp[i].asked - os["long"][i].left]

LEMMA HoldingIs ==
  ASSUME Inv
  PROVE  /\ Flight(orders, spot) \in [1..MaxOrders -> Int]
         /\ \A i \in 1..MaxOrders :
              /\ Flight(orders, spot)[i] = spot[i].asked - orders["long"][i].left
              /\ spot[i].asked \in Int /\ orders["long"][i].left \in Int
         /\ size["long"] - last = position["long"] - cut - Sum(Flight(orders, spot))
         /\ size["long"] \in Int /\ last \in Int /\ position["long"] \in Int /\ cut \in Int
         /\ Sum(Flight(orders, spot)) \in Int
<1>1. \A i \in 1..MaxOrders : spot[i].asked \in Int /\ orders["long"][i].left \in Int
  <2> TAKE i \in 1..MaxOrders
  <2>1. orders["long"][i] \in Order(Int) /\ NoOrder.left = 0
    BY InvParts, LegHas, OrderAt DEF NoOrder
  <2>2. orders["long"][i].left \in Int
    BY <2>1 DEF Order
  <2> QED
    BY <2>2, InvParts DEF SpotOrders
<1>2. Flight(orders, spot) \in [1..MaxOrders -> Int]
  BY <1>1 DEF Flight
<1>3. size["long"] - last = position["long"] - cut - Sum(Flight(orders, spot))
  BY DEF Inv, HoldingIsAccounted, Flight
<1>4. size["long"] \in Int /\ last \in Int /\ cut \in Int /\ position["long"] \in Int
  <2>1. MaxSize \in Nat
    BY InvParts, SettingParts
  <2> QED
    BY <2>1, InvParts, LegHas DEF Inv, TypeOK, Sizes
<1>5. Sum(Flight(orders, spot)) \in Int
  <2>1. 1 \in 1..MaxOrders
    BY TwoLegsAssumption
  <2> QED
    BY <1>2, <2>1, SumChanges
<1> QED
  BY <1>1, <1>2, <1>3, <1>4, <1>5 DEF Flight

(* From orders that have filled what there was, nothing is in flight that    *)
(* was not. *)
LEMMA FlightStays ==
  ASSUME Inv, NEW os, FlightFrom(os), SameFlight(os)
  PROVE  Flight(orders', spot') = Flight(orders, spot)
<1>1. ASSUME NEW i \in 1..MaxOrders
      PROVE  spot'[i].asked - orders'["long"][i].left = spot[i].asked - orders["long"][i].left
  <2>1. CASE os["long"][i] = NoOrder
    <3>1. orders["long"][i] = NoOrder /\ spot[i].asked = 0 /\ NoOrder.left = 0
      BY <2>1, InvParts DEF SameFlight, NoOrder
    <3> QED
      BY <2>1, <3>1 DEF FlightFrom
  <2>2. CASE os["long"][i] # NoOrder
    BY <2>2 DEF FlightFrom, SameFlight
  <2> QED
    BY <2>1, <2>2
<1> QED
  BY <1>1 DEF Flight

LEMMA HoldingStays ==
  ASSUME Inv, Flight(orders', spot') = Flight(orders, spot),
         size'["long"] - last' = size["long"] - last, position' = position, cut' = cut
  PROVE  HoldingIsAccounted'
BY HoldingIs DEF HoldingIsAccounted, Flight

(* An order that ends takes what it had filled with it. *)
LEMMA FlightEnds ==
  ASSUME Inv, StrategyTyped, NEW k \in 1..MaxOrders,
         FlightFrom([orders EXCEPT !["long"][k] = NoOrder])
  PROVE  Sum(Flight(orders', spot')) =
           Sum(Flight(orders, spot)) - (spot[k].asked - orders["long"][k].left)
<1> DEFINE os == [orders EXCEPT !["long"][k] = NoOrder]
           f == Flight(orders, spot)
           h == Flight(orders', spot')
<1>1. \A i \in 1..MaxOrders :
        os["long"][i] = IF i = k THEN NoOrder ELSE orders["long"][i]
  BY InvParts, LegHas DEF Orders
<1>2. ASSUME NEW i \in 1..MaxOrders
      PROVE  h[i] = IF i = k THEN 0 ELSE f[i]
  <2>1. h[i] = IF os["long"][i] = NoOrder THEN 0 ELSE spot[i].asked - os["long"][i].left
    BY DEF FlightFrom, Flight
  <2>2. CASE i = k
    BY <1>1, <2>1, <2>2
  <2>3. CASE i # k /\ orders["long"][i] = NoOrder
    <3>1. spot[i].asked = 0 /\ NoOrder.left = 0
      BY <2>3, InvParts DEF NoOrder
    <3> QED
      BY <1>1, <2>1, <2>3, <3>1 DEF Flight
  <2>4. CASE i # k /\ orders["long"][i] # NoOrder
    BY <1>1, <2>1, <2>4 DEF Flight
  <2> QED
    BY <2>2, <2>3, <2>4
<1>3. f \in [1..MaxOrders -> Int] /\ f[k] = spot[k].asked - orders["long"][k].left
      /\ spot[k].asked \in Int /\ orders["long"][k].left \in Int
  BY HoldingIs
<1>4. h = [i \in 1..MaxOrders |-> h[i]]
  BY DEF Flight
<1> HIDE DEF f, h
<1>5. h \in [1..MaxOrders -> Int]
  BY <1>2, <1>3, <1>4
<1>6. Sum(f) \in Int /\ Sum(h) = Sum(f) + h[k] - f[k]
  BY <1>2, <1>3, <1>5, SumChanges
<1> QED
  BY <1>2, <1>3, <1>6 DEF f, h

-----------------------------------------------------------------------------
(* What a step leaves *)
BeliefTyped ==
  /\ size' \in [Leg -> Int] /\ size'["short"] \in Sizes(MaxSize)
  /\ last' \in Int /\ cut' \in Int
  /\ position' \in [Leg -> Sizes(MaxSize)]

Kept ==
  StrategyTyped /\ RestTyped /\ BeliefTyped /\ HoldingIsAccounted' /\ ClosesFrom(status, size')

(* A fill that is told of *)
LEMMA AddFillType ==
  ASSUME Inv, NEW filled \in Int
  PROVE  /\ AddFill(filled) \in [Leg -> Int]
         /\ AddFill(filled)["short"] = size["short"]
         /\ AddFill(filled)["long"] = size["long"] + filled - last
BY HoldingIs, InvParts, LegHas DEF AddFill, Leg

LEMMA ActiveKeeps ==
  ASSUME Inv, NEW s
  PROVE  /\ Active(s) \in PairStatus
         /\ status \in {"Exiting", "Unwinding"} => Active(s) = status
BY InvParts DEF Active, PairStatus

(* The end of an order.  What the order had filled is no longer in flight:   *)
(* the strategy adds it to its figure, or it was cut. *)
LEMMA OrderUpdateKeeps ==
  ASSUME Inv, NEW l \in Leg, NEW i \in 1..MaxOrders, HandleOrderUpdate(l, i)
  PROVE  Kept
<1> DEFINE o == orders[l][i]
           filled == l = "long" /\ o.left = 0 /\ spot[i].asked # 0
           s == IF filled THEN AddFill(spot[i].asked) ELSE size
           st == IF filled THEN Active(s) ELSE status
           os == [orders EXCEPT ![l][i] = NoOrder]
<1>1. /\ o.state = "over" /\ size' = s
      /\ last' = IF filled THEN 0 ELSE last
      /\ cut' = IF l = "long" /\ o.left # 0 THEN cut + spot[i].asked - o.left ELSE cut
      /\ CheckTransitions(os, tracked \ {<<l, i>>}, {<<l, i>>}, s, st)
      /\ position' = position
  BY DEF HandleOrderUpdate, TrackerAfter
<1>2. orders \in Orders(Int) /\ InUse(orders, tracked) /\ size \in [Leg -> Int]
      /\ size["short"] \in Sizes(MaxSize) /\ position \in [Leg -> Sizes(MaxSize)]
      /\ status \in PairStatus
  BY InvParts
<1>3. spot[i].asked \in Int
  BY HoldingIs
<1>4. os \in Orders(Int) /\ InUse(os, tracked \ {<<l, i>>}) /\ OpensNone(orders, os)
  BY <1>2, EndHandled
<1>5. s \in [Leg -> Int] /\ s["short"] = size["short"]
  BY <1>2, <1>3, AddFillType
<1>6. st \in PairStatus /\ (status \in {"Exiting", "Unwinding"} => st = status)
  BY <1>2, ActiveKeeps
<1>7. StrategyTyped /\ FlightFrom(os) /\ RestTyped /\ ClosesFrom(st, s)
  <2> HIDE DEF os, s, st
  <2> QED
    BY <1>1, <1>4, <1>5, <1>6, TransitionsKeep
<1>8. ClosesFrom(status, size')
  BY <1>1, <1>6, <1>7 DEF ClosesFrom
<1>9. BeliefTyped
  <2>1. l = "long" => o.left \in Int
    BY HoldingIs
  <2> HIDE DEF s, filled, o
  <2> QED
    BY <1>1, <1>2, <1>3, <1>5, <2>1, HoldingIs DEF BeliefTyped
<1>10. HoldingIsAccounted'
  <2>1. CASE l = "short"
    <3>1. SameFlight(os)
      BY <1>2, <2>1, LegHas DEF SameFlight, Orders
    <3>2. Flight(orders', spot') = Flight(orders, spot)
      <4> HIDE DEF os
      <4> QED
        BY <1>7, <3>1, FlightStays
    <3> QED
      BY <1>1, <2>1, <3>2, HoldingStays
  <2>2. CASE l = "long"
    <3> DEFINE f == Sum(Flight(orders, spot))
               h == Sum(Flight(orders', spot'))
    <3>1. h = f - (spot[i].asked - o.left)
      BY <1>7, <2>2, FlightEnds
    <3>2. /\ size["long"] - last = position["long"] - cut - f
          /\ size["long"] \in Int /\ last \in Int /\ position["long"] \in Int /\ cut \in Int
          /\ f \in Int /\ spot[i].asked \in Int /\ o.left \in Int
      BY <2>2, HoldingIs
    <3>3. size'["long"] - last' = position'["long"] - cut' - h
      <4>1. CASE filled
        <5>1. size'["long"] = size["long"] + spot[i].asked - last
          BY <1>1, <1>3, <4>1, AddFillType
        <5>2. o.left = 0 /\ last' = 0 /\ cut' = cut /\ position' = position
          BY <1>1, <4>1
        <5> HIDE DEF f, h, o
        <5> QED
          BY <3>1, <3>2, <5>1, <5>2
      <4>2. CASE ~filled /\ o.left = 0
        <5>1. /\ spot[i].asked = 0 /\ size' = size /\ last' = last
              /\ cut' = cut /\ position' = position
          BY <1>1, <2>2, <4>2
        <5> HIDE DEF f, h, o
        <5> QED
          BY <3>1, <3>2, <4>2, <5>1
      <4>3. CASE o.left # 0
        <5>1. /\ cut' = cut + spot[i].asked - o.left /\ size' = size /\ last' = last
              /\ position' = position
          BY <1>1, <2>2, <4>3
        <5> HIDE DEF f, h, o
        <5> QED
          BY <3>1, <3>2, <5>1
      <4> QED
        BY <4>1, <4>2, <4>3
    <3> QED
      BY <3>3 DEF HoldingIsAccounted, Flight
  <2> QED
    BY <2>1, <2>2, LegHas
<1> QED
  BY <1>7, <1>8, <1>9, <1>10 DEF Kept

(* News of an order that goes on, from which the strategy learns of a part   *)
(* of it, and remembers it. *)
LEMMA OrderProgressKeeps ==
  ASSUME Inv, NEW l \in Leg, NEW i \in 1..MaxOrders, HandleOrderProgress(l, i)
  PROVE  Kept
<1> DEFINE again == forced \cap {<<l, i>>}
           partial == l = "long" /\ spot[i].said # 0
           s == IF partial THEN AddFill(spot[i].said) ELSE size
           os == [orders EXCEPT ![l][i].told = TRUE]
<1>1. /\ ~orders[l][i].told /\ size' = s
      /\ last' = IF partial THEN spot[i].said ELSE last
      /\ CheckTransitions(os, tracked \cup again, again, s, status)
      /\ position' = position /\ cut' = cut
  BY DEF HandleOrderProgress
<1>2. orders \in Orders(Int) /\ InUse(orders, tracked) /\ size \in [Leg -> Int]
      /\ size["short"] \in Sizes(MaxSize) /\ position \in [Leg -> Sizes(MaxSize)]
      /\ status \in PairStatus
  BY InvParts
<1>3. spot[i].said \in Int
  BY InvParts DEF SpotOrders
<1>4. os \in Orders(Int) /\ InUse(os, tracked \cup again) /\ OpensNone(orders, os)
  <2>1. again \in SUBSET {<<l, i>>}
    OBVIOUS
  <2> QED
    BY <1>1, <1>2, <2>1, ProgressHandled
<1>5. s \in [Leg -> Int] /\ s["short"] = size["short"]
  BY <1>2, <1>3, AddFillType
<1>6. StrategyTyped /\ FlightFrom(os) /\ RestTyped /\ ClosesFrom(status, s)
  <2> HIDE DEF os, s, again
  <2> QED
    BY <1>1, <1>2, <1>4, <1>5, TransitionsKeep
<1>7. BeliefTyped
  <2> HIDE DEF s, partial
  <2> QED
    BY <1>1, <1>2, <1>3, <1>5, HoldingIs DEF BeliefTyped
<1>8. SameFlight(os)
  <2>1. ASSUME NEW k \in 1..MaxOrders
        PROVE  /\ os["long"][k] = NoOrder => orders["long"][k] = NoOrder
               /\ os["long"][k].left = orders["long"][k].left
    <3>1. CASE l = "long" /\ k = i
      <4> DEFINE q == orders[l][i]
      <4>1. q \in [state : {"open", "over"}, type : OrderType, left : Int, told : BOOLEAN]
        BY <1>1, <1>2, OrderAt, OrderIsThere
      <4> HIDE DEF q
      <4>2. [q EXCEPT !.told = TRUE].left = q.left /\ [q EXCEPT !.told = TRUE].state # "free"
        BY <4>1
      <4>3. os["long"][k] = [q EXCEPT !.told = TRUE]
        BY <1>2, <3>1, LegHas DEF Orders, q
      <4>4. NoOrder.state = "free"
        BY DEF NoOrder
      <4> QED
        BY <3>1, <4>2, <4>3, <4>4 DEF q
    <3>2. CASE ~(l = "long" /\ k = i)
      <4>1. os["long"][k] = orders["long"][k]
        BY <1>2, <3>2, LegHas DEF Orders
      <4> QED
        BY <4>1
    <3> QED
      BY <3>1, <3>2
  <2> QED
    BY <2>1 DEF SameFlight
<1>9. Flight(orders', spot') = Flight(orders, spot)
  <2> HIDE DEF os
  <2> QED
    BY <1>6, <1>8, FlightStays
<1>10. size'["long"] - last' = size["long"] - last
  <2>1. CASE partial
    <3>1. size'["long"] = size["long"] + spot[i].said - last /\ last' = spot[i].said
      BY <1>1, <1>3, <2>1, AddFillType
    <3> QED
      BY <1>3, <3>1, HoldingIs
  <2>2. CASE ~partial
    BY <1>1, <2>2
  <2> QED
    BY <2>1, <2>2
<1>11. HoldingIsAccounted'
  BY <1>1, <1>9, <1>10, HoldingStays
<1> QED
  BY <1>1, <1>6, <1>7, <1>11 DEF Kept

(* Orders that are left alone, or of which some are cancelled *)
LEMMA CancelledKeeps ==
  ASSUME Inv, NEW S
  PROVE  /\ Cancelled(orders, S) \in Orders(Int)
         /\ InUse(Cancelled(orders, S), tracked)
         /\ InUse(Cancelled(orders, S), {})
         /\ OpensNone(orders, Cancelled(orders, S))
         /\ SameFlight(Cancelled(orders, S))
<1> DEFINE os == Cancelled(orders, S)
<1>1. orders \in Orders(Int) /\ InUse(orders, tracked)
  BY InvParts
<1>2. os \in Orders(Int) /\ OnlyEnds(orders, os)
  BY <1>1, CancelledEnds
<1>3. OpensNone(orders, os) /\ InUse(os, tracked)
  BY <1>1, <1>2, EndsOpenNone, EndsStayInUse
<1>4. ASSUME NEW i \in 1..MaxOrders
      PROVE  /\ os["long"][i] = NoOrder => orders["long"][i] = NoOrder
             /\ os["long"][i].left = orders["long"][i].left
  <2> DEFINE o == orders["long"][i]
  <2>1. os["long"][i] = IF <<"long", i>> \in S /\ o.state = "open"
                        THEN [o EXCEPT !.state = "over"] ELSE o
    BY LegHas DEF Cancelled
  <2>2. CASE o.state = "open"
    <3>1. o \in [state : {"open", "over"}, type : OrderType, left : Int, told : BOOLEAN]
      BY <1>1, <2>2, LegHas, OrderAt, OrderIsThere
    <3> HIDE DEF o
    <3>2. [o EXCEPT !.state = "over"].state = "over" /\ [o EXCEPT !.state = "over"].left = o.left
      BY <3>1
    <3>3. NoOrder.state = "free"
      BY DEF NoOrder
    <3> QED
      BY <2>1, <3>2, <3>3 DEF o
  <2>3. CASE o.state # "open"
    BY <2>1, <2>3
  <2> QED
    BY <2>2, <2>3
<1> QED
  BY <1>2, <1>3, <1>4 DEF SameFlight, InUse

LEMMA OrdersKept ==
  ASSUME Inv
  PROVE  /\ orders \in Orders(Int) /\ InUse(orders, tracked) /\ OpensNone(orders, orders)
         /\ SameFlight(orders)
BY InvParts DEF OpensNone, SameFlight

(* What the strategy does of its own accord, or told to, changes no figure. *)
LEMMA EngineKeeps ==
  ASSUME Inv, NEW os, SameFlight(os), StrategyTyped, FlightFrom(os),
         RestTyped, ClosesFrom(status, size),
         size' = size, last' = last, cut' = cut, position' = position
  PROVE  Kept
<1>1. HoldingIsAccounted'
  BY FlightStays, HoldingStays
<1>2. BeliefTyped
  BY InvParts, HoldingIs DEF BeliefTyped
<1> QED
  BY <1>1, <1>2 DEF Kept, ClosesFrom

LEMMA EvaluationKeeps ==
  ASSUME Inv, Evaluation
  PROVE  Kept
<1>1. /\ setting \in Settings /\ size \in [Leg -> Int] /\ forced \subseteq Slot
      /\ tracked \subseteq Slot /\ status \in PairStatus
      /\ schedule \in {NoSchedule} \cup 0..Chunks
  BY InvParts
<1>2. /\ size' = size /\ last' = last /\ cut' = cut /\ position' = position
      /\ schedule' = schedule
      /\ forced' \in {forced, {}, forced \cup tracked}
  BY DEF Evaluation, EvaluateRecovering, EvaluateExiting, EmergencyExit, DoNothing,
     DecideEnter, DecideExit, DecideRebalance, Evaluates
<1>3. RestTyped
  BY <1>1, <1>2 DEF RestTyped
<1>4. {"Active", "Inactive"} \subseteq PairStatus
  BY DEF PairStatus
<1>5. CloseSizes(size) \in [Leg -> Int] /\ (CloseSizes(size)["long"] <= 0 \/ size["long"] < 0)
  BY <1>1, SpotCloseType
<1>6. \E os : SameFlight(os) /\ StrategyTyped /\ FlightFrom(os) /\ ClosesFrom(status, size)
  <2>1. CASE \E st \in PairStatus : NoAction(orders, tracked, st)
    BY <2>1, OrdersKept, NoActionKeeps DEF ClosesFrom
  <2>2. CASE \E gone : Exit(Cancelled(orders, gone), tracked, status, size)
    BY <1>1, <1>5, <2>2, CancelledKeeps, ClosesKeep DEF ClosesFrom
  <2>3. CASE Exit(orders, tracked, status, size)
    BY <1>1, <1>5, <2>3, OrdersKept, ClosesKeep DEF ClosesFrom
  <2>4. CASE EvaluateRecovering
    <3>1. status = "Recovering"
      BY <2>4 DEF EvaluateRecovering, Evaluates
    <3>2. CASE Recover(orders, tracked, status, size)
      BY <1>1, <3>1, <3>2, OrdersKept, PlacesKeep DEF ClosesFrom
    <3>3. CASE NoAction(orders, tracked, IF Entered(size) THEN "Active" ELSE status)
      <4>1. (IF Entered(size) THEN "Active" ELSE status) \in PairStatus
        BY <1>1, <1>4
      <4> QED
        BY <2>1, <3>3, <4>1
    <3> QED
      BY <2>4, <3>2, <3>3 DEF EvaluateRecovering
  <2>5. CASE EvaluateExiting
    BY <1>1, <1>4, <2>1, <2>3, <2>5 DEF EvaluateExiting
  <2>6. CASE DecideEnter
    <3>1. Target \in Int
      BY <1>1, SettingParts
    <3>2. Both(Target) \in [Leg -> Int]
      BY <3>1 DEF Both
    <3>3. Enter(orders, tracked, status, Both(Target)) /\ status = "Inactive"
      BY <2>6 DEF DecideEnter, Evaluates
    <3> QED
      BY <1>1, <3>2, <3>3, OrdersKept, PlacesKeep DEF ClosesFrom
  <2>7. CASE DecideRebalance
    <3>1. PICK l \in Leg, gone \in Cancellations(tracked) :
            Rebalance(Cancelled(orders, gone), {}, status,
                      [k \in Leg |-> IF k = l THEN -1 ELSE 1])
      BY <2>7 DEF DecideRebalance
    <3>2. [k \in Leg |-> IF k = l THEN -1 ELSE 1] \in [Leg -> Int] /\ status = "Active"
      BY <2>7 DEF DecideRebalance, Evaluates
    <3> QED
      BY <1>1, <3>1, <3>2, CancelledKeeps, PlacesKeep DEF ClosesFrom
  <2>8. CASE EmergencyExit \/ DoNothing \/ DecideExit
    BY <1>1, <2>1, <2>2, <2>3, <2>8 DEF EmergencyExit, DoNothing, DecideExit
  <2> QED
    BY <2>4, <2>5, <2>6, <2>7, <2>8 DEF Evaluation
<1> QED
  BY <1>2, <1>3, <1>6, EngineKeeps

(* An operator's exits *)
LEMMA ExitCommandKeeps ==
  ASSUME Inv, GracefulExit \/ ForceExit
  PROVE  Kept
<1>1. /\ setting \in Settings /\ size \in [Leg -> Int] /\ forced \subseteq Slot
      /\ status \in PairStatus /\ schedule \in {NoSchedule} \cup 0..Chunks
  BY InvParts
<1>2. Chunks \in Nat \ {0}
  BY <1>1, SettingParts
<1>3. /\ size' = size /\ last' = last /\ cut' = cut /\ position' = position
      /\ forced' = forced /\ schedule' \in {schedule, Chunks - 1}
  BY DEF GracefulExit, ForceExit
<1>4. RestTyped
  BY <1>1, <1>2, <1>3 DEF RestTyped
<1>5. /\ ChunkOf(Chunks, size) \in [Leg -> Int]
      /\ ChunkOf(Chunks, size)["long"] <= 0 \/ size["long"] < 0
  BY <1>1, <1>2, SpotChunkType
<1>6. StrategyTyped /\ FlightFrom(orders) /\ NewCloses(size)
  <2>1. CASE GracefulExit
    <3>1. Unwind(orders, tracked, status, size, ChunkOf(Chunks, size))
      BY <2>1 DEF GracefulExit
    <3> QED
      BY <1>1, <1>5, <3>1, OrdersKept, ClosesKeep
  <2>2. CASE ForceExit
    <3>1. Exit(orders, tracked, status, size)
      BY <2>2 DEF ForceExit
    <3> QED
      BY <1>1, <1>5, <3>1, OrdersKept, ClosesKeep
  <2> QED
    BY <2>1, <2>2
<1> QED
  BY <1>3, <1>4, <1>6, OrdersKept, EngineKeeps DEF ClosesFrom

(* What leaves the spot orders alone *)
LEMMA PositionUpdateKeeps ==
  ASSUME Inv, HandlePositionUpdate
  PROVE  Kept
<1>1. /\ orders' = orders /\ tracked' = tracked /\ forced' = forced
      /\ schedule' = schedule /\ spot' = spot /\ last' = last /\ cut' = cut
      /\ position' = position
      /\ size' = [size EXCEPT !["short"] = Head(news)] /\ news # <<>>
      /\ \E s : status' = Active(s)
  BY DEF HandlePositionUpdate
<1>2. Head(news) \in Sizes(MaxSize) /\ Sizes(MaxSize) \subseteq Int
  <2>1. news \in Seq(Sizes(MaxSize)) /\ MaxSize \in Nat
    BY InvParts, SettingParts DEF Inv, TypeOK
  <2> QED
    BY <1>1, <2>1 DEF Sizes
<1>3. size' \in [Leg -> Int] /\ size'["short"] \in Sizes(MaxSize) /\ size'["long"] = size["long"]
  BY <1>1, <1>2, InvParts, LegHas
<1>4. StrategyTyped /\ RestTyped
  BY <1>1, InvParts, ActiveKeeps DEF StrategyTyped, RestTyped
<1>5. BeliefTyped
  BY <1>1, <1>3, InvParts, HoldingIs DEF BeliefTyped
<1>6. HoldingIsAccounted'
  BY <1>1, <1>3, HoldingStays
<1>7. ClosesFrom(status, size')
  BY <1>1 DEF ClosesFrom, NewCloses, IsNew
<1> QED
  BY <1>4, <1>5, <1>6, <1>7 DEF Kept

LEMMA StrategyRests ==
  ASSUME Inv, Pause \/ UNCHANGED <<setting, vars>>
  PROVE  Kept
<1>1. /\ orders' = orders /\ tracked' = tracked /\ forced' = forced
      /\ schedule' = schedule /\ spot' = spot /\ last' = last /\ cut' = cut
      /\ position' = position /\ size' = size /\ status' = status
  BY DEF Pause, vars, legs
<1>2. StrategyTyped /\ RestTyped
  BY <1>1, InvParts DEF StrategyTyped, RestTyped
<1>3. BeliefTyped
  BY <1>1, InvParts, HoldingIs DEF BeliefTyped
<1>4. HoldingIsAccounted'
  BY <1>1, HoldingStays
<1>5. ClosesFrom(status, size')
  BY <1>1 DEF ClosesFrom, NewCloses, IsNew
<1> QED
  BY <1>2, <1>3, <1>4, <1>5 DEF Kept

(* What ends orders, and tells of nothing yet *)
LEMMA EndedKeeps ==
  ASSUME Inv, orders' \in Orders(Int), OpensNone(orders, orders'), FreesNone(orders, orders'),
         \A i \in 1..MaxOrders : orders'["long"][i].left = orders["long"][i].left,
         UNCHANGED <<position, size, tracked, forced, status, schedule, spot, last, cut>>
  PROVE  Kept
<1>1. StrategyTyped
  <2>1. InUse(orders', tracked)
    BY InvParts, FreesNoneInUse
  <2>2. ASSUME NEW i \in 1..MaxOrders, orders'["long"][i] = NoOrder
        PROVE  spot[i].asked = 0
    <3>1. orders["long"][i].state = "free"
      BY <2>2, LegHas DEF FreesNone, NoOrder
    <3>2. orders["long"][i] \in Order(Int)
      BY InvParts, LegHas, OrderAt
    <3>3. orders["long"][i] = NoOrder
      BY <3>1, <3>2 DEF Order
    <3> QED
      BY <3>3, InvParts
  <2> QED
    BY <2>1, <2>2, InvParts DEF StrategyTyped
<1>2. RestTyped /\ BeliefTyped
  BY InvParts, HoldingIs DEF RestTyped, BeliefTyped
<1>3. Flight(orders', spot') = Flight(orders, spot)
  BY DEF Flight
<1>4. HoldingIsAccounted'
  BY <1>3, HoldingStays
<1>5. ClosesFrom(status, size')
  BY DEF ClosesFrom, NewCloses, IsNew, OpensNone
<1> QED
  BY <1>1, <1>2, <1>4, <1>5 DEF Kept

LEMMA StaleKeeps ==
  ASSUME Inv, CancelStale
  PROVE  Kept
<1>1. PICK gone : orders' = Cancelled(orders, gone)
  BY DEF CancelStale
<1>2. OnlyEnds(orders, Cancelled(orders, gone))
  BY InvParts, CancelledEnds
<1>3. FreesNone(orders, Cancelled(orders, gone))
  BY <1>2, EndsOpenNone
<1>4. UNCHANGED <<position, size, tracked, forced, status, schedule, spot, last, cut>>
  BY DEF CancelStale
<1> QED
  BY <1>1, <1>3, <1>4, CancelledKeeps, EndedKeeps DEF SameFlight

LEMMA DropKeeps ==
  ASSUME Inv, NEW l \in Leg, NEW i \in 1..MaxOrders, Drop(l, i)
  PROVE  Kept
<1>1. Drops(l, i)
  BY DEF Drop
<1>2. orders' \in Orders(Int) /\ OpensNone(orders, orders') /\ FreesNone(orders, orders')
  BY <1>1, InvParts, DropType
<1>3. ASSUME NEW k \in 1..MaxOrders
      PROVE  orders'["long"][k].left = orders["long"][k].left
  <2> DEFINE o == orders[l][i]
  <2>1. o \in [state : {"open", "over"}, type : OrderType, left : Int, told : BOOLEAN]
    BY <1>1, InvParts, OrderAt, OrderIsThere DEF Drops
  <2>2. orders' = [orders EXCEPT ![l][i] = [o EXCEPT !.state = "over"]]
    BY <1>1, InvParts DEF Drops, Orders
  <2> HIDE DEF o
  <2>3. [o EXCEPT !.state = "over"].left = o.left
    BY <2>1
  <2>4. orders'["long"][k] = IF l = "long" /\ k = i THEN [o EXCEPT !.state = "over"]
                             ELSE orders["long"][k]
    BY <2>2, InvParts, LegHas DEF Orders
  <2> QED
    BY <2>3, <2>4 DEF o
<1>4. UNCHANGED <<position, size, tracked, forced, status, schedule, spot, last, cut>>
  BY DEF Drop
<1> QED
  BY <1>2, <1>3, <1>4, EndedKeeps

(* A slot that is free after exchanges filled orders was free before. *)
LEMMA FreeBefore ==
  ASSUME Inv, FreesNone(orders, orders'), NEW k \in 1..MaxOrders,
         orders'["long"][k] = NoOrder
  PROVE  spot[k].asked = 0
<1>1. orders["long"][k].state = "free"
  BY LegHas DEF FreesNone, NoOrder
<1>2. orders["long"][k] \in Order(Int)
  BY InvParts, LegHas, OrderAt
<1>3. orders["long"][k] = NoOrder
  BY <1>1, <1>2 DEF Order
<1> QED
  BY <1>3, InvParts

(* A fill of the spot order: the holding grows by what is in flight. *)
LEMMA FillSpotKeeps ==
  ASSUME Inv, NEW i \in 1..MaxOrders, NEW n, FillSpot(i, n)
  PROVE  Kept
<1> DEFINE o == orders["long"][i]
           f == Flight(orders, spot)
           h == Flight(orders', spot')
<1>1. /\ Fills("long", i, n)
      /\ spot' = [spot EXCEPT ![i].said = IF n = o.left THEN @ ELSE spot[i].asked - o.left + n]
      /\ UNCHANGED <<size, tracked, forced, status, schedule, last, cut>>
  BY DEF FillSpot
<1>2. /\ orders' \in Orders(Int) /\ n \in Int
      /\ position' = [position EXCEPT !["long"] = position["long"] + n]
      /\ position["long"] + n \in Sizes(MaxSize)
      /\ OpensNone(orders, orders') /\ FreesNone(orders, orders')
  BY <1>1, InvParts, LegHas, FillType
<1>3. o \in [state : {"open", "over"}, type : OrderType, left : Int, told : BOOLEAN]
  BY <1>1, InvParts, LegHas, OrderAt, OrderIsThere DEF Fills
<1>4. ASSUME NEW k \in 1..MaxOrders
      PROVE  orders'["long"][k].left = IF k = i THEN o.left - n ELSE orders["long"][k].left
  <2>1. orders' = [orders EXCEPT !["long"][i] = AfterFill(o, n)]
    BY <1>1 DEF Fills
  <2>2. orders'["long"][k] = IF k = i THEN AfterFill(o, n) ELSE orders["long"][k]
    BY <2>1, InvParts, LegHas DEF Orders
  <2> HIDE DEF o
  <2>3. AfterFill(o, n).left = o.left - n
    BY <1>2, <1>3 DEF AfterFill
  <2> QED
    BY <2>2, <2>3
<1>5. /\ spot' \in SpotOrders
      /\ \A k \in 1..MaxOrders : spot'[k].asked = spot[k].asked
  <2>1. spot \in SpotOrders /\ spot[i] \in [asked : Int, said : Int]
    BY InvParts DEF SpotOrders
  <2> DEFINE p == spot[i]
             said == IF n = o.left THEN p.said ELSE p.asked - o.left + n
  <2>2. spot' = [spot EXCEPT ![i] = [p EXCEPT !.said = said]]
    BY <1>1, <2>1 DEF SpotOrders
  <2>3. said \in Int
    BY <1>2, <1>3, <2>1
  <2> HIDE DEF said, p
  <2>4. /\ [p EXCEPT !.said = said] \in [asked : Int, said : Int]
        /\ [p EXCEPT !.said = said].asked = spot[i].asked
    BY <2>1, <2>3 DEF p
  <2> QED
    BY <2>1, <2>2, <2>4 DEF SpotOrders
<1>6. StrategyTyped
  BY <1>1, <1>2, <1>5, InvParts, FreesNoneInUse, FreeBefore DEF StrategyTyped
<1>7. RestTyped /\ BeliefTyped
  BY <1>1, <1>2, InvParts, HoldingIs DEF RestTyped, BeliefTyped
<1>8. ASSUME NEW k \in 1..MaxOrders
      PROVE  h[k] = IF k = i THEN f[k] + n ELSE f[k]
  BY <1>2, <1>4, <1>5, HoldingIs DEF Flight
<1>9. /\ f \in [1..MaxOrders -> Int]
      /\ size["long"] - last = position["long"] - cut - Sum(f)
      /\ size["long"] \in Int /\ last \in Int /\ position["long"] \in Int /\ cut \in Int
  BY HoldingIs
<1>10. h = [k \in 1..MaxOrders |-> h[k]]
  BY DEF Flight
<1>11. HoldingIsAccounted'
  <2>1. position'["long"] = position["long"] + n
    BY <1>2, InvParts, LegHas
  <2>2. size'["long"] - last' = position'["long"] - cut' - Sum(h)
    <3> HIDE DEF f, h
    <3>1. h \in [1..MaxOrders -> Int]
      BY <1>2, <1>8, <1>9, <1>10
    <3>2. f[i] \in Int
      BY <1>9
    <3>3. Sum(f) \in Int /\ Sum(h) = Sum(f) + h[i] - f[i]
      BY <1>8, <1>9, <3>1, SumChanges
    <3>4. Sum(h) = Sum(f) + n
      BY <1>2, <1>8, <3>2, <3>3
    <3> QED
      BY <1>1, <1>2, <1>9, <2>1, <3>3, <3>4
  <2> QED
    BY <2>2 DEF HoldingIsAccounted, Flight
<1>12. ClosesFrom(status, size')
  BY <1>2 DEF ClosesFrom, NewCloses, IsNew, OpensNone
<1> QED
  BY <1>6, <1>7, <1>11, <1>12 DEF Kept

LEMMA FillPerpKeeps ==
  ASSUME Inv, NEW i \in 1..MaxOrders, NEW n, FillPerp(i, n)
  PROVE  Kept /\ news' \in Seq(Sizes(MaxSize))
<1>1. /\ Fills("short", i, n)
      /\ UNCHANGED <<size, tracked, forced, status, schedule, spot, last, cut>>
      /\ news' = Append(news, position["short"] + n) \/ news' = news
  BY DEF FillPerp
<1>2. /\ orders' \in Orders(Int)
      /\ position' = [position EXCEPT !["short"] = position["short"] + n]
      /\ position["short"] + n \in Sizes(MaxSize)
      /\ OpensNone(orders, orders') /\ FreesNone(orders, orders')
  BY <1>1, InvParts, LegHas, FillType
<1>3. orders'["long"] = orders["long"]
  BY <1>1, InvParts, LegHas DEF Fills, Orders
<1>4. StrategyTyped
  BY <1>1, <1>2, InvParts, FreesNoneInUse, FreeBefore DEF StrategyTyped
<1>5. RestTyped /\ BeliefTyped
  BY <1>1, <1>2, InvParts, HoldingIs DEF RestTyped, BeliefTyped
<1>6. HoldingIsAccounted'
  <2>1. position'["long"] = position["long"]
    BY <1>2, InvParts, LegHas
  <2> QED
    BY <1>1, <1>3, <2>1 DEF Inv, HoldingIsAccounted
<1>7. ClosesFrom(status, size')
  BY <1>2 DEF ClosesFrom, NewCloses, IsNew, OpensNone
<1>8. news' \in Seq(Sizes(MaxSize))
  <2>1. news \in Seq(Sizes(MaxSize))
    BY DEF Inv, TypeOK
  <2> QED
    BY <1>1, <1>2, <2>1
<1> QED
  BY <1>4, <1>5, <1>6, <1>7, <1>8 DEF Kept

-----------------------------------------------------------------------------
LEMMA StepKeeps ==
  ASSUME Inv, [Next]_<<setting, vars>>
  PROVE  /\ Kept /\ setting' = setting
         /\ news' \in Seq(Sizes(MaxSize)) /\ paused' \in BOOLEAN /\ paper' \in BOOLEAN
<1>1. news \in Seq(Sizes(MaxSize)) /\ paused \in BOOLEAN /\ paper \in BOOLEAN
  BY DEF Inv, TypeOK
<1>2. setting' = setting
  BY DEF Next
<1>3. CASE Evaluation
  <2>1. UNCHANGED <<news, paper>> /\ paused' \in BOOLEAN
    BY <1>3 DEF Evaluation, EvaluateRecovering, EvaluateExiting, EmergencyExit, DoNothing,
       DecideEnter, DecideExit, DecideRebalance, Evaluates
  <2> QED
    BY <1>1, <1>2, <1>3, <2>1, EvaluationKeeps
<1>4. CASE CancelStale
  BY <1>1, <1>2, <1>4, StaleKeeps DEF CancelStale
<1>5. CASE HandlePositionUpdate
  <2>1. news' \in Seq(Sizes(MaxSize)) /\ UNCHANGED <<paused, paper>>
    BY <1>1, <1>5 DEF HandlePositionUpdate
  <2> QED
    BY <1>1, <1>2, <1>5, <2>1, PositionUpdateKeeps
<1>6. ASSUME NEW l \in Leg, NEW i \in 1..MaxOrders, HandleOrderUpdate(l, i)
      PROVE  Kept /\ UNCHANGED <<news, paused, paper>>
  BY <1>6, OrderUpdateKeeps DEF HandleOrderUpdate
<1>7. ASSUME NEW l \in Leg, NEW i \in 1..MaxOrders, HandleOrderProgress(l, i)
      PROVE  Kept /\ UNCHANGED <<news, paused, paper>>
  BY <1>7, OrderProgressKeeps DEF HandleOrderProgress
<1>8. ASSUME NEW l \in Leg, NEW i \in 1..MaxOrders, Drop(l, i)
      PROVE  Kept /\ UNCHANGED <<news, paused, paper>>
  BY <1>8, DropKeeps DEF Drop
<1>9. ASSUME NEW i \in 1..MaxOrders, NEW n, FillSpot(i, n)
      PROVE  Kept /\ UNCHANGED <<news, paused, paper>>
  BY <1>9, FillSpotKeeps DEF FillSpot
<1>10. ASSUME NEW i \in 1..MaxOrders, NEW n, FillPerp(i, n)
       PROVE  Kept /\ news' \in Seq(Sizes(MaxSize)) /\ UNCHANGED <<paused, paper>>
  BY <1>10, FillPerpKeeps DEF FillPerp
<1>11. CASE GracefulExit \/ ForceExit
  BY <1>1, <1>2, <1>11, ExitCommandKeeps DEF GracefulExit, ForceExit
<1>12. CASE Pause \/ UNCHANGED <<setting, vars>>
  <2>1. news' = news /\ paused' \in BOOLEAN /\ paper' = paper
    BY <1>1, <1>12 DEF Pause, vars
  <2> QED
    BY <1>1, <1>2, <1>12, <2>1, StrategyRests
<1> QED
  BY <1>1, <1>2, <1>3, <1>4, <1>5, <1>6, <1>7, <1>8, <1>9, <1>10, <1>11, <1>12
     DEF Next, Evaluate, Resume

(* The sum of no flight is nothing. *)
LEMMA SumOfNothing ==
  Sum([i \in 1..MaxOrders |-> 0]) = 0
<1> DEFINE f == [i \in 1..MaxOrders |-> 0]
<1>0. MaxOrders \in Nat \ {0}
  BY TwoLegsAssumption
<1>1. PICK g : Sums(f, g, MaxOrders) /\ Sum(f) = g[MaxOrders]
  BY SumIsLast
<1> DEFINE S == {n \in Nat : n <= MaxOrders => g[n] = 0}
<1>2. 0 \in S
  BY <1>0, <1>1 DEF Sums
<1>3. ASSUME NEW n \in Nat, n \in S
      PROVE  n + 1 \in S
  <2> SUFFICES ASSUME n + 1 <= MaxOrders
               PROVE  g[n + 1] = 0
    OBVIOUS
  <2>1. /\ n + 1 \in 0..MaxOrders /\ n + 1 # 0 /\ (n + 1) - 1 = n /\ g[n] = 0
        /\ n + 1 \in 1..MaxOrders
    BY <1>0, <1>3
  <2>2. g[n + 1] = g[n] + f[n + 1]
    BY <1>1, <2>1 DEF Sums
  <2> QED
    BY <2>1, <2>2
<1>4. Nat \subseteq S
  <2> HIDE DEF S
  <2> QED
    BY <1>2, <1>3, SetInduction
<1> QED
  BY <1>0, <1>1, <1>4

LEMMA InvInit == Init => Inv
<1> SUFFICES ASSUME Init
             PROVE  Inv
  OBVIOUS
<1>1. /\ LegsInit /\ news = <<>> /\ spot = [i \in 1..MaxOrders |-> Untold]
      /\ last = 0 /\ cut = 0 /\ paused = FALSE /\ paper \in BOOLEAN
  BY DEF Init
<1>2. /\ setting \in Settings
      /\ position = [l \in Leg |-> 0] /\ size = [l \in Leg |-> 0]
      /\ orders = [l \in Leg |-> [i \in 1..MaxOrders |-> NoOrder]]
      /\ tracked = {} /\ forced = {} /\ status = "Inactive" /\ schedule = NoSchedule
  BY <1>1 DEF LegsInit
<1>3. 0 \in Sizes(MaxSize)
  BY <1>2, SettingParts DEF Sizes
<1>4. Untold \in [asked : Int, said : Int] /\ Untold.asked = 0 /\ NoOrder.left = 0
      /\ NoOrder \in Order(Int)
  BY DEF Untold, NoOrder, Order
<1>5. TypeOK
  <2>1. news \in Seq(Sizes(MaxSize)) /\ <<>> \in Seq(Sizes(MaxSize))
    BY <1>1
  <2>2. orders \in [Leg -> [1..MaxOrders -> Order(Int)]]
    BY <1>2, <1>4
  <2>3. spot \in [1..MaxOrders -> [asked : Int, said : Int]]
    BY <1>1, <1>4
  <2>4. position \in [Leg -> Sizes(MaxSize)] /\ size \in [Leg -> Int] /\ size["short"] = 0
    BY <1>2, <1>3, LegHas
  <2>5. last \in Int /\ cut \in Int
    BY <1>1
  <2>6. paused \in BOOLEAN
    BY <1>1, Zenon
  <2>7. tracked \subseteq Slot /\ forced \subseteq Slot /\ status \in PairStatus
        /\ schedule \in {NoSchedule} \cup 0..Chunks
    BY <1>2 DEF PairStatus
  <2> QED
    BY <1>1, <1>2, <1>3, <2>1, <2>2, <2>3, <2>4, <2>5, <2>6, <2>7 DEF TypeOK
<1>6. TrackedWillReport /\ FreeIsUntold
  BY <1>1, <1>2, <1>4 DEF TrackedWillReport, FreeIsUntold
<1>7. HoldingIsAccounted
  <2>1. [i \in 1..MaxOrders |-> spot[i].asked - orders["long"][i].left] =
          [i \in 1..MaxOrders |-> 0]
    BY <1>1, <1>2, <1>4, LegHas
  <2>2. size["long"] = 0 /\ position["long"] = 0
    BY <1>2, LegHas
  <2>3. Sum([i \in 1..MaxOrders |-> spot[i].asked - orders["long"][i].left]) = 0
    BY <2>1, SumOfNothing
  <2> QED
    BY <1>1, <2>2, <2>3 DEF HoldingIsAccounted
<1> QED
  BY <1>5, <1>6, <1>7 DEF Inv

LEMMA InvStep ==
  ASSUME Inv, [Next]_<<setting, vars>>
  PROVE  Inv' /\ ClosesFrom(status, size')
<1>1. /\ StrategyTyped /\ RestTyped /\ BeliefTyped /\ HoldingIsAccounted'
      /\ ClosesFrom(status, size') /\ setting' = setting
      /\ news' \in Seq(Sizes(MaxSize)) /\ paused' \in BOOLEAN /\ paper' \in BOOLEAN
  BY StepKeeps DEF Kept
<1>2. MaxSize' = MaxSize /\ Chunks' = Chunks /\ setting \in Settings
  BY <1>1, InvParts DEF MaxSize, Chunks
<1>3. TypeOK'
  BY <1>1, <1>2 DEF TypeOK, StrategyTyped, RestTyped, BeliefTyped, InUse, Orders, SpotOrders
<1>4. TrackedWillReport' /\ FreeIsUntold'
  BY <1>1 DEF StrategyTyped, InUse, TrackedWillReport, FreeIsUntold
<1> QED
  BY <1>1, <1>3, <1>4 DEF Inv

LEMMA Invariance == Spec => []Inv
<1>1. Inv /\ [Next]_<<setting, vars>> => Inv'
  BY InvStep
<1> QED
  BY InvInit, <1>1, PTL DEF Spec

(* The strategy's own figures, and the sizes it orders from them, may be any *)
(* number; positions stay within the bound, and its state stays typed.       *)
THEOREM TypeCorrect == Spec => []TypeOK
<1>1. Inv => TypeOK
  BY DEF Inv
<1> QED
  BY Invariance, <1>1, PTL

(* The tracker holds no order that has nothing more to tell. *)
THEOREM TrackedOrdersReport == Spec => []TrackedWillReport
<1>1. Inv => TrackedWillReport
  BY DEF Inv
<1> QED
  BY Invariance, <1>1, PTL

(* Whatever number of orders is in flight, what the strategy takes its spot  *)
(* holding for differs from the holding by what these have filled, the part  *)
(* it remembers and what was cut (spot_perp/types.rs apply_event).           *)
THEOREM HoldingAlwaysAccounted == Spec => []HoldingIsAccounted
<1>1. Inv => HoldingIsAccounted
  BY DEF Inv
<1> QED
  BY Invariance, <1>1, PTL

(* A pair that exits or unwinds places no perp order that is not reduce_only *)
(* and buys no spot unless it takes its holding for negative.                *)
THEOREM ClosingTakesNoRisk == Spec => NoNewRiskWhileClosing
<1> DEFINE A == \A l \in Leg, i \in 1..MaxOrders :
                  status \in {"Exiting", "Unwinding"} /\ IsNew(l, i)
                    => IF l = "short" THEN orders'[l][i].type = "close"
                       ELSE orders'[l][i].left <= 0 \/ size'["long"] < 0
<1>1. Inv /\ [Next]_<<setting, vars>> => [A]_vars
  BY InvStep DEF ClosesFrom, NewCloses
<1>2. Spec => [][A]_vars
  BY <1>1, Invariance, PTL DEF Spec
<1> QED
  BY <1>2 DEF NoNewRiskWhileClosing
=============================================================================

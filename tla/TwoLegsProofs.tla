---------------------------- MODULE TwoLegsProofs ----------------------------
(***************************************************************************)
(* What the operators of TwoLegs return: the sizes that are ordered, the   *)
(* orders that a dispatch places, and those that a cancel ends.  The       *)
(* proofs about the two strategies rest on these lemmas.                   *)
(***************************************************************************)
EXTENDS TwoLegs, TLAPS

Orders(sizes) == [Leg -> [1..MaxOrders -> Order(sizes)]]

(* The slots of trk hold orders that can still report. *)
InUse(os, trk) ==
  /\ trk \subseteq Slot
  /\ \A s \in trk : os[s[1]][s[2]].state # "free"

(* The orders in qs are those in os, but for some that end. *)
OnlyEnds(os, qs) ==
  \A l \in Leg, i \in 1..MaxOrders :
    \/ qs[l][i] = os[l][i]
    \/ qs[l][i].state = "over"

(* The orders in qs are those in os, but for some that are new, on the legs  *)
(* asks, of these types and sizes.                                           *)
OnlyPlaces(os, qs, type, asks, want) ==
  \A l \in Leg, i \in 1..MaxOrders :
    \/ qs[l][i] = os[l][i]
    \/ /\ l \in asks /\ os[l][i] = NoOrder
       /\ qs[l][i].state = "open" /\ qs[l][i].type = type[l] /\ qs[l][i].left = want[l]

-----------------------------------------------------------------------------
(* A setting is one of the settings, whose parts are these. *)
LEMMA SettingParts ==
  ASSUME setting \in Settings
  PROVE  /\ Target \in Nat \ {0} /\ Target <= MaxSize
         /\ MaxSize \in Nat \ {0}
         /\ Chunks \in Nat \ {0}
         /\ Commands \subseteq {"GracefulExit", "ForceExit", "Pause", "Emergency"}
         /\ Replies \subseteq {"ok", "refused", "unanswered"}
         /\ LostCancels \in BOOLEAN /\ LostNews \in BOOLEAN
  BY TwoLegsAssumption DEF Setting, Target, MaxSize, Chunks, Commands, Replies,
     LostCancels, LostNews

LEMMA AbsType ==
  ASSUME NEW n \in Int
  PROVE  Abs(n) \in Nat
  BY DEF Abs

(* Rounding down brings a size closer to 0. *)
LEMMA RoundedDownIsSmaller ==
  ASSUME NEW m \in Nat, NEW k \in Sizes(m), NEW n \in Nat \ {0}
  PROVE  RoundedDown(k, n) \in Sizes(m)
<1>1. \A j \in Nat : j \div n \in 0..j
  OBVIOUS
<1>2. CASE k < 0
  <2>1. Abs(k) = -k /\ -k \in Nat /\ -k <= m
    BY <1>2 DEF Abs, Sizes
  <2>2. (-k) \div n \in 0..(-k)
    BY <1>1, <2>1
  <2> QED
    BY <1>2, <2>1, <2>2 DEF RoundedDown, Sizes
<1>3. CASE ~(k < 0)
  <2>1. k \in Nat /\ k <= m
    BY <1>3 DEF Sizes
  <2>2. k \div n \in 0..k
    BY <1>1, <2>1
  <2> QED
    BY <1>3, <2>1, <2>2 DEF RoundedDown, Sizes
<1> QED
  BY <1>2, <1>3

(* A chunk is a part of what closes the legs. *)
LEMMA ChunkType ==
  ASSUME setting \in Settings, NEW n \in Nat \ {0}, NEW s \in [Leg -> Sizes(MaxSize)]
  PROVE  ChunkOf(n, s) \in [Leg -> Sizes(MaxSize)]
<1>1. MaxSize \in Nat
  BY SettingParts
<1>2. \A l \in Leg : -s[l] \in Sizes(MaxSize)
  BY <1>1 DEF Sizes
<1> QED
  BY <1>1, <1>2, RoundedDownIsSmaller DEF ChunkOf

LEMMA CloseType ==
  ASSUME setting \in Settings, NEW s \in [Leg -> Sizes(MaxSize)]
  PROVE  CloseSizes(s) \in [Leg -> Sizes(MaxSize)]
<1>1. MaxSize \in Nat
  BY SettingParts
<1> QED
  BY <1>1 DEF CloseSizes, Sizes

LEMMA RecoveryType ==
  ASSUME setting \in Settings, NEW s \in [Leg -> Sizes(MaxSize)]
  PROVE  RecoverySizes(s) \in [Leg -> Sizes(MaxSize)]
<1>1. MaxSize \in Nat
  BY SettingParts
<1>2. \A l \in Leg : Other(l) \in Leg
  BY DEF Leg, Other
<1>3. \A l \in Leg : Abs(s[Other(l)]) \in Sizes(MaxSize)
  BY <1>1, <1>2 DEF Abs, Sizes
<1>4. 0 \in Sizes(MaxSize)
  BY <1>1 DEF Sizes
<1> QED
  BY <1>3, <1>4 DEF RecoverySizes

LEMMA UnwindType ==
  ASSUME setting \in Settings, NEW s \in [Leg -> Sizes(MaxSize)],
         schedule \in {NoSchedule} \cup 0..Chunks
  PROVE  /\ UnwindSizes(s) \in [Leg -> Sizes(MaxSize)]
         /\ Advance(schedule) \in {NoSchedule} \cup 0..Chunks
<1>1. Chunks \in Nat
  BY SettingParts
<1>2. schedule \in Int /\ (schedule > 0 => schedule \in Nat \ {0})
  BY <1>1 DEF NoSchedule
<1>3. Advance(schedule) \in {NoSchedule} \cup 0..Chunks
  BY <1>1, <1>2 DEF Advance, NoSchedule
<1> QED
  BY <1>2, <1>3, ChunkType, CloseType DEF UnwindSizes, UnwindAll

-----------------------------------------------------------------------------
LEMMA LegHas ==
  /\ "long" \in Leg /\ "short" \in Leg
  /\ \A l \in Leg : l = "long" \/ l = "short"
  BY DEF Leg

(* What a leg's order is, once it is placed. *)
LEMMA PlacedOrder ==
  ASSUME NEW sizes, NEW type \in OrderType, NEW n \in sizes
  PROVE  [state |-> "open", type |-> type, left |-> n, told |-> FALSE] \in Order(sizes)
  BY DEF Order

LEMMA FreeSlotIsFree ==
  ASSUME NEW os, NEW trk, NEW l, Free(os, trk, l) # {}
  PROVE  FreeSlot(os, trk, l) \in Free(os, trk, l)
  BY DEF FreeSlot

(* A dispatch only adds orders, of the type it was given, and tracks none    *)
(* that is not there; the status is the one before or the next one.          *)
LEMMA DispatchPlaces ==
  ASSUME NEW sizes, NEW os \in Orders(sizes), NEW trk, InUse(os, trk),
         NEW takes, NEW base, NEW next,
         NEW type \in [Leg -> OrderType],
         NEW asks \in SUBSET Leg, NEW want \in [Leg -> sizes],
         DispatchIf(takes, os, trk, base, type, asks, want, next)
  PROVE  /\ orders' \in Orders(sizes)
         /\ InUse(orders', tracked')
         /\ OnlyPlaces(os, orders', type, asks, want)
         /\ status' \in {base, next}
<1>2. PICK reply \in [Leg -> Replies], arrived \in SUBSET asks :
        /\ \A l \in arrived : Free(os, trk, l) # {}
        /\ orders' = [l \in Leg |-> IF l \in arrived
                                    THEN Placed(os, trk, l, type[l], want[l]) ELSE os[l]]
        /\ tracked' = trk \/ tracked' = trk \cup {<<l, FreeSlot(os, trk, l)>> : l \in arrived}
        /\ status' \in {base, next}
  BY DEF DispatchIf
<1>3. \A l \in arrived : FreeSlot(os, trk, l) \in 1..MaxOrders
                          /\ os[l][FreeSlot(os, trk, l)] = NoOrder
                          /\ <<l, FreeSlot(os, trk, l)>> \notin trk
  BY <1>2, FreeSlotIsFree DEF Free
<1>4. ASSUME NEW l \in Leg
      PROVE  /\ orders'[l] \in [1..MaxOrders -> Order(sizes)]
             /\ \A i \in 1..MaxOrders :
                  \/ orders'[l][i] = os[l][i]
                  \/ /\ l \in arrived /\ i = FreeSlot(os, trk, l)
                     /\ os[l][i] = NoOrder /\ orders'[l][i].state = "open"
                     /\ orders'[l][i].type = type[l] /\ orders'[l][i].left = want[l]
             /\ l \in arrived => orders'[l][FreeSlot(os, trk, l)].state = "open"
  <2>1. os[l] \in [1..MaxOrders -> Order(sizes)]
    BY DEF Orders
  <2>2. CASE l \in arrived
    <3> DEFINE new == [state |-> "open", type |-> type[l], left |-> want[l], told |-> FALSE]
    <3>1. orders'[l] = [os[l] EXCEPT ![FreeSlot(os, trk, l)] = new]
      BY <1>2, <2>2 DEF Placed
    <3>2. new \in Order(sizes)
      BY PlacedOrder
    <3>3. new.state = "open" /\ new.type = type[l] /\ new.left = want[l]
      OBVIOUS
    <3> HIDE DEF new
    <3> QED
      BY <1>3, <2>1, <2>2, <3>1, <3>2, <3>3
  <2>3. CASE l \notin arrived
    BY <1>2, <2>1, <2>3
  <2> QED
    BY <2>2, <2>3
<1>5. orders' \in Orders(sizes)
  <2>1. orders' = [l \in Leg |-> orders'[l]]
    BY <1>2
  <2> QED
    BY <1>4, <2>1 DEF Orders
<1>6. OnlyPlaces(os, orders', type, asks, want)
  BY <1>4 DEF OnlyPlaces
<1>7. InUse(orders', tracked')
  <2>1. ASSUME NEW s \in trk
        PROVE  s \in Slot /\ orders'[s[1]][s[2]].state # "free"
    <3>1. s \in Slot /\ s[1] \in Leg /\ s[2] \in 1..MaxOrders /\ os[s[1]][s[2]].state # "free"
      BY DEF InUse, Slot
    <3> QED
      BY <1>4, <3>1
  <2>2. ASSUME NEW l \in arrived
        PROVE  /\ <<l, FreeSlot(os, trk, l)>> \in Slot
               /\ orders'[l][FreeSlot(os, trk, l)].state # "free"
    BY <1>3, <1>4, l \in Leg DEF Slot
  <2>3. CASE tracked' = trk
    BY <2>1, <2>3 DEF InUse
  <2>4. CASE tracked' = trk \cup {<<l, FreeSlot(os, trk, l)>> : l \in arrived}
    BY <2>1, <2>2, <2>4 DEF InUse
  <2> QED
    BY <1>2, <2>3, <2>4
<1> QED
  BY <1>2, <1>5, <1>6, <1>7

(* Cancelling orders only ends them. *)
LEMMA CancelledEnds ==
  ASSUME NEW sizes, NEW os \in Orders(sizes), NEW S
  PROVE  /\ Cancelled(os, S) \in Orders(sizes)
         /\ OnlyEnds(os, Cancelled(os, S))
<1>1. ASSUME NEW l \in Leg, NEW i \in 1..MaxOrders, NEW o, o = os[l][i]
      PROVE  /\ o \in Order(sizes)
             /\ o.state = "open" => /\ [o EXCEPT !.state = "over"] \in Order(sizes)
                                    /\ [o EXCEPT !.state = "over"].state = "over"
  <2>1. o \in Order(sizes)
    BY <1>1 DEF Orders
  <2> QED
    BY <2>1 DEF Order, NoOrder
<1>2. \A l \in Leg, i \in 1..MaxOrders :
        /\ Cancelled(os, S)[l][i] \in Order(sizes)
        /\ Cancelled(os, S)[l][i] = os[l][i] \/ Cancelled(os, S)[l][i].state = "over"
  BY <1>1 DEF Cancelled
<1>3. Cancelled(os, S) = [l \in Leg |-> [i \in 1..MaxOrders |-> Cancelled(os, S)[l][i]]]
  BY DEF Cancelled
<1>4. Cancelled(os, S) \in Orders(sizes)
  BY <1>2, <1>3 DEF Orders
<1> QED
  BY <1>2, <1>4 DEF OnlyEnds

(* What ends is still in use. *)
LEMMA EndsStayInUse ==
  ASSUME NEW os, NEW qs, NEW trk, OnlyEnds(os, qs), InUse(os, trk)
  PROVE  InUse(qs, trk)
<1>1. ASSUME NEW s \in trk
      PROVE  qs[s[1]][s[2]].state # "free"
  <2>1. s[1] \in Leg /\ s[2] \in 1..MaxOrders /\ os[s[1]][s[2]].state # "free"
    BY DEF InUse, Slot
  <2> QED
    BY <2>1 DEF OnlyEnds
<1> QED
  BY <1>1 DEF InUse

(* The bounds are those of the setting. *)
LEMMA LegsTyped ==
  ASSUME setting' = setting, setting \in Settings,
         orders' \in Orders(Sizes(MaxSize)),
         position' \in [Leg -> Sizes(MaxSize)],
         size' \in [Leg -> Sizes(MaxSize)],
         tracked' \subseteq Slot, forced' \subseteq Slot,
         status' \in PairStatus,
         schedule' \in {NoSchedule} \cup 0..Chunks
  PROVE  LegsTypeOK'
BY DEF LegsTypeOK, Orders, MaxSize, Chunks

LEMMA InitialLegs ==
  ASSUME LegsInit
  PROVE  LegsTypeOK /\ InUse(orders, tracked)
<1>1. MaxSize \in Nat /\ Chunks \in Nat /\ 0 \in Sizes(MaxSize)
  BY SettingParts DEF LegsInit, Sizes
<1>2. NoOrder \in Order(Sizes(MaxSize))
  BY DEF Order
<1> QED
  BY <1>1, <1>2 DEF LegsInit, LegsTypeOK, InUse, PairStatus

-----------------------------------------------------------------------------
(* The exchanges fill and end orders, and open none. *)
OpensNone(os, qs) ==
  \A l \in Leg, i \in 1..MaxOrders : qs[l][i].state = "open" => os[l][i].state = "open"
FreesNone(os, qs) ==
  \A l \in Leg, i \in 1..MaxOrders : qs[l][i].state = "free" => os[l][i].state = "free"

LEMMA EndsOpenNone ==
  ASSUME NEW os, NEW qs, OnlyEnds(os, qs)
  PROVE  OpensNone(os, qs) /\ FreesNone(os, qs)
BY DEF OnlyEnds, OpensNone, FreesNone

LEMMA FreesNoneInUse ==
  ASSUME NEW os, NEW qs, NEW trk, FreesNone(os, qs), InUse(os, trk)
  PROVE  InUse(qs, trk)
BY DEF FreesNone, InUse, Slot

(* An order that is there is a record of its own. *)
LEMMA OrderIsThere ==
  ASSUME NEW sizes, NEW o \in Order(sizes), o.state # "free" \/ ~o.told
  PROVE  o \in [state : {"open", "over"}, type : OrderType, left : sizes, told : BOOLEAN]
BY DEF Order, NoOrder

LEMMA OrderAt ==
  ASSUME NEW sizes, orders \in Orders(sizes), NEW l \in Leg, NEW i \in 1..MaxOrders
  PROVE  orders[l][i] \in Order(sizes)
BY DEF Orders

(* Nothing or a part of what is left of an order is filled. *)
LEMMA FillablePart ==
  ASSUME NEW m \in Nat, NEW l, position[l] \in Int, NEW o, o.left \in Sizes(m),
         NEW n \in Fillable(l, o)
  PROVE  n \in Int /\ o.left - n \in Sizes(m)
<1> DEFINE whole == IF o.type # "close" THEN o.left
                    ELSE IF o.left < 0 /\ position[l] > 0
                    THEN IF o.left < -position[l] THEN -position[l] ELSE o.left
                    ELSE IF o.left > 0 /\ position[l] < 0
                    THEN IF o.left > -position[l] THEN -position[l] ELSE o.left
                    ELSE 0
<1>1. o.left \in Int /\ -m <= o.left /\ o.left <= m
  BY DEF Sizes
<1>2. /\ whole \in Int
      /\ whole > 0 => whole <= o.left
      /\ whole < 0 => o.left <= whole
  BY <1>1
<1>3. whole # 0 /\ n \in {whole, IF whole > 0 THEN 1 ELSE -1}
  BY DEF Fillable
<1> HIDE DEF whole
<1> QED
  BY <1>1, <1>2, <1>3 DEF Sizes

(* A fill brings what is left of an order closer to 0. *)
LEMMA FillType ==
  ASSUME setting \in Settings,
         NEW sizes, sizes \in {Sizes(MaxSize), Int}, orders \in Orders(sizes),
         position \in [Leg -> Sizes(MaxSize)],
         NEW l \in Leg, NEW i \in 1..MaxOrders, NEW n, Fills(l, i, n)
  PROVE  /\ orders' \in Orders(sizes)
         /\ n \in Int
         /\ position' = [position EXCEPT ![l] = position[l] + n]
         /\ position[l] + n \in Sizes(MaxSize)
         /\ OpensNone(orders, orders') /\ FreesNone(orders, orders')
<1> DEFINE o == orders[l][i]
<1>1. MaxSize \in Nat /\ position[l] \in Int
  BY SettingParts DEF Sizes
<1>2. /\ o \in Order(sizes) /\ o.state = "open"
      /\ o \in [state : {"open", "over"}, type : OrderType, left : sizes, told : BOOLEAN]
  <2>1. o \in Order(sizes) /\ o.state = "open"
    BY OrderAt DEF Fills
  <2> QED
    BY <2>1, OrderIsThere
<1> HIDE DEF o
<1>3. n \in Fillable(l, o) /\ position[l] + n \in Sizes(MaxSize)
  BY DEF Fills, Fillable, o
<1>4. n \in Int /\ o.left - n \in sizes
  <2>1. CASE sizes = Sizes(MaxSize)
    BY <1>1, <1>2, <1>3, <2>1, FillablePart
  <2>2. CASE sizes = Int
    <3>1. position[l] + n \in Int => n \in Int
      BY <1>1, <1>2, <1>3, <2>2 DEF Fillable
    <3> QED
      BY <1>1, <1>2, <1>3, <2>2, <3>1 DEF Sizes
  <2> QED
    BY <2>1, <2>2
<1>5. /\ AfterFill(o, n) \in Order(sizes)
      /\ AfterFill(o, n).state \in {"open", "over"}
  <2>1. 0 \in sizes
    BY <1>1 DEF Sizes
  <2> QED
    BY <1>2, <1>4, <2>1 DEF AfterFill, Order
<1>6. orders' = [orders EXCEPT ![l][i] = AfterFill(o, n)]
  BY DEF Fills, o
<1>7. \A k \in Leg, j \in 1..MaxOrders :
         orders'[k][j] = IF k = l /\ j = i THEN AfterFill(o, n) ELSE orders[k][j]
  BY <1>6 DEF Orders
<1>8. orders' \in Orders(sizes)
  BY <1>5, <1>6 DEF Orders
<1> QED
  BY <1>2, <1>3, <1>4, <1>5, <1>7, <1>8 DEF Fills, OpensNone, FreesNone, o

LEMMA DropType ==
  ASSUME NEW sizes, orders \in Orders(sizes), NEW l \in Leg, NEW i \in 1..MaxOrders, Drops(l, i)
  PROVE  orders' \in Orders(sizes) /\ OpensNone(orders, orders') /\ FreesNone(orders, orders')
<1> DEFINE o == orders[l][i]
<1>1. /\ o.state = "open"
      /\ o \in [state : {"open", "over"}, type : OrderType, left : sizes, told : BOOLEAN]
  BY OrderAt, OrderIsThere DEF Drops
<1> HIDE DEF o
<1>2. [o EXCEPT !.state = "over"] \in Order(sizes) /\ [o EXCEPT !.state = "over"].state = "over"
  BY <1>1 DEF Order
<1>3. orders' = [orders EXCEPT ![l][i] = [o EXCEPT !.state = "over"]]
  BY DEF Drops, Orders, o
<1>4. \A k \in Leg, j \in 1..MaxOrders :
         orders'[k][j] = IF k = l /\ j = i THEN [o EXCEPT !.state = "over"] ELSE orders[k][j]
  BY <1>3 DEF Orders
<1>5. orders' \in Orders(sizes)
  BY <1>2, <1>3 DEF Orders
<1> QED
  BY <1>1, <1>2, <1>4, <1>5 DEF OpensNone, FreesNone, o

(* Handling the end of an order frees its slot, and no tracked one. *)
LEMMA EndHandled ==
  ASSUME NEW sizes, orders \in Orders(sizes), InUse(orders, tracked),
         NEW l \in Leg, NEW i \in 1..MaxOrders
  PROVE  /\ [orders EXCEPT ![l][i] = NoOrder] \in Orders(sizes)
         /\ OpensNone(orders, [orders EXCEPT ![l][i] = NoOrder])
         /\ InUse([orders EXCEPT ![l][i] = NoOrder], tracked \ {<<l, i>>})
<1> DEFINE os == [orders EXCEPT ![l][i] = NoOrder]
<1>1. NoOrder \in Order(sizes) /\ NoOrder.state = "free"
  BY DEF Order, NoOrder
<1>2. \A k \in Leg, j \in 1..MaxOrders :
         os[k][j] = IF k = l /\ j = i THEN NoOrder ELSE orders[k][j]
  BY DEF Orders
<1>3. os \in Orders(sizes)
  BY <1>1 DEF Orders
<1>4. OpensNone(orders, os)
  BY <1>1, <1>2 DEF OpensNone
<1>5. ASSUME NEW s \in tracked \ {<<l, i>>}
      PROVE  os[s[1]][s[2]].state # "free"
  <2>1. s \in Leg \X (1..MaxOrders) /\ orders[s[1]][s[2]].state # "free"
    BY DEF InUse, Slot
  <2>2. s[1] \in Leg /\ s[2] \in 1..MaxOrders /\ ~(s[1] = l /\ s[2] = i)
    BY <2>1
  <2> QED
    BY <1>2, <2>1, <2>2
<1> QED
  BY <1>3, <1>4, <1>5 DEF InUse

(* Progress is told of an order that is there. *)
LEMMA ProgressHandled ==
  ASSUME NEW sizes, orders \in Orders(sizes), InUse(orders, tracked),
         NEW l \in Leg, NEW i \in 1..MaxOrders, ~orders[l][i].told
  PROVE  /\ [orders EXCEPT ![l][i].told = TRUE] \in Orders(sizes)
         /\ OpensNone(orders, [orders EXCEPT ![l][i].told = TRUE])
         /\ \A again \in SUBSET {<<l, i>>} :
              InUse([orders EXCEPT ![l][i].told = TRUE], tracked \cup again)
<1> DEFINE o == orders[l][i]
           os == [orders EXCEPT ![l][i].told = TRUE]
           q == [o EXCEPT !.told = TRUE]
<1>1. o \in [state : {"open", "over"}, type : OrderType, left : sizes, told : BOOLEAN]
  BY OrderAt, OrderIsThere
<1> HIDE DEF o
<1>2. q \in Order(sizes) /\ q.state = o.state /\ o.state # "free"
  BY <1>1 DEF Order
<1> HIDE DEF q
<1>3. os = [orders EXCEPT ![l][i] = q]
  BY DEF Orders, q, o
<1>4. \A k \in Leg, j \in 1..MaxOrders :
         os[k][j] = IF k = l /\ j = i THEN q ELSE orders[k][j]
  BY <1>3 DEF Orders
<1>5. os \in Orders(sizes)
  BY <1>2, <1>3 DEF Orders
<1>6. OpensNone(orders, os) /\ FreesNone(orders, os)
  BY <1>2, <1>4 DEF OpensNone, FreesNone, o
<1>7. InUse(os, tracked)
  BY <1>6, FreesNoneInUse
<1>8. <<l, i>> \in Slot /\ os[l][i].state # "free"
  BY <1>2, <1>4 DEF Slot
<1> QED
  BY <1>5, <1>6, <1>7, <1>8 DEF InUse
=============================================================================

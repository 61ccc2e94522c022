------------------------------ MODULE TwoLegs ------------------------------
(***************************************************************************)
(* What the strategies share (strategies/src/arbitrage/types.rs and the    *)
(* execution engines): a pair with two legs, its lifecycle status, the     *)
(* tracker of its orders, the dispatch of an order per leg, and the        *)
(* exchanges these orders rest at.                                         *)
(*                                                                         *)
(* Sizes count units in the direction of the leg: 2 is two units long on   *)
(* the long leg, two units short on the short leg, and the size of an      *)
(* order is what its fill adds.  Both legs have the same price.            *)
(***************************************************************************)
EXTENDS Integers

CONSTANTS
  Settings,  \* the circumstances that are explored
  MaxOrders  \* bound: orders of a leg an exchange accepts at a time

Setting ==
  [target : Nat \ {0},  \* target_notional, in units
   chunks : Nat \ {0},  \* DEFAULT_UNWIND_CHUNKS
   commands : SUBSET {"GracefulExit", "ForceExit", "Pause", "Emergency"},
                        \* of an operator that may come, and "Emergency"
   replies : SUBSET {"ok", "refused", "unanswered"},
                        \* to a submission that may occur
   lostCancels : BOOLEAN, \* whether a cancel may fail and leave the order open
   lostNews : BOOLEAN,    \* whether a position update may be lost on its way
   maxSize : Nat \ {0}]   \* bound: units of a position

ASSUME TwoLegsAssumption ==
  /\ Settings \subseteq {s \in Setting : s.target <= s.maxSize}
  /\ MaxOrders \in Nat \ {0}

VARIABLES
  setting,   \* never changes
  position,  \* size of each leg at its exchange
  orders,    \* orders of each leg, by slot, until their last event is handled
  size,      \* position_size of each leg as the strategy knows it
  tracked,   \* the OrderTracker: slots of its orders that are not terminal
  forced,    \* ... and of those it was made to call cancelled, and still has
  status,    \* PairStatus
  schedule   \* chunks the unwind schedule has left, NoSchedule without one

Target == setting.target
Chunks == setting.chunks
Commands == setting.commands
Replies == setting.replies
LostCancels == setting.lostCancels
LostNews == setting.lostNews
MaxSize == setting.maxSize

Leg == {"long", "short"}
Other(l) == IF l = "long" THEN "short" ELSE "long"
Slot == Leg \X (1..MaxOrders)
Sizes(n) == -n..n
NoSchedule == -1

Transitional == {"Entering", "Exiting", "Recovering", "Unwinding"}
PairStatus == {"Inactive", "Active"} \cup Transitional

\* "close" is a market order that is reduce_only
OrderType == {"limit", "market", "close"}
NoOrder == [state |-> "free", type |-> "limit", left |-> 0, told |-> TRUE]
\* an order that is "over" has still to tell the strategy so; one that has not
\* "told" has an event on its way that does not end it
Order(sizes) == {NoOrder} \cup
  [state : {"open", "over"}, type : OrderType, left : sizes, told : BOOLEAN]

LegsTypeOK ==
  /\ setting \in Settings
  /\ position \in [Leg -> Sizes(MaxSize)]
  /\ orders \in [Leg -> [1..MaxOrders -> Order(Sizes(MaxSize))]]
  /\ size \in [Leg -> Sizes(MaxSize)]
  /\ tracked \subseteq Slot
  /\ forced \subseteq Slot
  /\ status \in PairStatus
  /\ schedule \in {NoSchedule} \cup 0..Chunks

LegsInit ==
  /\ setting \in Settings
  /\ position = [l \in Leg |-> 0]
  /\ orders = [l \in Leg |-> [i \in 1..MaxOrders |-> NoOrder]]
  /\ size = [l \in Leg |-> 0]
  /\ tracked = {}
  /\ forced = {}
  /\ status = "Inactive"
  /\ schedule = NoSchedule

-----------------------------------------------------------------------------
(* The pair, whose sizes are s *)
Entered(s) == \A l \in Leg : s[l] # 0
Exited(s) == \A l \in Leg : s[l] = 0
OneLegged(s) == ~Entered(s) /\ ~Exited(s)

CloseSameSide(s) == s
CloseSizes(s) == [l \in Leg |-> -s[l]]

Abs(n) == IF n < 0 THEN -n ELSE n

(* The leg that is missing is to match the other one. *)
RecoverySizes(s) == [l \in Leg |-> IF s[l] = 0 THEN Abs(s[Other(l)]) ELSE 0]

(* A chunk of an unwind with n chunks left.  A unit is a lot, and the order   *)
(* manager rounds an order down to lots: there may be none left of a chunk.  *)
RoundedDown(k, n) == IF k < 0 THEN -(Abs(k) \div n) ELSE k \div n
ChunkOf(n, s) == [l \in Leg |-> RoundedDown(-s[l], n)]

UnwindNone(s) == [l \in Leg |-> 0]
UnwindAll(s) == CloseSizes(s)
UnwindSizes(s) == IF schedule > 0 THEN ChunkOf(schedule, s) ELSE UnwindAll(s)
AdvanceUnchecked(n) == n - 1
Advance(n) == IF n > 0 THEN n - 1 ELSE n

-----------------------------------------------------------------------------
(* Orders, starting from the orders os and the tracker trk *)
Free(os, trk, l) == {i \in 1..MaxOrders : os[l][i] = NoOrder /\ <<l, i>> \notin trk}
FreeSlot(os, trk, l) == CHOOSE i \in Free(os, trk, l) : TRUE

Placed(os, trk, l, type, n) ==
  [os[l] EXCEPT ![FreeSlot(os, trk, l)] =
     [state |-> "open", type |-> type, left |-> n, told |-> FALSE]]

(* dispatch_legs: an order on each leg of asks, the long leg first; an error  *)
(* returns at once, and only when both are placed are they tracked and does  *)
(* the status change, from base to next.  The order of leg l has the type    *)
(* type[l], and its exchange refuses it unless takes[l]; an order of no lots *)
(* is taken, and its rejection follows.  At the bound the first order is     *)
(* refused.                                                                  *)
DispatchIf(takes, os, trk, base, type, asks, want, next) ==
  \E reply \in [Leg -> Replies] :
    LET room    == \A l \in asks : Free(os, trk, l) # {}
        in(l)   == room /\ takes[l]
        ok(l)   == reply[l] = "ok" /\ in(l)
        tried   == {l \in asks : l = "short" => "long" \notin asks \/ ok("long")}
        arrived == {l \in tried : reply[l] # "refused" /\ in(l)}
        done    == \A l \in tried : ok(l)
    IN /\ orders' = [l \in Leg |-> IF l \in arrived
                                   THEN Placed(os, trk, l, type[l], want[l]) ELSE os[l]]
       /\ tracked' = trk \cup IF done THEN {<<l, FreeSlot(os, trk, l)>> : l \in arrived}
                              ELSE {}
       /\ status' = IF done THEN next ELSE base

Both(x) == [l \in Leg |-> x]
Sized(want) == {l \in Leg : want[l] # 0}
Dispatch(os, trk, base, type, want, next) ==
  DispatchIf(Both(TRUE), os, trk, base, Both(type), Sized(want), want, next)

(* A chunk is asked for on the legs that hold something. *)
DispatchChunk(os, trk, base, s, want) ==
  DispatchIf(Both(TRUE), os, trk, base, Both("close"), Sized(s), want, "Unwinding")

(* Cancelling the orders in the slots S ends those that are open, except     *)
(* those whose cancel gets lost.                                             *)
Cancelled(os, S) ==
  [l \in Leg |-> [i \in 1..MaxOrders |->
     IF <<l, i>> \in S /\ os[l][i].state = "open"
     THEN [os[l][i] EXCEPT !.state = "over"] ELSE os[l][i]]]

Cancellations(S) == IF LostCancels THEN SUBSET S ELSE {S}

-----------------------------------------------------------------------------
(* The exchanges *)

(* What may be filled of an order at once: a unit or everything.  An order   *)
(* that is reduce_only never takes the position beyond 0.                    *)
Fillable(l, o) ==
  LET whole == IF o.type # "close" THEN o.left
               ELSE IF o.left < 0 /\ position[l] > 0
               THEN IF o.left < -position[l] THEN -position[l] ELSE o.left
               ELSE IF o.left > 0 /\ position[l] < 0
               THEN IF o.left > -position[l] THEN -position[l] ELSE o.left
               ELSE 0
      unit == IF whole > 0 THEN 1 ELSE -1
  IN {n \in {whole, unit} : whole # 0 /\ position[l] + n \in Sizes(MaxSize)}

AfterFill(o, n) ==
  IF o.left = n THEN [o EXCEPT !.left = 0, !.state = "over"]
                ELSE [o EXCEPT !.left = @ - n, !.told = FALSE]

Fills(l, i, n) ==
  /\ orders[l][i].state = "open"
  /\ n \in Fillable(l, orders[l][i])
  /\ position' = [position EXCEPT ![l] = @ + n]
  /\ orders' = [orders EXCEPT ![l][i] = AfterFill(@, n)]

(* A post-only order would cross, a reduce_only one has nothing to reduce, a *)
(* market order finds no liquidity: the exchange ends the order.             *)
Drops(l, i) ==
  /\ orders[l][i].state = "open"
  /\ orders' = [orders EXCEPT ![l][i].state = "over"]

=============================================================================

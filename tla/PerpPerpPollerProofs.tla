------------------------ MODULE PerpPerpPollerProofs ------------------------
(***************************************************************************)
(* What the perp/perp strategy keeps, for every setting: the tracked       *)
(* orders can still end, sizes catch up with the exchanges, and a pair     *)
(* that closes takes no new risk.                                          *)
(***************************************************************************)
EXTENDS PerpPerpPoller, TwoLegsProofs

(* The last update on its way tells the position, and without one the        *)
(* strategy knows it.                                                        *)
UpdatesEndAtPosition ==
  ~LostNews => \A l \in Leg : IF news[l] = <<>> THEN size[l] = position[l]
                              ELSE news[l][Len(news[l])] = position[l]

Inv == TypeOK /\ TrackedWillReport /\ UpdatesEndAtPosition

(* Of a step: what the strategy changes stays typed ... *)
StrategyTyped ==
  /\ orders' \in Orders(Sizes(MaxSize))
  /\ InUse(orders', tracked')
  /\ forced' \subseteq Slot
  /\ status' \in PairStatus
  /\ schedule' \in {NoSchedule} \cup 0..Chunks
  /\ clock' \in {"unset", "running", "overdue"}

(* ... and what it opens is to close the pair. *)
NewCloses ==
  \A l \in Leg, i \in 1..MaxOrders : IsNew(l, i) => orders'[l][i].type = "close"
ClosesWhileClosing == status \in {"Exiting", "Unwinding"} => NewCloses

LEMMA InvParts ==
  ASSUME Inv
  PROVE  /\ setting \in Settings /\ orders \in Orders(Sizes(MaxSize)) /\ InUse(orders, tracked)
         /\ size \in [Leg -> Sizes(MaxSize)] /\ position \in [Leg -> Sizes(MaxSize)]
         /\ forced \subseteq Slot /\ tracked \subseteq Slot
         /\ status \in PairStatus /\ schedule \in {NoSchedule} \cup 0..Chunks
         /\ news \in [Leg -> Seq(Sizes(MaxSize))]
         /\ clock \in {"unset", "running", "overdue"}
BY DEF Inv, TypeOK, LegsTypeOK, Orders, InUse, TrackedWillReport

-----------------------------------------------------------------------------
(* What a dispatch leaves, from orders that opened none before it. *)
LEMMA DispatchIfKeeps ==
  ASSUME setting \in Settings, NEW os \in Orders(Sizes(MaxSize)), NEW trk, InUse(os, trk),
         OpensNone(orders, os),
         NEW base \in PairStatus, NEW next \in PairStatus,
         NEW type \in OrderType, NEW asks \in SUBSET Leg,
         NEW want \in [Leg -> Sizes(MaxSize)],
         DispatchIf(Both(TRUE), os, trk, base, Both(type), asks, want, next)
  PROVE  /\ orders' \in Orders(Sizes(MaxSize)) /\ InUse(orders', tracked')
         /\ status' \in {base, next} /\ status' \in PairStatus
         /\ type = "close" => NewCloses
<1>1. Both(type) \in [Leg -> OrderType] /\ \A l \in Leg : Both(type)[l] = type
  BY DEF Both
<1>2. /\ orders' \in Orders(Sizes(MaxSize)) /\ InUse(orders', tracked')
      /\ OnlyPlaces(os, orders', Both(type), asks, want) /\ status' \in {base, next}
  BY <1>1, DispatchPlaces
<1> QED
  BY <1>1, <1>2 DEF OnlyPlaces, OpensNone, NewCloses, IsNew

LEMMA DispatchKeeps ==
  ASSUME setting \in Settings, NEW os \in Orders(Sizes(MaxSize)), NEW trk, InUse(os, trk),
         OpensNone(orders, os),
         NEW base \in PairStatus, NEW next \in PairStatus,
         NEW type \in OrderType, NEW want \in [Leg -> Sizes(MaxSize)],
         Dispatch(os, trk, base, type, want, next)
  PROVE  /\ orders' \in Orders(Sizes(MaxSize)) /\ InUse(orders', tracked')
         /\ status' \in {base, next} /\ status' \in PairStatus
         /\ type = "close" => NewCloses
<1>1. Sized(want) \in SUBSET Leg
  BY DEF Sized
<1> QED
  BY <1>1, DispatchIfKeeps DEF Dispatch

LEMMA ChunkKeeps ==
  ASSUME setting \in Settings, NEW os \in Orders(Sizes(MaxSize)), NEW trk, InUse(os, trk),
         OpensNone(orders, os),
         NEW base \in PairStatus, NEW s, NEW want \in [Leg -> Sizes(MaxSize)],
         DispatchChunk(os, trk, base, s, want)
  PROVE  /\ orders' \in Orders(Sizes(MaxSize)) /\ InUse(orders', tracked')
         /\ status' \in PairStatus /\ NewCloses
<1>1. Sized(s) \in SUBSET Leg
  BY DEF Sized
<1>2. "Unwinding" \in PairStatus /\ "close" \in OrderType
  BY DEF PairStatus, Transitional, OrderType
<1> QED
  BY <1>1, <1>2, DispatchIfKeeps DEF DispatchChunk

(* The engine's actions *)
LEMMA ExitKeeps ==
  ASSUME Inv, NEW os \in Orders(Sizes(MaxSize)), NEW trk, InUse(os, trk), OpensNone(orders, os),
         NEW base \in PairStatus, Exit(os, trk, base)
  PROVE  /\ orders' \in Orders(Sizes(MaxSize)) /\ InUse(orders', tracked')
         /\ status' \in PairStatus /\ NewCloses
<1>1. CloseSizes(size) \in [Leg -> Sizes(MaxSize)] /\ setting \in Settings
  BY InvParts, CloseType
<1>2. "Exiting" \in PairStatus /\ "close" \in OrderType
  BY DEF PairStatus, Transitional, OrderType
<1> QED
  BY <1>1, <1>2, DispatchKeeps DEF Exit

LEMMA UnwindKeeps ==
  ASSUME Inv, NEW os \in Orders(Sizes(MaxSize)), NEW trk, InUse(os, trk), OpensNone(orders, os),
         NEW base \in PairStatus, Unwind(os, trk, base)
  PROVE  /\ orders' \in Orders(Sizes(MaxSize)) /\ InUse(orders', tracked')
         /\ status' \in PairStatus /\ NewCloses
<1>1. UnwindSizes(size) \in [Leg -> Sizes(MaxSize)] /\ setting \in Settings
  BY InvParts, UnwindType
<1> QED
  BY <1>1, ChunkKeeps DEF Unwind

LEMMA RecoverKeeps ==
  ASSUME Inv, NEW os \in Orders(Sizes(MaxSize)), NEW trk, InUse(os, trk), OpensNone(orders, os),
         NEW base \in PairStatus, Recover(os, trk, base, RecoverySizes(size))
  PROVE  /\ orders' \in Orders(Sizes(MaxSize)) /\ InUse(orders', tracked') /\ status' \in PairStatus
<1>1. RecoverySizes(size) \in [Leg -> Sizes(MaxSize)] /\ setting \in Settings
  BY InvParts, RecoveryType
<1>2. "Recovering" \in PairStatus /\ "limit" \in OrderType
  BY DEF PairStatus, Transitional, OrderType
<1> QED
  BY <1>1, <1>2, DispatchKeeps DEF Recover

LEMMA NoActionKeeps ==
  ASSUME NEW os \in Orders(Sizes(MaxSize)), NEW trk, InUse(os, trk), OpensNone(orders, os),
         NEW base \in PairStatus, NoAction(os, trk, base)
  PROVE  /\ orders' \in Orders(Sizes(MaxSize)) /\ InUse(orders', tracked')
         /\ status' \in PairStatus /\ NewCloses
BY DEF NoAction, NewCloses, IsNew, OpensNone

(* Orders that are left alone, or of which some are cancelled *)
LEMMA CancelledKeeps ==
  ASSUME Inv, NEW S
  PROVE  /\ Cancelled(orders, S) \in Orders(Sizes(MaxSize))
         /\ InUse(Cancelled(orders, S), tracked)
         /\ InUse(Cancelled(orders, S), {})
         /\ OpensNone(orders, Cancelled(orders, S))
<1>1. orders \in Orders(Sizes(MaxSize)) /\ InUse(orders, tracked)
  BY InvParts
<1>2. Cancelled(orders, S) \in Orders(Sizes(MaxSize)) /\ OnlyEnds(orders, Cancelled(orders, S))
  BY <1>1, CancelledEnds
<1>3. OpensNone(orders, Cancelled(orders, S))
  BY <1>2, EndsOpenNone
<1>4. InUse(Cancelled(orders, S), tracked)
  BY <1>1, <1>2, EndsStayInUse
<1> QED
  BY <1>2, <1>3, <1>4 DEF InUse

LEMMA StaleCancelledKeeps ==
  ASSUME Inv, NEW os \in StaleCancelled
  PROVE  os \in Orders(Sizes(MaxSize)) /\ InUse(os, tracked) /\ OpensNone(orders, os)
BY CancelledKeeps DEF StaleCancelled

LEMMA OrdersKept ==
  ASSUME Inv
  PROVE  orders \in Orders(Sizes(MaxSize)) /\ InUse(orders, tracked) /\ OpensNone(orders, orders)
BY InvParts DEF OpensNone

-----------------------------------------------------------------------------
(* What the strategy does when an event has left os and trk *)
LEMMA TransitionsKeep ==
  ASSUME Inv, NEW os \in Orders(Sizes(MaxSize)), NEW trk, InUse(os, trk), OpensNone(orders, os),
         NEW ended, CheckTransitions(os, trk, ended)
  PROVE  StrategyTyped /\ ClosesWhileClosing
<1> USE DEF StrategyTyped, ClosesWhileClosing
<1>1. /\ setting \in Settings /\ size \in [Leg -> Sizes(MaxSize)]
      /\ forced \subseteq Slot /\ status \in PairStatus
      /\ schedule \in {NoSchedule} \cup 0..Chunks
      /\ clock \in {"unset", "running", "overdue"}
  BY InvParts
<1>2. /\ Transitional \subseteq PairStatus /\ {"Active", "Inactive"} \subseteq PairStatus
      /\ {"Entering", "Exiting", "Recovering", "Unwinding"} = Transitional
  BY DEF PairStatus, Transitional
<1>3. CASE /\ NoAction(os, trk, status)
           /\ UNCHANGED <<schedule, clock>>
           /\ forced' = forced \ ended
  BY <1>1, <1>3, NoActionKeeps
<1>4. CASE /\ status \in {"Entering", "Recovering"}
           /\ IF Entered(size)
              THEN NoAction(os, trk, "Active")
              ELSE IF OneLegged(size)
              THEN Recover(os, trk, "Recovering", RecoverySizes(size))
              ELSE NoAction(os, trk, "Recovering")
           /\ clock' = IF status = "Recovering" /\ Entered(size) THEN "unset" ELSE clock
           /\ forced' = {} /\ UNCHANGED schedule
  <2>1. orders' \in Orders(Sizes(MaxSize)) /\ InUse(orders', tracked') /\ status' \in PairStatus
    <3>1. CASE NoAction(os, trk, "Active")
      BY <1>2, <3>1, NoActionKeeps
    <3>2. CASE NoAction(os, trk, "Recovering")
      BY <1>2, <3>2, NoActionKeeps
    <3>3. CASE Recover(os, trk, "Recovering", RecoverySizes(size))
      BY <1>2, <3>3, RecoverKeeps
    <3> QED
      BY <1>4, <3>1, <3>2, <3>3
  <2> QED
    BY <1>1, <1>4, <2>1
<1>5. CASE /\ IF Exited(size) THEN NoAction(os, trk, "Inactive")
              ELSE Exit(os, trk, "Exiting")
           /\ forced' = {} /\ UNCHANGED <<schedule, clock>>
  <2>1. CASE NoAction(os, trk, "Inactive")
    BY <1>1, <1>2, <1>5, <2>1, NoActionKeeps
  <2>2. CASE Exit(os, trk, "Exiting")
    BY <1>1, <1>2, <1>5, <2>2, ExitKeeps
  <2> QED
    BY <1>5, <2>1, <2>2
<1>6. CASE /\ IF Exited(size)
              THEN NoAction(os, trk, "Inactive") /\ schedule' = NoSchedule
              ELSE Unwind(os, trk, "Unwinding") /\ schedule' = Advance(schedule)
           /\ forced' = {} /\ UNCHANGED clock
  <2>1. CASE NoAction(os, trk, "Inactive") /\ schedule' = NoSchedule
    BY <1>1, <1>2, <1>6, <2>1, NoActionKeeps
  <2>2. CASE Unwind(os, trk, "Unwinding") /\ schedule' = Advance(schedule)
    BY <1>1, <1>2, <1>6, <2>2, UnwindKeeps, UnwindType
  <2> QED
    BY <1>6, <2>1, <2>2
<1> QED
  BY <1>3, <1>4, <1>5, <1>6 DEF CheckTransitions

(* Events: the end of an order, and news of one that goes on *)
LEMMA OrderEventKeeps ==
  ASSUME Inv, NEW l \in Leg, NEW i \in 1..MaxOrders,
         HandleOrderUpdate(l, i) \/ HandleOrderProgress(l, i)
  PROVE  StrategyTyped /\ ClosesWhileClosing
<1>1. orders \in Orders(Sizes(MaxSize)) /\ InUse(orders, tracked)
  BY InvParts
<1>2. CASE HandleOrderUpdate(l, i)
  <2> DEFINE os == [orders EXCEPT ![l][i] = NoOrder]
  <2>1. os \in Orders(Sizes(MaxSize)) /\ InUse(os, tracked \ {<<l, i>>}) /\ OpensNone(orders, os)
    BY <1>1, EndHandled
  <2>2. CheckTransitions(os, tracked \ {<<l, i>>}, {<<l, i>>})
    BY <1>2 DEF HandleOrderUpdate, TrackerAfter
  <2> HIDE DEF os
  <2> QED
    BY <2>1, <2>2, TransitionsKeep
<1>3. CASE HandleOrderProgress(l, i)
  <2> DEFINE os == [orders EXCEPT ![l][i].told = TRUE]
             again == forced \cap {<<l, i>>}
  <2>1. ~orders[l][i].told /\ CheckTransitions(os, tracked \cup again, again)
    BY <1>3 DEF HandleOrderProgress
  <2>2. again \in SUBSET {<<l, i>>}
    OBVIOUS
  <2>3. os \in Orders(Sizes(MaxSize)) /\ InUse(os, tracked \cup again) /\ OpensNone(orders, os)
    BY <1>1, <2>1, <2>2, ProgressHandled
  <2> HIDE DEF os, again
  <2> QED
    BY <2>1, <2>3, TransitionsKeep
<1> QED
  BY <1>2, <1>3

(* A poll that continues to close the pair *)
LEMMA ClosingKeeps ==
  ASSUME Inv, ContinueUnwind \/ ContinueExit
  PROVE  StrategyTyped /\ ClosesWhileClosing
<1> USE DEF StrategyTyped, ClosesWhileClosing
<1>1. /\ setting \in Settings /\ size \in [Leg -> Sizes(MaxSize)]
      /\ forced \subseteq Slot /\ status \in PairStatus
      /\ schedule \in {NoSchedule} \cup 0..Chunks
      /\ clock \in {"unset", "running", "overdue"}
  BY InvParts
<1>2. "Inactive" \in PairStatus /\ NoSchedule \in {NoSchedule} \cup 0..Chunks
      /\ Advance(schedule) \in {NoSchedule} \cup 0..Chunks
  BY <1>1, UnwindType DEF PairStatus
<1>3. PICK os \in StaleCancelled :
        \/ NoAction(os, tracked, "Inactive")
        \/ NoAction(os, tracked, status)
        \/ Unwind(os, tracked, status)
        \/ Exit(os, tracked, status)
  BY DEF ContinueUnwind, ContinueExit
<1>4. os \in Orders(Sizes(MaxSize)) /\ InUse(os, tracked) /\ OpensNone(orders, os)
  BY StaleCancelledKeeps
<1>5. /\ orders' \in Orders(Sizes(MaxSize)) /\ InUse(orders', tracked')
      /\ status' \in PairStatus /\ NewCloses
  <2>1. CASE NoAction(os, tracked, "Inactive")
    BY <1>2, <1>4, <2>1, NoActionKeeps
  <2>2. CASE NoAction(os, tracked, status)
    BY <1>1, <1>4, <2>2, NoActionKeeps
  <2>3. CASE Unwind(os, tracked, status)
    BY <1>1, <1>4, <2>3, UnwindKeeps
  <2>4. CASE Exit(os, tracked, status)
    BY <1>1, <1>4, <2>4, ExitKeeps
  <2> QED
    BY <1>3, <2>1, <2>2, <2>3, <2>4
<1>6. forced' \subseteq Slot /\ clock' \in {"unset", "running", "overdue"}
      /\ schedule' \in {NoSchedule} \cup 0..Chunks
  BY <1>1, <1>2 DEF ContinueUnwind, ContinueExit
<1> QED
  BY <1>5, <1>6

(* A poll of a pair that recovers *)
LEMMA RecoveryKeeps ==
  ASSUME Inv, \/ RecoveryIsOver \/ RecoveryRests
              \/ RecoveryReprices \/ RecoveryChases \/ RecoveryAborts
  PROVE  StrategyTyped /\ ClosesWhileClosing
<1>1. /\ setting \in Settings /\ size \in [Leg -> Sizes(MaxSize)]
      /\ forced \subseteq Slot /\ status \in PairStatus
      /\ schedule \in {NoSchedule} \cup 0..Chunks
      /\ clock \in {"unset", "running", "overdue"}
  BY InvParts
<1>2. /\ status = "Recovering"
      /\ schedule' = schedule
      /\ forced' = forced \/ forced' = {}
      /\ clock' \in {"unset", "running"}
  BY DEF RecoveryIsOver, RecoveryRests, RecoveryReprices, RecoveryChases,
     RecoveryAborts, Recovers, Acts, Running
<1>3. {"Active", "Inactive"} \subseteq PairStatus /\ "market" \in OrderType
  BY DEF PairStatus, OrderType
<1>4. orders' \in Orders(Sizes(MaxSize)) /\ InUse(orders', tracked') /\ status' \in PairStatus
  <2>1. CASE RecoveryIsOver
    <3>1. NoAction(orders, tracked, IF Entered(size) THEN "Active" ELSE "Inactive")
      BY <2>1 DEF RecoveryIsOver
    <3>2. (IF Entered(size) THEN "Active" ELSE "Inactive") \in PairStatus
      BY <1>3
    <3> QED
      BY <3>1, <3>2, OrdersKept, NoActionKeeps
  <2>2. CASE RecoveryRests
    <3>1. NoAction(orders, tracked, status)
      BY <2>2 DEF RecoveryRests
    <3> QED
      BY <1>1, <3>1, OrdersKept, NoActionKeeps
  <2>3. CASE RecoveryReprices
    <3>1. PICK gone \in Cancellations(tracked) :
            Recover(Cancelled(orders, gone), {}, status, RecoverySizes(size))
      BY <2>3 DEF RecoveryReprices
    <3> QED
      BY <1>1, <3>1, CancelledKeeps, RecoverKeeps
  <2>4. CASE RecoveryChases
    <3>1. PICK gone \in Cancellations(tracked) :
            Dispatch(Cancelled(orders, gone), {}, status, "market", RecoverySizes(size), status)
      BY <2>4 DEF RecoveryChases
    <3>2. RecoverySizes(size) \in [Leg -> Sizes(MaxSize)]
      BY <1>1, RecoveryType
    <3> QED
      BY <1>1, <1>3, <3>1, <3>2, CancelledKeeps, DispatchKeeps
  <2>5. CASE RecoveryAborts
    <3>1. PICK gone \in Cancellations(tracked) : Exit(Cancelled(orders, gone), {}, status)
      BY <2>5 DEF RecoveryAborts
    <3> QED
      BY <1>1, <3>1, CancelledKeeps, ExitKeeps
  <2> QED
    BY <2>1, <2>2, <2>3, <2>4, <2>5
<1> QED
  BY <1>1, <1>2, <1>4 DEF StrategyTyped, ClosesWhileClosing

(* An emergency, and the decisions on a pair that is in no transition but,   *)
(* perhaps, into its positions *)
LEMMA DecisionKeeps ==
  ASSUME Inv, \/ EmergencyExit \/ DecideEnter \/ DecideExit \/ DecideRebalance
              \/ \E s \in {"Inactive", "Active", "Entering"} : DoNothing(s)
  PROVE  StrategyTyped /\ ClosesWhileClosing
<1>1. /\ setting \in Settings /\ size \in [Leg -> Sizes(MaxSize)]
      /\ forced \subseteq Slot /\ tracked \subseteq Slot /\ status \in PairStatus
      /\ schedule \in {NoSchedule} \cup 0..Chunks
      /\ clock \in {"unset", "running", "overdue"}
  BY InvParts
<1>2. /\ status \in {"Inactive", "Active", "Entering"}
      /\ schedule' = schedule /\ clock' = clock
      /\ forced' = forced \/ forced' = forced \cup tracked
  BY DEF EmergencyExit, DecideEnter, DecideExit, DecideRebalance, DoNothing, Acts
<1>3. "Entering" \in PairStatus /\ "limit" \in OrderType
  BY DEF PairStatus, Transitional, OrderType
<1>4. orders' \in Orders(Sizes(MaxSize)) /\ InUse(orders', tracked') /\ status' \in PairStatus
  <2>1. CASE EmergencyExit
    <3>1. PICK gone \in Cancellations(tracked) : Exit(Cancelled(orders, gone), {}, status)
      BY <2>1 DEF EmergencyExit
    <3> QED
      BY <1>1, <3>1, CancelledKeeps, ExitKeeps
  <2>2. CASE DecideEnter
    <3>1. PICK os \in StaleCancelled : Enter(os, tracked, status, EnterWanted)
      BY <2>2 DEF DecideEnter
    <3>2. os \in Orders(Sizes(MaxSize)) /\ InUse(os, tracked) /\ OpensNone(orders, os)
      BY StaleCancelledKeeps
    <3>3. EnterWanted \in [Leg -> Sizes(MaxSize)]
      <4>1. Target \in Sizes(MaxSize)
        BY <1>1, SettingParts DEF Sizes
      <4> QED
        BY <1>1, <4>1, RecoveryType DEF EnterWanted
    <3>4. Dispatch(os, tracked, status, "limit", EnterWanted, "Entering")
      BY <3>1 DEF Enter
    <3> QED
      BY <1>1, <1>3, <3>2, <3>3, <3>4, DispatchKeeps
  <2>3. CASE DecideExit
    <3>1. PICK os \in StaleCancelled : Exit(os, tracked, status)
      BY <2>3 DEF DecideExit
    <3> QED
      BY <1>1, <3>1, StaleCancelledKeeps, ExitKeeps
  <2>4. CASE DecideRebalance
    <3>1. PICK l \in Leg, gone \in Cancellations(tracked) :
            Dispatch(Cancelled(orders, gone), {}, status, "limit",
                     [k \in Leg |-> IF k = l THEN -1 ELSE 1], status)
      BY <2>4 DEF DecideRebalance
    <3>2. -1 \in Sizes(MaxSize) /\ 1 \in Sizes(MaxSize)
      BY <1>1, SettingParts DEF Sizes
    <3>3. [k \in Leg |-> IF k = l THEN -1 ELSE 1] \in [Leg -> Sizes(MaxSize)]
      BY <3>2
    <3> QED
      BY <1>1, <1>3, <3>1, <3>3, CancelledKeeps, DispatchKeeps
  <2>5. CASE \E s \in {"Inactive", "Active", "Entering"} : DoNothing(s)
    <3>1. PICK os \in StaleCancelled \cup {orders} : NoAction(os, tracked, status)
      BY <2>5 DEF DoNothing
    <3> QED
      BY <1>1, <3>1, StaleCancelledKeeps, OrdersKept, NoActionKeeps
  <2> QED
    BY <2>1, <2>2, <2>3, <2>4, <2>5
<1> QED
  BY <1>1, <1>2, <1>4 DEF StrategyTyped, ClosesWhileClosing

(* An operator's exits *)
LEMMA ExitCommandKeeps ==
  ASSUME Inv, GracefulExit \/ ForceExit
  PROVE  StrategyTyped /\ ClosesWhileClosing
<1>1. /\ setting \in Settings /\ size \in [Leg -> Sizes(MaxSize)]
      /\ forced \subseteq Slot /\ status \in PairStatus
      /\ schedule \in {NoSchedule} \cup 0..Chunks
      /\ clock \in {"unset", "running", "overdue"}
  BY InvParts
<1>2. Chunks \in Nat \ {0}
  BY <1>1, SettingParts
<1>3. /\ forced' = forced /\ clock' = clock
      /\ schedule' = schedule \/ schedule' = Chunks - 1
  BY DEF GracefulExit, ForceExit
<1>4. schedule' \in {NoSchedule} \cup 0..Chunks
  BY <1>1, <1>2, <1>3
<1>5. /\ orders' \in Orders(Sizes(MaxSize)) /\ InUse(orders', tracked')
      /\ status' \in PairStatus /\ NewCloses
  <2>1. CASE GracefulExit
    <3>1. DispatchChunk(orders, tracked, status, size, ChunkOf(Chunks, size))
      BY <2>1 DEF GracefulExit
    <3>2. ChunkOf(Chunks, size) \in [Leg -> Sizes(MaxSize)]
      BY <1>1, <1>2, ChunkType
    <3> QED
      BY <1>1, <3>1, <3>2, OrdersKept, ChunkKeeps
  <2>2. CASE ForceExit
    <3>1. Exit(orders, tracked, status)
      BY <2>2 DEF ForceExit
    <3> QED
      BY <1>1, <3>1, OrdersKept, ExitKeeps
  <2> QED
    BY <2>1, <2>2
<1> QED
  BY <1>1, <1>3, <1>4, <1>5 DEF StrategyTyped, ClosesWhileClosing

(* What leaves the strategy alone, but for what it knows of the sizes *)
LEMMA ActivePair ==
  ASSUME Inv, NEW s
  PROVE  Active(s) \in PairStatus
BY InvParts DEF Active, PairStatus

LEMMA OthersKeep ==
  ASSUME Inv, \/ \E answered \in SUBSET Leg : PollSync(answered)
              \/ \E l \in Leg : HandlePositionUpdate(l)
              \/ PauseOrResume \/ TimePasses
              \/ UNCHANGED <<setting, vars>>
  PROVE  StrategyTyped /\ ClosesWhileClosing
<1>1. /\ orders' = orders /\ tracked' = tracked /\ forced' = forced
      /\ schedule' = schedule
      /\ clock' = clock \/ clock' = "overdue"
      /\ status' = status \/ \E s \in {size'} : status' = Active(s)
  BY DEF PollSync, HandlePositionUpdate, PauseOrResume, TimePasses, vars, legs
<1> QED
  BY <1>1, InvParts, ActivePair DEF StrategyTyped, ClosesWhileClosing, NewCloses, IsNew

LEMMA ExchangeKeeps ==
  ASSUME Inv, NEW l \in Leg, NEW i \in 1..MaxOrders, Fill(l, i) \/ Drop(l, i)
  PROVE  StrategyTyped /\ ClosesWhileClosing
<1>1. orders \in Orders(Sizes(MaxSize)) /\ InUse(orders, tracked) /\ setting \in Settings
      /\ position \in [Leg -> Sizes(MaxSize)]
  BY InvParts
<1>2. orders' \in Orders(Sizes(MaxSize)) /\ OpensNone(orders, orders') /\ FreesNone(orders, orders')
  <2>1. CASE Fill(l, i)
    <3>1. PICK n : Fills(l, i, n)
      BY <2>1 DEF Fill
    <3> QED
      BY <1>1, <3>1, FillType
  <2>2. CASE Drop(l, i)
    BY <1>1, <2>2, DropType DEF Drop
  <2> QED
    BY <2>1, <2>2
<1>3. InUse(orders', tracked)
  BY <1>1, <1>2, FreesNoneInUse
<1>4. UNCHANGED <<tracked, forced, status, schedule, clock>>
  BY DEF Fill, Drop
<1> QED
  BY <1>2, <1>3, <1>4, InvParts DEF StrategyTyped, ClosesWhileClosing, NewCloses, IsNew, OpensNone

LEMMA StepKeeps ==
  ASSUME Inv, Next \/ UNCHANGED <<setting, vars>>
  PROVE  StrategyTyped /\ ClosesWhileClosing
BY OrderEventKeeps, ClosingKeeps, RecoveryKeeps, DecisionKeeps, ExitCommandKeeps,
   OthersKeep, ExchangeKeeps DEF Next, Poll

-----------------------------------------------------------------------------
(* What the strategy and the exchanges know of the sizes *)
SizesTyped ==
  /\ position' \in [Leg -> Sizes(MaxSize)]
  /\ size' \in [Leg -> Sizes(MaxSize)]
  /\ news' \in [Leg -> Seq(Sizes(MaxSize))]

UpdatesStillEndAtPosition ==
  ~LostNews => \A l \in Leg : IF news'[l] = <<>> THEN size'[l] = position'[l]
                              ELSE news'[l][Len(news'[l])] = position'[l]

(* Most steps concern no size. *)
LEMMA NoSizeStep ==
  ASSUME Inv, UNCHANGED <<position, size, news>>
  PROVE  SizesTyped /\ UpdatesStillEndAtPosition
BY InvParts DEF Inv, SizesTyped, UpdatesEndAtPosition, UpdatesStillEndAtPosition

LEMMA SyncStep ==
  ASSUME Inv, NEW answered \in SUBSET Leg, PollSync(answered)
  PROVE  SizesTyped /\ UpdatesStillEndAtPosition
<1>1. UNCHANGED <<position, news>> /\ size' = [l \in Leg |-> Synced(l, answered)]
  BY DEF PollSync
<1>2. \A l \in Leg : size'[l] = position[l] \/ size'[l] = size[l]
  BY <1>1 DEF Synced
<1>3. size' \in [Leg -> Sizes(MaxSize)]
  BY <1>1, InvParts DEF Synced
<1> QED
  BY <1>1, <1>2, <1>3, InvParts
  DEF Inv, SizesTyped, UpdatesEndAtPosition, UpdatesStillEndAtPosition

(* The last element of a sequence stays the last one until it is the head. *)
LEMMA TailKeepsLast ==
  ASSUME NEW S, NEW q \in Seq(S), q # <<>>
  PROVE  IF Tail(q) = <<>> THEN Head(q) = q[Len(q)]
                           ELSE Tail(q)[Len(Tail(q))] = q[Len(q)]
<1> DEFINE n == Len(q)
<1>1. n \in Nat /\ n # 0 /\ Len(Tail(q)) = n - 1 /\ Tail(q) \in Seq(S) /\ Head(q) = q[1]
  OBVIOUS
<1>2. \A j \in 1..n - 1 : Tail(q)[j] = q[j + 1]
  OBVIOUS
<1>3. \A w \in Seq(S) : w = <<>> <=> Len(w) = 0
  OBVIOUS
<1>4. Tail(q) = <<>> <=> n - 1 = 0
  BY <1>1, <1>3
<1> HIDE DEF n
<1>5. CASE n = 1
  BY <1>1, <1>4, <1>5 DEF n
<1>6. CASE n # 1
  <2>1. Tail(q) # <<>>
    BY <1>1, <1>4, <1>6
  <2>2. n - 1 \in 1..n - 1 /\ (n - 1) + 1 = n
    BY <1>1, <1>6
  <2>3. Tail(q)[n - 1] = q[n]
    BY <1>2, <2>2
  <2> QED
    BY <1>1, <2>1, <2>3 DEF n
<1> QED
  BY <1>5, <1>6

(* Handling an update leaves the later ones. *)
LEMMA PositionUpdateStep ==
  ASSUME Inv, NEW k \in Leg, HandlePositionUpdate(k)
  PROVE  SizesTyped /\ UpdatesStillEndAtPosition
<1>1. /\ news \in [Leg -> Seq(Sizes(MaxSize))] /\ size \in [Leg -> Sizes(MaxSize)]
      /\ position \in [Leg -> Sizes(MaxSize)]
  BY InvParts
<1>2. /\ news[k] # <<>> /\ position' = position
      /\ news' = [news EXCEPT ![k] = Tail(news[k])]
      /\ size' = [size EXCEPT ![k] = Head(news[k])]
  BY DEF HandlePositionUpdate
<1>3. /\ news[k] \in Seq(Sizes(MaxSize)) /\ Len(news[k]) \in Nat \ {0}
      /\ Head(news[k]) \in Sizes(MaxSize) /\ Tail(news[k]) \in Seq(Sizes(MaxSize))
  BY <1>1, <1>2
<1>4. SizesTyped
  BY <1>1, <1>2, <1>3 DEF SizesTyped
<1>5. ASSUME ~LostNews, NEW l \in Leg
      PROVE  IF news'[l] = <<>> THEN size'[l] = position'[l]
             ELSE news'[l][Len(news'[l])] = position'[l]
  <2>1. IF news[l] = <<>> THEN size[l] = position[l]
        ELSE news[l][Len(news[l])] = position[l]
    BY <1>5 DEF Inv, UpdatesEndAtPosition
  <2>2. CASE l # k
    BY <1>1, <1>2, <2>1, <2>2
  <2>3. CASE l = k
    <3>1. news'[l] = Tail(news[k]) /\ size'[l] = Head(news[k])
      BY <1>1, <1>2, <2>3
    <3>2. news[k][Len(news[k])] = position[k]
      BY <1>2, <2>1, <2>3
    <3>3. IF Tail(news[k]) = <<>> THEN Head(news[k]) = news[k][Len(news[k])]
          ELSE Tail(news[k])[Len(Tail(news[k]))] = news[k][Len(news[k])]
      BY <1>2, <1>3, TailKeepsLast
    <3> QED
      BY <1>2, <2>3, <3>1, <3>2, <3>3
  <2> QED
    BY <2>2, <2>3
<1> QED
  BY <1>4, <1>5 DEF UpdatesStillEndAtPosition

(* A fill tells of the position it leaves, unless that is lost. *)
LEMMA FillStep ==
  ASSUME Inv, NEW k \in Leg, NEW i \in 1..MaxOrders, Fill(k, i)
  PROVE  SizesTyped /\ UpdatesStillEndAtPosition
<1>1. /\ news \in [Leg -> Seq(Sizes(MaxSize))] /\ size \in [Leg -> Sizes(MaxSize)]
      /\ position \in [Leg -> Sizes(MaxSize)] /\ orders \in Orders(Sizes(MaxSize))
      /\ setting \in Settings
  BY InvParts
<1>2. PICK n : /\ Fills(k, i, n)
               /\ \/ news' = [news EXCEPT ![k] = Append(news[k], position[k] + n)]
                  \/ LostNews /\ news' = news
  BY DEF Fill
<1>3. /\ position' = [position EXCEPT ![k] = position[k] + n]
      /\ position[k] + n \in Sizes(MaxSize)
  BY <1>1, <1>2, FillType
<1>4. size' = size
  BY DEF Fill
<1> DEFINE p == position[k] + n
<1>5. Append(news[k], p) \in Seq(Sizes(MaxSize))
  BY <1>1, <1>3
<1>6. SizesTyped
  BY <1>1, <1>2, <1>3, <1>4, <1>5 DEF SizesTyped
<1>7. ASSUME ~LostNews, NEW l \in Leg
      PROVE  IF news'[l] = <<>> THEN size'[l] = position'[l]
             ELSE news'[l][Len(news'[l])] = position'[l]
  <2>1. IF news[l] = <<>> THEN size[l] = position[l]
        ELSE news[l][Len(news[l])] = position[l]
    BY <1>7 DEF Inv, UpdatesEndAtPosition
  <2>2. news' = [news EXCEPT ![k] = Append(news[k], p)]
    BY <1>2, <1>7
  <2>3. CASE l # k
    BY <1>1, <1>3, <1>4, <2>1, <2>2, <2>3
  <2>4. CASE l = k
    <3>1. news'[l] = Append(news[l], p) /\ position'[l] = p /\ news[l] \in Seq(Sizes(MaxSize))
      BY <1>1, <1>3, <2>2, <2>4
    <3> HIDE DEF p
    <3> QED
      BY <3>1
  <2> QED
    BY <2>3, <2>4
<1> QED
  BY <1>6, <1>7 DEF UpdatesStillEndAtPosition

LEMMA SizesKeep ==
  ASSUME Inv, Next \/ UNCHANGED <<setting, vars>>
  PROVE  SizesTyped /\ UpdatesStillEndAtPosition
<1>1. \/ UNCHANGED <<position, size, news>>
      \/ \E answered \in SUBSET Leg : PollSync(answered)
      \/ \E l \in Leg : HandlePositionUpdate(l)
      \/ \E l \in Leg, i \in 1..MaxOrders : Fill(l, i)
  BY DEF Next, Poll, vars, legs, ContinueUnwind, ContinueExit, RecoveryIsOver, RecoveryRests,
     RecoveryReprices, RecoveryChases, RecoveryAborts, Recovers, EmergencyExit, DecideEnter,
     DecideExit, DecideRebalance, DoNothing, Acts, HandleOrderUpdate, HandleOrderProgress,
     Drop, GracefulExit, ForceExit, PauseOrResume, TimePasses
<1> QED
  BY <1>1, NoSizeStep, SyncStep, PositionUpdateStep, FillStep

-----------------------------------------------------------------------------
(* The invariant is inductive. *)
LEMMA InvInit ==
  ASSUME Init
  PROVE  Inv
<1>1. LegsTypeOK /\ InUse(orders, tracked)
  BY InitialLegs DEF Init
<1>2. TypeOK
  <2>1. news \in [Leg -> Seq(Sizes(MaxSize))]
    <3>1. <<>> \in Seq(Sizes(MaxSize))
      OBVIOUS
    <3> QED
      BY <3>1 DEF Init
  <2> QED
    BY <1>1, <2>1 DEF Init, TypeOK
<1>3. UpdatesEndAtPosition
  BY DEF Init, LegsInit, UpdatesEndAtPosition
<1> QED
  BY <1>1, <1>2, <1>3 DEF Inv, InUse, TrackedWillReport

LEMMA InvStep ==
  ASSUME Inv, [Next]_<<setting, vars>>
  PROVE  Inv' /\ ClosesWhileClosing
<1>1. Next \/ UNCHANGED <<setting, vars>>
  OBVIOUS
<1>2. setting' = setting
  BY <1>1 DEF Next
<1>3. StrategyTyped /\ ClosesWhileClosing
  BY <1>1, StepKeeps
<1>4. SizesTyped /\ UpdatesStillEndAtPosition
  BY <1>1, SizesKeep
<1>5. setting \in Settings
  BY InvParts
<1>6. phase' \in {"idle", "synced"} /\ paused' \in BOOLEAN
  <2>1. phase \in {"idle", "synced"} /\ paused \in BOOLEAN
    BY DEF Inv, TypeOK
  <2>2. /\ phase' \in {phase, "idle", "synced"}
        /\ paused' \in {paused, ~paused, TRUE}
    BY <1>1 DEF Next, Poll, vars, legs, ContinueUnwind, ContinueExit, RecoveryIsOver,
       RecoveryRests, RecoveryReprices, RecoveryChases, RecoveryAborts, Recovers,
       EmergencyExit, DecideEnter, DecideExit, DecideRebalance, DoNothing, Acts,
       HandleOrderUpdate, HandleOrderProgress, HandlePositionUpdate, PollSync, Fill,
       Drop, GracefulExit, ForceExit, PauseOrResume, TimePasses
  <2> QED
    BY <2>1, <2>2
<1>7. TypeOK'
  <2>1. MaxSize' = MaxSize
    BY <1>2 DEF MaxSize
  <2>2. LegsTypeOK'
    BY <1>2, <1>3, <1>4, <1>5, LegsTyped DEF StrategyTyped, SizesTyped, InUse
  <2> QED
    BY <1>3, <1>4, <1>6, <2>1, <2>2 DEF TypeOK, StrategyTyped, SizesTyped
<1>8. TrackedWillReport'
  BY <1>3 DEF StrategyTyped, InUse, TrackedWillReport
<1>9. UpdatesEndAtPosition'
  BY <1>2, <1>4 DEF UpdatesEndAtPosition, UpdatesStillEndAtPosition, LostNews
<1> QED
  BY <1>3, <1>7, <1>8, <1>9 DEF Inv

LEMMA Invariance == Spec => []Inv
<1>1. Init => Inv
  BY InvInit
<1>2. Inv /\ [Next]_<<setting, vars>> => Inv'
  BY InvStep
<1> QED
  BY <1>1, <1>2, PTL DEF Spec

(* Every order, size and update of the strategy has its type: no size goes   *)
(* beyond what the exchanges allow (types.rs 22-70).                         *)
THEOREM TypeCorrect == Spec => []TypeOK
<1>1. Inv => TypeOK
  BY DEF Inv
<1> QED
  BY <1>1, Invariance, PTL

(* The tracker never waits for an order that nobody will tell of             *)
(* (types.rs 412-424).                                                       *)
THEOREM TrackedOrdersReport == Spec => []TrackedWillReport
<1>1. Inv => TrackedWillReport
  BY DEF Inv
<1> QED
  BY <1>1, Invariance, PTL

(* With every update handled, and none lost, the sizes are the exchanges'    *)
(* (poller.rs 394-428, 454-456).                                             *)
THEOREM SizesCatchUp == Spec => []SizesCatchUpUnlessLost
<1>1. Inv => SizesCatchUpUnlessLost
  BY DEF Inv, UpdatesEndAtPosition, SizesCatchUpUnlessLost
<1> QED
  BY <1>1, Invariance, PTL

(* A pair that exits or unwinds opens orders only to close it, whatever      *)
(* events, retries, polls and commands come in between (types.rs 97-98).     *)
THEOREM ClosingTakesNoRisk == Spec => NoNewRiskWhileClosing
<1> DEFINE A == \A l \in Leg, i \in 1..MaxOrders :
                  status \in {"Exiting", "Unwinding"} /\ IsNew(l, i)
                    => orders'[l][i].type = "close"
<1>1. Inv /\ [Next]_<<setting, vars>> => [A]_vars
  BY InvStep DEF ClosesWhileClosing, NewCloses
<1>2. Spec => [][A]_vars
  BY <1>1, Invariance, PTL DEF Spec
<1> QED
  BY <1>2 DEF NoNewRiskWhileClosing
=============================================================================

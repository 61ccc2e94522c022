--------------------------- MODULE SpotPerpEngine ---------------------------
(***************************************************************************)
(* The spot/perp strategy (strategies/src/arbitrage/engine.rs and          *)
(* spot_perp): a loop that handles the events of its exchanges, takes      *)
(* operator commands, and evaluates the pair on a funding rate or every    *)
(* minute.  The long leg is the spot holding, which the strategy only      *)
(* knows from the fills of its own orders; the short leg is the perp, of   *)
(* which its position updates tell.  Rates, prices and depths move freely, *)
(* so what the decider makes of them is open.                              *)
(***************************************************************************)
EXTENDS TwoLegs, Sequences

CONSTANTS
  MaxNews,   \* bound: position updates waiting
  MaxCut,    \* bound: spot units left behind by orders that ended in part
  Skips      \* an order may end with an earlier event of it untold

ASSUME SpotPerpEngineAssumption ==
  MaxNews \in Nat \ {0} /\ MaxCut \in Nat /\ Skips \in BOOLEAN

VARIABLES
  news,      \* PositionUpdate events of the perp on their way
  spot,      \* per slot: the size of its spot order, and the fill of which
             \* its last PartiallyFilled event tells
  last,      \* last_spot_partial_fill
  cut,       \* filled by spot orders that ended without being Filled
  paused,
  paper      \* TRUE for an engine that only simulates its orders

legs == <<position, orders, size, tracked, forced, status, schedule>>
vars == <<legs, news, spot, last, cut, paused, paper>>

\* What the strategy takes its holding for, and so what it orders, may be off
\* by anything that was cut.
TypeOK ==
  /\ setting \in Settings
  /\ position \in [Leg -> Sizes(MaxSize)]
  /\ orders \in [Leg -> [1..MaxOrders -> Order(Int)]]
  /\ size \in [Leg -> Int] /\ size["short"] \in Sizes(MaxSize)
  /\ tracked \subseteq Slot /\ forced \subseteq Slot
  /\ status \in PairStatus
  /\ schedule \in {NoSchedule} \cup 0..Chunks
  /\ news \in Seq(Sizes(MaxSize))
  /\ spot \in [1..MaxOrders -> [asked : Int, said : Int]]
  /\ last \in Int /\ cut \in Int
  /\ paused \in BOOLEAN /\ paper \in BOOLEAN

Untold == [asked |-> 0, said |-> 0]

Init ==
  /\ LegsInit
  /\ news = <<>>
  /\ spot = [i \in 1..MaxOrders |-> Untold]
  /\ last = 0
  /\ cut = 0
  /\ paused = FALSE
  /\ paper \in BOOLEAN

-----------------------------------------------------------------------------
(* The execution engine, from the orders os, the tracker trk, the status     *)
(* base and the sizes s.  The spot order is a post-only limit order at the   *)
(* best price, a market order without a book; the perp order is a market     *)
(* order.  The exchange takes no sale of more than is held and not yet       *)
(* offered.                                                                  *)
Offered(os) ==
  LET sale[i \in 0..MaxOrders] ==
        IF i = 0 THEN 0
        ELSE sale[i - 1] + (IF os["long"][i].state = "open" /\ os["long"][i].left < 0
                            THEN -os["long"][i].left ELSE 0)
  IN sale[MaxOrders]
Covered(os, want) ==
  [l \in Leg |-> l = "long" => -want["long"] <= position["long"] - Offered(os)]

(* The spot orders that were placed on top of the orders os, for want *)
RecordSpot(os, want) ==
  spot' = [i \in 1..MaxOrders |->
             IF orders'["long"][i] = NoOrder THEN Untold
             ELSE IF os["long"][i] = NoOrder THEN [asked |-> want, said |-> 0]
             ELSE spot[i]]

(* A paper engine places nothing and takes its orders for filled. *)
PaperStatus == [Entering |-> "Active", Active |-> "Active", Recovering |-> "Active",
                Exiting |-> "Inactive", Unwinding |-> "Inactive"]

DispatchEach(os, trk, base, perp, asks, want, next) ==
  /\ IF paper
     THEN orders' = os /\ tracked' = trk /\ status' = PaperStatus[next]
     ELSE DispatchIf(Covered(os, want), os, trk, base,
                     [l \in Leg |-> IF l = "long" THEN "limit" ELSE perp], asks, want, next)
  /\ RecordSpot(os, want["long"])

DispatchLegs(os, trk, base, perp, want, next) ==
  DispatchEach(os, trk, base, perp, Sized(want), want, next)

Enter(os, trk, base, want) == DispatchLegs(os, trk, base, "market", want, "Entering")
Rebalance(os, trk, base, want) == DispatchLegs(os, trk, base, "market", want, base)
Recover(os, trk, base, s) ==
  DispatchLegs(os, trk, base, "market", RecoverySizes(s), "Recovering")
ExitUnreduced(os, trk, base, s) ==
  DispatchLegs(os, trk, base, "market", CloseSizes(s), "Exiting")
Exit(os, trk, base, s) == DispatchLegs(os, trk, base, "close", CloseSizes(s), "Exiting")
Unwind(os, trk, base, s, want) ==
  DispatchEach(os, trk, base, "close", Sized(s), want, "Unwinding")
NoAction(os, trk, base) ==
  orders' = os /\ tracked' = trk /\ status' = base /\ RecordSpot(os, 0)

-----------------------------------------------------------------------------
(* Events.  An order event goes to the tracker, then to the pair, then to    *)
(* check_tracker_transitions: here with the orders os and the tracker trk    *)
(* after it, the sizes s and status st the pair made of it, and what it      *)
(* ended.                                                                    *)
Active(s) == IF status \in {"Inactive", "Entering"} /\ Entered(s) THEN "Active" ELSE status

CheckTransitions(os, trk, ended, s, st) ==
  \/ /\ trk # {} \/ st \notin Transitional
     /\ NoAction(os, trk, st)
     /\ forced' = forced \ ended
     /\ UNCHANGED schedule
  \/ /\ trk = {} /\ st \in {"Entering", "Recovering"}
     /\ IF OneLegged(s) THEN Recover(os, trk, "Recovering", s)
        ELSE NoAction(os, trk, IF Entered(s) THEN "Active" ELSE "Recovering")
     /\ forced' = {}
     /\ UNCHANGED schedule
  \/ /\ trk = {} /\ st = "Exiting"
     /\ IF Exited(s) THEN NoAction(os, trk, "Inactive") ELSE Exit(os, trk, "Exiting", s)
     /\ forced' = {}
     /\ UNCHANGED schedule
  \/ /\ trk = {} /\ st = "Unwinding"
     /\ IF Exited(s)
        THEN NoAction(os, trk, "Inactive") /\ schedule' = NoSchedule
        ELSE Unwind(os, trk, "Unwinding", s, UnwindSizes(s)) /\ schedule' = Advance(schedule)
     /\ forced' = {}

TrackerAfter(l, i) == tracked \ {<<l, i>>}

(* SpotPerpPair::apply_event: both kinds of fill tell what was filled so far *)
AddFillAgain(filled) == [size EXCEPT !["long"] = @ + filled]
AddFill(filled) == [size EXCEPT !["long"] = @ + filled - last]

(* The end of an order.  Its events come over one channel and in order, but   *)
(* the one before may be missing: the stream lost it, or a cancel's reply or  *)
(* the reconciliation overtook it and the order manager then ignored it.      *)
HandleOrderUpdate(l, i) ==
  LET o      == orders[l][i]
      filled == l = "long" /\ o.left = 0 /\ spot[i].asked # 0
      s      == IF filled THEN AddFill(spot[i].asked) ELSE size
  IN /\ o.state = "over"
     /\ o.told \/ Skips
     /\ size' = s
     /\ last' = IF filled THEN 0 ELSE last
     /\ cut' = IF l = "long" /\ o.left # 0 THEN cut + spot[i].asked - o.left ELSE cut
     /\ CheckTransitions([orders EXCEPT ![l][i] = NoOrder], TrackerAfter(l, i),
                         {<<l, i>>}, s, IF filled THEN Active(s) ELSE status)
     /\ UNCHANGED <<position, news, paused, paper>>

(* New and PartiallyFilled; of several partial fills the last one is told. *)
HandleOrderProgress(l, i) ==
  LET again   == forced \cap {<<l, i>>}
      partial == l = "long" /\ spot[i].said # 0
      s       == IF partial THEN AddFill(spot[i].said) ELSE size
  IN /\ ~orders[l][i].told
     /\ size' = s
     /\ last' = IF partial THEN spot[i].said ELSE last
     /\ CheckTransitions([orders EXCEPT ![l][i].told = TRUE], tracked \cup again, again,
                         s, status)
     /\ UNCHANGED <<position, news, cut, paused, paper>>

HandlePositionUpdate ==
  /\ news # <<>>
  /\ news' = Tail(news)
  /\ size' = [size EXCEPT !["short"] = Head(news)]
  /\ status' = Active([size EXCEPT !["short"] = Head(news)])
  /\ UNCHANGED <<position, orders, tracked, forced, schedule, spot, last, cut, paused, paper>>

(* The timer of stale orders *)
CancelStale ==
  /\ status \notin {"Entering", "Recovering"}
  /\ \E gone \in SUBSET tracked :
       gone # {} /\ orders' = Cancelled(orders, gone)
  /\ UNCHANGED <<position, size, tracked, forced, status, schedule>>
  /\ UNCHANGED <<news, spot, last, cut, paused, paper>>

-----------------------------------------------------------------------------
(* evaluate_and_execute, unless paused *)
Evaluates(s) ==
  /\ status = s
  /\ UNCHANGED <<position, size, schedule, news, last, cut, paper>>

EvaluateRecovering ==
  /\ Evaluates("Recovering")
  /\ IF OneLegged(size) /\ tracked = {}
     THEN Recover(orders, tracked, status, size)
     ELSE NoAction(orders, tracked, IF Entered(size) THEN "Active" ELSE status)
  /\ forced' = IF Entered(size) \/ tracked = {} THEN {} ELSE forced
  /\ paused' = FALSE

EvaluateExitingOnce ==
  /\ Evaluates("Exiting")
  /\ NoAction(orders, tracked, IF Exited(size) THEN "Inactive" ELSE status)
  /\ UNCHANGED forced
  /\ paused' = FALSE
EvaluateExiting ==
  /\ Evaluates("Exiting")
  /\ IF Exited(size) THEN NoAction(orders, tracked, "Inactive")
     ELSE IF tracked = {} THEN Exit(orders, tracked, status, size)
     ELSE NoAction(orders, tracked, status)
  /\ forced' = IF Exited(size) \/ tracked = {} THEN {} ELSE forced
  /\ paused' = FALSE

(* The perp's position is near liquidation.  What is pending is cancelled,   *)
(* but for the tracker it goes on.                                           *)
EmergencyExit ==
  /\ "Emergency" \in Commands
  /\ status \in {"Active", "Entering"} /\ Evaluates(status)
  /\ size["short"] # 0
  /\ \E gone \in Cancellations(tracked) :
       Exit(Cancelled(orders, gone), tracked, status, size)
  /\ forced' = {}
  /\ paused' = TRUE

(* Nothing is done, too, for want of a rate, a price or depth, at a violated *)
(* margin gate, and while Unwinding.                                         *)
DoNothing ==
  /\ status \in {"Inactive", "Entering", "Active", "Unwinding"} /\ Evaluates(status)
  /\ NoAction(orders, tracked, status)
  /\ paused' = FALSE
  /\ UNCHANGED forced

DecideEnter ==
  /\ Evaluates("Inactive")
  /\ Exited(size)
  /\ Enter(orders, tracked, status, Both(Target))
  /\ paused' = FALSE
  /\ UNCHANGED forced

DecideExit ==
  /\ Evaluates("Active")
  /\ Exit(orders, tracked, status, size)
  /\ paused' = FALSE
  /\ UNCHANGED forced

(* Half of the delta on each leg: a unit moves from one leg to the other,    *)
(* and the larger leg stays larger than what it gives.                       *)
DecideRebalance ==
  /\ Evaluates("Active")
  /\ \E l \in Leg :
       /\ size[l] >= 2
       /\ \E gone \in Cancellations(tracked) :
            Rebalance(Cancelled(orders, gone), {}, status,
                      [k \in Leg |-> IF k = l THEN -1 ELSE 1])
  /\ forced' = forced \cup tracked
  /\ paused' = FALSE

Evaluation ==
  \/ EvaluateRecovering \/ EvaluateExiting \/ EmergencyExit
  \/ DoNothing \/ DecideEnter \/ DecideExit \/ DecideRebalance

Evaluate == ~paused /\ Evaluation

-----------------------------------------------------------------------------
(* Commands *)
GracefulExit ==
  /\ "GracefulExit" \in Commands
  /\ status = "Active"
  /\ schedule' = Chunks - 1
  /\ Unwind(orders, tracked, status, size, ChunkOf(Chunks, size))
  /\ UNCHANGED <<position, size, forced, news, last, cut, paused, paper>>

ForceExit ==
  /\ "ForceExit" \in Commands
  /\ ~Exited(size)
  /\ Exit(orders, tracked, status, size)
  /\ UNCHANGED <<position, size, forced, schedule, news, last, cut, paused, paper>>

Pause ==
  /\ "Pause" \in Commands
  /\ paused' = TRUE
  /\ UNCHANGED <<legs, news, spot, last, cut, paper>>

(* Resume evaluates at once. *)
Resume == "Pause" \in Commands /\ paused /\ Evaluation

(* The exchanges *)
FillSpot(i, n) ==
  /\ position["long"] + n >= 0
  /\ n # orders["long"][i].left => Abs(cut) < MaxCut
  /\ Fills("long", i, n)
  /\ spot' = [spot EXCEPT ![i].said =
                 IF n = orders["long"][i].left THEN @
                 ELSE spot[i].asked - orders["long"][i].left + n]
  /\ UNCHANGED <<size, tracked, forced, status, schedule, news, last, cut, paused, paper>>

FillPerp(i, n) ==
  /\ Len(news) < MaxNews
  /\ Fills("short", i, n)
  /\ \/ news' = Append(news, position["short"] + n)
     \/ LostNews /\ UNCHANGED news
  /\ UNCHANGED <<size, tracked, forced, status, schedule, spot, last, cut, paused, paper>>

Drop(l, i) ==
  /\ Drops(l, i)
  /\ UNCHANGED <<position, size, tracked, forced, status, schedule>>
  /\ UNCHANGED <<news, spot, last, cut, paused, paper>>

Next ==
  /\ UNCHANGED setting
  /\ \/ Evaluate
     \/ CancelStale
     \/ HandlePositionUpdate
     \/ \E l \in Leg, i \in 1..MaxOrders : \/ HandleOrderUpdate(l, i)
                                           \/ HandleOrderProgress(l, i)
                                           \/ Drop(l, i)
     \/ \E i \in 1..MaxOrders, n \in Sizes(MaxSize) : FillSpot(i, n) \/ FillPerp(i, n)
     \/ GracefulExit \/ ForceExit \/ Pause \/ Resume

Spec == Init /\ [][Next]_<<setting, vars>>

(* The timers tick and select! takes every source.  Orders that rest get     *)
(* stale; one the strategy does not track does not rest for ever either.     *)
(* Orders to close are neither refused nor ended unfilled for ever.          *)
Accepted == tracked = {} /\ tracked' # {}
Sells(i) == orders["long"][i].left < 0
Covers(i) == orders["short"][i].type = "close"

Fairness ==
  /\ WF_vars(Evaluate)
  /\ SF_vars(EvaluateExiting /\ Accepted)
  /\ SF_vars(CancelStale /\ \A s \in tracked : orders'[s[1]][s[2]].state = "over")
  /\ SF_vars(HandlePositionUpdate)
  /\ \A s \in Slot : SF_vars(HandleOrderUpdate(s[1], s[2]))
  /\ SF_vars(\E i \in 1..MaxOrders, n \in Sizes(MaxSize) : Sells(i) /\ FillSpot(i, n))
  /\ WF_vars(\E i \in 1..MaxOrders : <<"long", i>> \notin tracked /\ Drop("long", i))
  /\ SF_vars(\E i \in 1..MaxOrders, n \in Sizes(MaxSize) : Covers(i) /\ FillPerp(i, n))

FairSpec == Spec /\ Fairness

-----------------------------------------------------------------------------
Sum(f) ==
  LET sum[i \in 0..MaxOrders] == IF i = 0 THEN 0 ELSE sum[i - 1] + f[i]
  IN sum[MaxOrders]

(* The strategy's figure of its holding differs from the holding by what its *)
(* orders in flight have filled, by the one partial fill it remembers and by *)
(* what orders ended in part had filled, whatever orders are in flight at    *)
(* once (spot_perp/types.rs 169-227).                                        *)
HoldingIsAccounted ==
  size["long"] - last =
    position["long"] - cut
      - Sum([i \in 1..MaxOrders |-> spot[i].asked - orders["long"][i].left])

IsNew(l, i) == orders'[l][i].state = "open" /\ orders[l][i].state # "open"

(* Until a pair that exits or unwinds is closed, every perp order it places  *)
(* is reduce_only, and no spot order buys unless the strategy takes its      *)
(* holding for negative (types.rs 97-98), whatever retries and events come   *)
(* in between.                                                               *)
NoNewRiskWhileClosing ==
  [][\A l \in Leg, i \in 1..MaxOrders :
       status \in {"Exiting", "Unwinding"} /\ IsNew(l, i)
         => IF l = "short" THEN orders'[l][i].type = "close"
            ELSE orders'[l][i].left <= 0 \/ size'["long"] < 0]_vars

(* Retries bring an exit to an end, unless a partial fill was left over      *)
(* (engine.rs 441-458).                                                      *)
ExitEnds == (status = "Exiting" /\ ~paused) ~> (status # "Exiting" \/ paused \/ cut # 0)

-----------------------------------------------------------------------------
(* What some line of the documentation or a comment says, and the code does  *)
(* not do.                                                                   *)

(* The quantity is the one held (spot_perp/types.rs 11), once the events of  *)
(* every spot order are handled.                                             *)
QuantityIsHeld ==
  (\A i \in 1..MaxOrders : orders["long"][i] = NoOrder) => size["long"] = position["long"]
=============================================================================

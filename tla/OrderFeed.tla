------------------------------ MODULE OrderFeed ------------------------------
(***************************************************************************)
(* What the order event stream of an exchange process promises to the      *)
(* strategies that subscribe to it, whatever the order manager does behind *)
(* it: per order, the last event published is a view of the order at the   *)
(* exchange that may lag but never runs ahead, never goes back, and, once  *)
(* final, is the order's true end.  The one exception is a local           *)
(* rejection, published for an order no event has confirmed, which the     *)
(* order's true end can overrule.                                          *)
(***************************************************************************)
EXTENDS Integers

CONSTANTS Orders,  \* the orders
          Size     \* lots per order, the granularity of fills

VARIABLES feed,    \* the last event published for each order
          exch     \* the order at the exchange

feedVars == <<feed, exch>>

FinalStatus == {"Filled", "Canceled", "Rejected"}
Status == {"None", "New", "PartiallyFilled"} \cup FinalStatus
View == [status : Status, filled : 0..Size]
NoView == [status |-> "None", filled |-> 0]
LocalRejection == [status |-> "Rejected", filled |-> 0]

Rank(status) ==
  CASE status = "None" -> 0
    [] status = "New" -> 1
    [] status = "PartiallyFilled" -> 2
    [] OTHER -> 3

(* a is an earlier (or the same) stage of the life of the order than b. *)
NotLater(a, b) ==
  /\ Rank(a.status) <= Rank(b.status)
  /\ a.filled <= b.filled
  /\ Rank(a.status) = 3 => a = b

Init ==
  /\ feed = [o \in Orders |-> NoView]
  /\ exch = [o \in Orders |-> NoView]

(* The order moves on at the exchange: accepted, filled, ended. *)
Trade(o) ==
  /\ \E v \in View : /\ v # exch[o]
                     /\ NotLater(exch[o], v)
                     /\ exch' = [exch EXCEPT ![o] = v]
  /\ UNCHANGED feed

(* The stream catches up with some stage the order has been through; the end *)
(* of an order that was taken for rejected overrules the rejection.          *)
Report(o) ==
  /\ \E v \in View : /\ \/ NotLater(feed[o], v)
                        \/ feed[o] = LocalRejection /\ Rank(v.status) = 3
                     /\ NotLater(v, exch[o])
                     /\ feed' = [feed EXCEPT ![o] = v]
  /\ UNCHANGED exch

(* The submission failed before anything confirmed the order. *)
Reject(o) ==
  /\ feed[o] = NoView
  /\ feed' = [feed EXCEPT ![o] = LocalRejection]
  /\ UNCHANGED exch

Next == \E o \in Orders : Trade(o) \/ Report(o) \/ Reject(o)

Spec == Init /\ [][Next]_feedVars
=============================================================================

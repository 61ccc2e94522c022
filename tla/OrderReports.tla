----------------------------- MODULE OrderReports -----------------------------
(***************************************************************************)
(* How the end of an order reaches the order manager from each exchange:   *)
(* by a report of the private stream, or, when that was lost or is not     *)
(* understood, by the REST calls of the reconciliation.  Every exchange    *)
(* has its own names for the states of an order, and its client has one    *)
(* mapper for the reports and one for the answers (mappers.rs), which are  *)
(* not the same.                                                           *)
(*                                                                         *)
(* The order manager is reduced to what it holds of one order; its other   *)
(* steps are those of OrderManager.  Prices, ids and times are left out.   *)
(***************************************************************************)
EXTENDS Naturals, Sequences

CONSTANTS
  Exchanges, \* "binance spot", "binance futures", "bybit", "aster"
  Size       \* of the order, in lots

OrderReportsAssumption ==
  /\ Exchanges \subseteq {"binance spot", "binance futures", "bybit", "aster"}
  /\ Size \in Nat \ {0}

VARIABLES
  exchange,
  order,  \* at the exchange, in its own words
  wire,   \* reports that the order manager has not handled, oldest first
  known   \* what the order manager holds of the order, in ours

vars == <<exchange, order, wire, known>>

(* An order that was accepted but is not in the book yet is "pending":       *)
(* PENDING_NEW, Bybit's Untriggered.                                         *)
Open == {"pending", "new", "partial"}
Ends(e) ==
  {"filled", "canceled", "rejected", "expired"} \cup
    (IF e = "bybit" THEN {"deactivated"} ELSE {"expired in match"})

Lots == 0..Size
TheirOrder == [status : Open \cup UNION {Ends(e) : e \in Exchanges}, filled : Lots]
OurStatus == {"new", "partial", "filled", "canceled", "rejected"}

TypeOK ==
  /\ exchange \in Exchanges
  /\ order \in TheirOrder
  /\ wire \in Seq(TheirOrder)
  /\ known \in [status : OurStatus, filled : Lots]

Init ==
  /\ exchange \in Exchanges
  /\ order \in [status : {"pending", "new"}, filled : {0}]
  /\ wire = <<>>
  /\ known = [status |-> "new", filled |-> 0]

-----------------------------------------------------------------------------
(* The mappers: `new' and `canceled' are the names taken for New and         *)
(* Canceled.  The order of another name is not understood.                   *)
Read(o, new, canceled) ==
  [status |-> CASE o.status \in new -> "new"
                [] o.status \in canceled -> "canceled"
                [] o.status \in {"partial", "filled", "rejected"} -> o.status
                [] OTHER -> "unknown",
   filled |-> o.filled]

spot_execution_to_order_event(o) == Read(o, {"new"}, {"canceled", "expired"})
futures_execution_to_order_event(o) == Read(o, {"new"}, {"canceled", "expired"})
QueryMissesMatch(o) == Read(o, {"new", "pending"}, {"canceled", "expired"})
binance_order_response_to_order(o) ==
  Read(o, {"new", "pending"}, {"canceled", "expired", "expired in match"})

ws_order_to_order_event(o) ==
  Read(o, {"new", "pending"}, {"canceled", "deactivated", "expired"})
bybit_order_to_order(o) ==
  Read(o, {"new", "pending"}, {"canceled", "deactivated", "expired"})

aster_execution_to_order_event(o) == Read(o, {"new"}, {"canceled", "expired"})
aster_order_response_to_order(o) ==
  Read(o, {"new", "pending"}, {"canceled", "expired", "expired in match"})

ReportSays(o) ==
  CASE exchange = "binance spot" -> spot_execution_to_order_event(o)
    [] exchange = "binance futures" -> futures_execution_to_order_event(o)
    [] exchange = "bybit" -> ws_order_to_order_event(o)
    [] exchange = "aster" -> aster_execution_to_order_event(o)

get_order_status ==
  CASE exchange \in {"binance spot", "binance futures"} ->
         binance_order_response_to_order(order)
    [] exchange = "bybit" -> bybit_order_to_order(order)
    [] exchange = "aster" -> aster_order_response_to_order(order)

(* An open order that is not understood is left out of the list. *)
ListedAsOpen == order.status \in Open /\ get_order_status.status # "unknown"

-----------------------------------------------------------------------------
Final(o) == o.status \in {"filled", "canceled", "rejected"}

(* handle_ws_event: a report is applied while the order is tracked. *)
Follows(o) == ~ Final(known) /\ o.status # "unknown"

Relay ==
  /\ wire # <<>>
  /\ wire' = Tail(wire)
  /\ LET o == ReportSays(Head(wire)) IN known' = IF Follows(o) THEN o ELSE known
  /\ UNCHANGED <<exchange, order>>

(* process_reconcile: the status of a tracked order that is not listed as    *)
(* open is asked for, and is taken over when it is final.                    *)
Reconcile ==
  /\ ~ Final(known)
  /\ ~ ListedAsOpen
  /\ Final(get_order_status)
  /\ known' = get_order_status
  /\ UNCHANGED <<exchange, order, wire>>

-----------------------------------------------------------------------------
(* The exchange.  Reports are lost when the stream is down or a channel is   *)
(* full.                                                                     *)
Becomes(status, filled) ==
  /\ order' = [status |-> status, filled |-> filled]
  /\ wire' \in {wire, Append(wire, order')}
  /\ UNCHANGED <<exchange, known>>

Enter == order.status = "pending" /\ Becomes("new", 0)

Fill ==
  /\ order.status \in {"new", "partial"}
  /\ LET filled == order.filled + 1
     IN Becomes(IF filled = Size THEN "filled" ELSE "partial", filled)

End(status) ==
  /\ order.status \in Open
  /\ status = "rejected" => order.filled = 0
  /\ Becomes(status, order.filled)

Next ==
  \/ Relay \/ Reconcile
  \/ Enter \/ Fill
  \/ \E status \in Ends(exchange) \ {"filled"} : End(status)

Spec == Init /\ [][Next]_vars

(* The manager handles its events, and reconciles at an interval. *)
Fairness == WF_vars(Relay) /\ WF_vars(Reconcile)

FairSpec == Spec /\ Fairness
-----------------------------------------------------------------------------
HasEnded == order.status \in Ends(exchange)
TrueEnd ==
  [status |-> IF order.status \in {"filled", "rejected"} THEN order.status
              ELSE "canceled",
   filled |-> order.filled]

(* No order is thought to have ended that has not, and none to have ended    *)
(* otherwise than it did (mappers.rs of the exchanges, order.rs 491-613).    *)
NothingEndsEarly == Final(known) => HasEnded /\ known = TrueEnd

(* Every order that has ended is known to, with the lots that were filled,   *)
(* whichever of its reports were lost and under whichever name the exchange  *)
(* ended it, those included that its stream's mapper does not understand     *)
(* (mappers.rs of the exchanges, order.rs 546-613).                          *)
EndIsLearnt == []NothingEndsEarly /\ (HasEnded ~> (known = TrueEnd))
=============================================================================

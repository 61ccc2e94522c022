--------------------------- MODULE MCOrderManager ---------------------------
(***************************************************************************)
(* Instances of OrderManager for TLC: an order and its ids.                *)
(***************************************************************************)
EXTENDS OrderManager

CONSTANTS o1, k1, long1, noOrder

OneOrder == {o1}
OneKey == {k1}
SameKey == [o \in Orders |-> k1]

(* Ids within the exchange's 36 characters: the client id is the internal id. *)
SameIds == [o \in Orders |-> o]
(* An id that is cut to fit (encode, binance/codec.rs). *)
CutIds == [o \in Orders |-> long1]
OrderAndLong == {o1, long1}
=============================================================================

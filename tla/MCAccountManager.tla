--------------------------- MODULE MCAccountManager ---------------------------
(***************************************************************************)
(* A small instance of ExchangeRequests: an account and two callers, a     *)
(* call that is tried three times, and an order of two lots at any of the  *)
(* exchanges.                                                              *)
(***************************************************************************)
EXTENDS ExchangeRequests

CONSTANTS e1, c1, c2, noCall

OneExchange == {e1}
TwoCallers == {c1, c2}
AllExchanges == {"binance spot", "binance futures", "bybit", "aster"}
=============================================================================

---------------------------- MODULE MCPriceManager ----------------------------
(***************************************************************************)
(* A small instance of ExchangeUpdates: two order books and two callers,   *)
(* an instrument held long or short, every policy of a private stream and  *)
(* both kinds of depth stream.                                             *)
(***************************************************************************)
EXTENDS ExchangeUpdates

CONSTANTS k1, k2, c1, c2, noCall

TwoKeys == {k1, k2}
TwoCallers == {c1, c2}
OneInstrument == {k1}
LongOrShort == {-1, 1}
AllPolicies == {"listen key", "signature", "auth"}
AllRefusals == {"gone", "unauthorized", "invalid"}
BothFeeds == {"changes", "books"}
TwoPrices == {1, 2}
=============================================================================

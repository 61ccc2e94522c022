----------------------------- MODULE MCProcesses -----------------------------
(***************************************************************************)
(* A small instance of Processes: two tasks that place orders and ask for  *)
(* positions, processes that are started twice, two kinds of event and two *)
(* calls of an operator.                                                   *)
(***************************************************************************)
EXTENDS Processes

CONSTANTS c1, c2

TwoCallers == {c1, c2}
PlaceAndAsk == {"SubmitOrder", "GetPosition"}
TwoOrThreeSeconds == {2, 3}
BothModes == {"all", "split"}
TwoKinds == {"order", "position"}
AllOrders == {"GetStatus", "Pause", "Resume", "GracefulExit", "ForceExit"}
BothStrategies == {"poller", "engine"}
=============================================================================

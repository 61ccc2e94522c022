-------------------------- MODULE MCSpotPerpEngine --------------------------
(* Small instances of SpotPerpEngine. *)
EXTENDS SpotPerpEngine

TwoUnits ==
  [target |-> 2, chunks |-> 1, commands |-> {}, replies |-> {"ok", "refused"},
   lostCancels |-> FALSE, lostNews |-> FALSE, maxSize |-> 2]

NoCommands == {TwoUnits}
AllCommands ==
  {[TwoUnits EXCEPT !.commands = {"GracefulExit", "ForceExit", "Pause", "Emergency"}],
   [TwoUnits EXCEPT !.commands = {"GracefulExit"}, !.chunks = 3]}
=============================================================================

-------------------------- MODULE MCPerpPerpPoller --------------------------
(* Small instances of PerpPerpPoller. *)
EXTENDS PerpPerpPoller

OneUnit ==
  [target |-> 1, chunks |-> 1, commands |-> {}, replies |-> {"ok"},
   lostCancels |-> FALSE, lostNews |-> FALSE, maxSize |-> 1]

Reliable ==
  [OneUnit EXCEPT !.target = 2, !.chunks = 2, !.maxSize = 2, !.commands = {"GracefulExit"}]
Troubled ==
  [OneUnit EXCEPT !.replies = {"ok", "refused", "unanswered"}, !.lostCancels = TRUE,
                  !.lostNews = TRUE,
                  !.commands = {"GracefulExit", "ForceExit", "Pause", "Emergency"}]

AllEvents == {Troubled, Reliable}
UnwindInTwo == {[OneUnit EXCEPT !.chunks = 2, !.commands = {"GracefulExit"}]}
RefusedEmergency == {[OneUnit EXCEPT !.replies = {"ok", "refused"}, !.commands = {"Emergency"}]}
NoTrouble == {OneUnit}
=============================================================================

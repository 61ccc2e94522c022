------------------------------ MODULE Processes ------------------------------
(***************************************************************************)
(* What runs between the processes: CommandSocket, ExchangeProcess,        *)
(* EventPath and StrategyControl.  They share no state, so a behaviour is  *)
(* one of any of them, with the others at rest.                            *)
(***************************************************************************)
EXTENDS CommandSocket

CONSTANTS
  Ttls, Others, Swaps, Modes, MaxTries, MaxGen,  \* of ExchangeProcess
  Kinds, Capacity, Room, MaxSent,                \* of EventPath
  Clients, Orders, Strategies, Places            \* of StrategyControl

VARIABLES
  part,
  ttl, mode, gen, running, runner, server, lease, beat, strategy, misses,
  events, ring, forwards, bus, wire, inbox, seen, shed,
  kind, client, orders, queue, paused, shown, acked

lifeVars == <<ttl, mode, gen, running, runner, server, lease, beat, strategy, misses>>
eventVars == <<events, ring, forwards, bus, wire, inbox, seen, shed>>
controlVars == <<kind, client, orders, queue, paused, shown, acked>>

Life == INSTANCE ExchangeProcess WITH up <- running
Path == INSTANCE EventPath WITH sent <- events
Control == INSTANCE StrategyControl WITH requests <- orders, Capacity <- Places

ASSUME LifeAssumption == Life!ExchangeProcessAssumption
ASSUME PathAssumption == Path!EventPathAssumption
ASSUME ControlAssumption == Control!StrategyControlAssumption

all == <<part, vars, lifeVars, eventVars, controlVars>>

InitPart ==
  /\ part \in {"socket", "life", "events", "control"}
  /\ Init /\ Life!Init /\ Path!Init /\ Control!Init
  /\ part # "life" => ttl = 3 /\ mode = "all"
  /\ part # "control" => kind = "poller"

Rest(p) ==
  /\ part = p /\ UNCHANGED part
  /\ p # "socket" => UNCHANGED vars
  /\ p # "life" => UNCHANGED lifeVars
  /\ p # "events" => UNCHANGED eventVars
  /\ p # "control" => UNCHANGED controlVars

NextPart ==
  \/ Rest("socket") /\ Next
  \/ Rest("life") /\ Life!Next
  \/ Rest("events") /\ Path!Next
  \/ Rest("control") /\ Control!Next

AnyPart == InitPart /\ [][NextPart]_all
FairPart == AnyPart /\ Fairness /\ Path!Fairness /\ Control!Fairness

(* What the modules state, here. *)
AllTypesOK == TypeOK /\ Life!TypeOK /\ Path!TypeOK /\ Control!TypeOK
FoundWhileItServes == Life!FoundWhileItServes
StartsOnOneProcess == Life!StartsOnOneProcess
LastEventArrives == Path!LastEventArrives
AcknowledgedPauseIsDone == Control!AcknowledgedPauseIsDone
=============================================================================

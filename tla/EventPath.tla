------------------------------ MODULE EventPath ------------------------------
(***************************************************************************)
(* The events of an exchange process on their way to a strategy            *)
(* (src/runner.rs, core/src/zmq/server.rs and client.rs): from each actor  *)
(* over a broadcast channel to its forwarder, over another one to the loop *)
(* that publishes them, over the PUB and SUB sockets to a listener, and    *)
(* over the strategy's channel to its loop.                                *)
(*                                                                         *)
(* A broadcast channel keeps the last events; a receiver that is too slow  *)
(* gets an error in their place, once, and goes on with what is left.      *)
(* Events are numbered per kind.                                           *)
(***************************************************************************)
EXTENDS Naturals, Sequences

CONSTANTS
  Kinds,     \* kinds of event, of an actor each
  Capacity,  \* of a broadcast channel
  Room,      \* places in the SUB socket and in the strategy's channel
  MaxSent    \* bound: events of a kind

EventPathAssumption ==
  /\ Capacity \in Nat \ {0}
  /\ Room \in Nat \ {0}
  /\ MaxSent \in Nat

VARIABLES
  sent,     \* events of each kind so far
  ring,     \* what the forwarder of each kind has not received
  forwards, \* TRUE for a forwarder that runs
  bus,      \* what the publishing loop has not received
  wire,     \* in the sockets
  inbox,    \* in the strategy's channel
  seen,     \* the last event of each kind the strategy handled
  shed      \* ghost: the last event of each kind that was lost on the way
            \* from its forwarder to the strategy

vars == <<sent, ring, forwards, bus, wire, inbox, seen, shed>>

\* A channel: its events, and whether the receiver has lost some
Empty == [of |-> <<>>, lagged |-> FALSE]
Into(ch, e) ==
  IF Len(ch.of) < Capacity THEN [ch EXCEPT !.of = Append(@, e)]
  ELSE [of |-> Append(Tail(ch.of), e), lagged |-> TRUE]
OutOf(ch) == [ch EXCEPT !.of = Tail(@)]

Event == [kind : Kinds, nr : 1..MaxSent]

TypeOK ==
  /\ sent \in [Kinds -> 0..MaxSent]
  /\ forwards \in [Kinds -> BOOLEAN]
  /\ \A k \in Kinds : ring[k].of \in Seq(1..MaxSent) /\ Len(ring[k].of) <= Capacity
  /\ bus.of \in Seq(Event) /\ Len(bus.of) <= Capacity
  /\ wire \in Seq(Event) /\ Len(wire) <= Room
  /\ inbox \in Seq(Event) /\ Len(inbox) <= Room
  /\ \A k \in Kinds : seen[k] \in 0..sent[k] /\ shed[k] \in 0..sent[k]

Init ==
  /\ sent = [k \in Kinds |-> 0]
  /\ ring = [k \in Kinds |-> Empty]
  /\ forwards = [k \in Kinds |-> TRUE]
  /\ bus = Empty
  /\ wire = <<>>
  /\ inbox = <<>>
  /\ seen = [k \in Kinds |-> 0]
  /\ shed = [k \in Kinds |-> 0]

(* An actor; without a receiver nothing is kept. *)
SendEvent(k) ==
  /\ sent[k] < MaxSent
  /\ sent' = [sent EXCEPT ![k] = @ + 1]
  /\ ring' = IF forwards[k] THEN [ring EXCEPT ![k] = Into(@, sent[k] + 1)] ELSE ring
  /\ UNCHANGED <<forwards, bus, wire, inbox, seen, shed>>

(* while let Ok(event) = rx.recv().await *)
Forward(k) ==
  /\ forwards[k] /\ ring[k] # Empty
  /\ \/ /\ ring[k].lagged
        /\ forwards' = [forwards EXCEPT ![k] = FALSE]
        /\ ring' = [ring EXCEPT ![k] = Empty]
        /\ UNCHANGED <<bus, shed>>
     \/ /\ ~ring[k].lagged
        /\ bus' = Into(bus, [kind |-> k, nr |-> Head(ring[k].of)])
        /\ shed' = IF Len(bus.of) = Capacity
                   THEN [shed EXCEPT ![Head(bus.of).kind] = Head(bus.of).nr] ELSE shed
        /\ ring' = [ring EXCEPT ![k] = OutOf(@)]
        /\ UNCHANGED forwards
  /\ UNCHANGED <<sent, wire, inbox, seen>>

(* The publishing loop: a lag is noted and passed over. *)
AfterLagEmpty(ch) == Empty
AfterLag(ch) == [ch EXCEPT !.lagged = FALSE]

Published(e) ==
  \/ Len(wire) < Room /\ wire' = Append(wire, e) /\ UNCHANGED shed
  \/ Len(wire) = Room /\ shed' = [shed EXCEPT ![e.kind] = e.nr] /\ UNCHANGED wire

Publish ==
  /\ bus # Empty
  /\ \/ /\ bus.lagged
        /\ bus' = AfterLag(bus)
        /\ UNCHANGED <<wire, shed>>
     \/ /\ ~bus.lagged
        /\ Published(Head(bus.of))
        /\ bus' = OutOf(bus)
  /\ UNCHANGED <<sent, ring, forwards, inbox, seen>>

(* spawn_event_listener waits for room in the strategy's channel. *)
Listen ==
  /\ wire # <<>> /\ Len(inbox) < Room
  /\ inbox' = Append(inbox, Head(wire))
  /\ wire' = Tail(wire)
  /\ UNCHANGED <<sent, ring, forwards, bus, seen, shed>>

HandleEvent ==
  /\ inbox # <<>>
  /\ seen' = [seen EXCEPT ![Head(inbox).kind] = Head(inbox).nr]
  /\ inbox' = Tail(inbox)
  /\ UNCHANGED <<sent, ring, forwards, bus, wire, shed>>

Next ==
  \/ \E k \in Kinds : SendEvent(k) \/ Forward(k)
  \/ Publish \/ Listen \/ HandleEvent

Spec == Init /\ [][Next]_vars

(* Forwarders, publisher, listener and strategy are tasks that run. *)
Fairness ==
  /\ \A k \in Kinds : WF_vars(Forward(k))
  /\ WF_vars(Publish) /\ WF_vars(Listen) /\ WF_vars(HandleEvent)

-----------------------------------------------------------------------------
(* The last event of a kind arrives, however slow its receivers are, unless  *)
(* it was pushed out by events of another kind, the sockets dropped it, or   *)
(* its forwarder lagged and ended (runner.rs 304-334, server.rs 280-308).    *)
LastEventArrives ==
  \A k \in Kinds :
    seen[k] # sent[k] ~> (seen[k] = sent[k] \/ shed[k] = sent[k] \/ ~forwards[k])
=============================================================================

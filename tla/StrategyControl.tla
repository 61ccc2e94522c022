--------------------------- MODULE StrategyControl ---------------------------
(***************************************************************************)
(* An operator's commands to a running strategy (src/cli/stratctl.rs,      *)
(* core/src/zmq/strategy_client.rs and strategy_server.rs): a client of    *)
(* one command each, a server that answers at once and queues the command, *)
(* and the loop of the strategy that takes commands when nothing else      *)
(* keeps it.  Of a strategy only its pause and the status it shows matter. *)
(***************************************************************************)
EXTENDS Naturals, Sequences

CONSTANTS
  Clients,    \* calls of stratctl
  Orders,     \* commands they give
  Strategies, \* kinds of strategy: the perp/perp "poller", the spot/perp "engine"
  Capacity    \* places in the command channel

StrategyControlAssumption ==
  /\ Orders \subseteq {"GetStatus", "Pause", "Resume", "GracefulExit", "ForceExit"}
  /\ Strategies \subseteq {"poller", "engine"}
  /\ Capacity \in Nat \ {0}

VARIABLES
  kind,     \* which strategy it is
  client,   \* what each client has: "new", its command under way, its answer
  requests, \* commands on their way to the server
  queue,    \* the command channel
  paused,   \* of the strategy
  shown,    \* its pause, as the watch channel shows it
  acked     \* ghost: the last Pause or Resume that was acknowledged, unless
            \* an emergency came after it

vars == <<kind, client, requests, queue, paused, shown, acked>>

TypeOK ==
  /\ kind \in Strategies
  /\ client \in [Clients -> {"new", "waiting", "gone", "paused", "running", "ack", "rejected"}]
  /\ requests \in Seq([from : Clients, order : Orders])
  /\ queue \in Seq(Orders) /\ Len(queue) <= Capacity
  /\ paused \in BOOLEAN /\ shown \in BOOLEAN
  /\ acked \in {"none", "Pause", "Resume"}

Init ==
  /\ kind \in Strategies
  /\ client = [c \in Clients |-> "new"]
  /\ requests = <<>>
  /\ queue = <<>>
  /\ paused = FALSE
  /\ shown = FALSE
  /\ acked = "none"

-----------------------------------------------------------------------------
(* The client.  A client that waited for too long is gone, its command is    *)
(* not.                                                                      *)
Send(c) ==
  /\ client[c] = "new"
  /\ \E o \in Orders : requests' = Append(requests, [from |-> c, order |-> o])
  /\ client' = [client EXCEPT ![c] = "waiting"]
  /\ UNCHANGED <<kind, queue, paused, shown, acked>>

NotFound(c) ==
  /\ client[c] = "new"
  /\ client' = [client EXCEPT ![c] = "gone"]
  /\ UNCHANGED <<kind, requests, queue, paused, shown, acked>>

TimeOut(c) ==
  /\ client[c] = "waiting"
  /\ client' = [client EXCEPT ![c] = "gone"]
  /\ UNCHANGED <<kind, requests, queue, paused, shown, acked>>

(* The command loop of the server.  try_send does not wait: what does not    *)
(* fit is lost.                                                              *)
Fitting(q) == IF Len(q) > Capacity THEN SubSeq(q, 1, Capacity) ELSE q
TakenAlways == TRUE
Taken == Len(queue) < Capacity

Answer(c, r) == client' = [client EXCEPT ![c] = IF @ = "waiting" THEN r ELSE @]

Serve ==
  /\ requests # <<>>
  /\ LET c == Head(requests).from
         o == Head(requests).order
     IN \/ /\ o = "GetStatus"
           /\ Answer(c, IF shown THEN "paused" ELSE "running")
           /\ UNCHANGED <<queue, acked>>
        \/ /\ o # "GetStatus"
           /\ Taken
           /\ queue' = Fitting(Append(queue, o))
           /\ Answer(c, "ack")
           /\ acked' = IF o \in {"Pause", "Resume"} THEN o ELSE acked
        \/ /\ o # "GetStatus" /\ ~Taken
           /\ Answer(c, "rejected")
           /\ UNCHANGED <<queue, acked>>
  /\ requests' = Tail(requests)
  /\ UNCHANGED <<kind, paused, shown>>

-----------------------------------------------------------------------------
(* The strategy.  An exit that is not ignored shows the status, but for the  *)
(* engine's ForceExit.                                                       *)
Publishes(o) ==
  \/ o = "Resume"
  \/ kind = "poller"
  \/ o = "GracefulExit"

HandleCommand ==
  /\ queue # <<>>
  /\ LET o == Head(queue)
         p == IF o = "Pause" THEN TRUE ELSE IF o = "Resume" THEN FALSE ELSE paused
     IN /\ paused' = p
        /\ \/ shown' = p /\ Publishes(o)
           \/ UNCHANGED shown /\ (~Publishes(o) \/ o \in {"GracefulExit", "ForceExit"})
  /\ queue' = Tail(queue)
  /\ UNCHANGED <<kind, client, requests, acked>>

(* A position near liquidation: exit and pause *)
Emergency ==
  /\ ~paused
  /\ paused' = TRUE /\ shown' = TRUE
  /\ acked' = "none"
  /\ UNCHANGED <<kind, client, requests, queue>>

(* A transition of the pair shows the status. *)
Transition ==
  /\ shown' = paused
  /\ UNCHANGED <<kind, client, requests, queue, paused, acked>>

Next ==
  \/ \E c \in Clients : Send(c) \/ NotFound(c) \/ TimeOut(c)
  \/ Serve \/ HandleCommand \/ Emergency \/ Transition

Spec == Init /\ [][Next]_vars

(* The server and the loop of the strategy are tasks that run. *)
Fairness == WF_vars(Serve) /\ WF_vars(HandleCommand)

-----------------------------------------------------------------------------
(* A pause or a resume that was acknowledged is done, unless another command *)
(* was acknowledged after it, though the client has given up or the channel  *)
(* is full (strategy_server.rs 120-139).                                     *)
AcknowledgedPauseIsDone ==
  \A o \in {"Pause", "Resume"} : acked = o ~> (acked # o \/ paused = (o = "Pause"))
=============================================================================

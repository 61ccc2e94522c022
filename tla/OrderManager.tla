---------------------------- MODULE OrderManager ----------------------------
(***************************************************************************)
(* The order manager actor of one exchange process                         *)
(* (core/src/manager/order.rs): it turns submit and cancel commands into   *)
(* REST calls run by spawned tasks, follows the orders on the exchange's   *)
(* WebSocket stream, repairs what the stream lost with a periodic REST     *)
(* reconciliation, and publishes one event per change it learns of.        *)
(*                                                                         *)
(* The exchange is modelled as the code uses it: it accepts or refuses a   *)
(* placement, fills, expires or cancels an order, pushes an event for each *)
(* change (some lost while the stream is down) and answers REST calls,     *)
(* whose answers can be late or lost after the call took effect.           *)
(***************************************************************************)
EXTENDS Integers, Sequences

CONSTANTS
  Orders,       \* the internal ids the actor generates
  ClientIds,    \* client order ids, as the exchange knows the orders
  ClientIdOf,   \* encode_client_order_id of the exchange's codec
  DecodesIds,   \* the stream's events carry an internal id decoded from the
                \* client id (every real exchange); otherwise it is empty
  EchoesCancel, \* a cancel reply carries the exchange's own record of the order
                \* (Binance, Aster); otherwise a record built locally (Bybit)
  Keys, KeyOf,  \* instrument keys, and the key of each order's request
  Size,         \* lots per order
  MaxWs,        \* bound: events waiting in the stream
  MaxCancels,   \* bound: cancel requests in flight per order
  NoOrder

ASSUME OrderManagerAssumption ==
  /\ NoOrder \notin Orders
  /\ ClientIdOf \in [Orders -> ClientIds]
  /\ \A o, p \in Orders : ClientIdOf[o] = ClientIdOf[p] => o = p
  \* an id that was cut to fit is not the id of another order
  /\ \A o \in Orders : DecodesIds /\ ClientIdOf[o] \in Orders => ClientIdOf[o] = o
  /\ KeyOf \in [Orders -> Keys]
  /\ Size \in Nat \ {0} /\ MaxWs \in Nat /\ MaxCancels \in Nat
  /\ DecodesIds \in BOOLEAN /\ EchoesCancel \in BOOLEAN

VARIABLES
  \* the actor
  order,        \* active_orders: what the actor tracks of each order
  cidMap,       \* client_id_map: client id -> internal id
  openKeys,     \* reconciliation: keys whose open orders are still to be read
  missing,      \* reconciliation: orders the exchange did not list as open
  \* spawned REST tasks and the results they post to the actor's mailbox
  place,        \* progress of the place_order call of each order
  submitResult, \* HandleSubmitResult waiting for each order
  cancels,      \* cancel_order calls in flight for each order
  cancelReplies,\* successful HandleCancelResults waiting
  \* the outside
  exch,         \* the order at the exchange
  ws,           \* the execution stream and the channel behind it
  published,    \* the last event broadcast for each order
  lost          \* orders the process forgot by restarting

actorVars == <<order, cidMap, openKeys, missing>>
taskVars == <<place, submitResult, cancels, cancelReplies>>
vars == <<order, cidMap, openKeys, missing, place, submitResult, cancels,
          cancelReplies, exch, ws, published, lost>>

Feed == INSTANCE OrderFeed WITH feed <- published

LiveStatus == {"New", "PartiallyFilled"}
FinalStatus == {"Filled", "Canceled", "Rejected"}
OrderStatus == {"PendingSubmit"} \cup LiveStatus \cup FinalStatus
Untracked == [status |-> "Untracked", filled |-> 0]
NoView == [status |-> "None", filled |-> 0]
TrackedView == [status : {"PendingSubmit"} \cup LiveStatus, filled : 0..Size]
ExchangeView == [status : {"None"} \cup LiveStatus \cup FinalStatus,
                 filled : 0..Size]
PlaceStage == {"idle", "sent", "late", "accepted", "refused", "done"}
WsEvent == [cid : {ClientIdOf[o] : o \in Orders},
            status : LiveStatus \cup FinalStatus, filled : 0..Size]
CancelReply == [id : Orders, filled : 0..Size]

TypeOK ==
  /\ order \in [Orders -> TrackedView \cup {Untracked}]
  /\ cidMap \in [ClientIds -> Orders \cup {NoOrder}]
  /\ openKeys \subseteq Keys /\ missing \subseteq Orders
  /\ place \in [Orders -> PlaceStage]
  /\ submitResult \in [Orders -> {"none", "ok", "err"}]
  /\ cancels \in [Orders -> 0..MaxCancels]
  /\ cancelReplies \subseteq CancelReply
  /\ exch \in [Orders -> ExchangeView]
  /\ ws \in Seq(WsEvent)
  /\ published \in [Orders -> ExchangeView]
  /\ lost \subseteq Orders

Tracked(o) == order[o] # Untracked
Live(o) == exch[o].status \in LiveStatus
IsFinalMissesCanceled(view) == view.status \in {"Filled", "Rejected"}
IsFinal(view) == view.status \in FinalStatus
View(r) == [status |-> r.status, filled |-> r.filled]

Init ==
  /\ order = [o \in Orders |-> Untracked]
  /\ cidMap = [c \in ClientIds |-> NoOrder]
  /\ openKeys = {} /\ missing = {}
  /\ place = [o \in Orders |-> "idle"]
  /\ submitResult = [o \in Orders |-> "none"]
  /\ cancels = [o \in Orders |-> 0]
  /\ cancelReplies = {}
  /\ exch = [o \in Orders |-> NoView]
  /\ ws = <<>>
  /\ published = [o \in Orders |-> NoView]
  /\ lost = {}

-----------------------------------------------------------------------------
(* The actor takes a command or an event only when no reconciliation, which *)
(* awaits its REST calls inside the handler, is under way.                  *)
ActorIdle == openKeys = {} /\ missing = {}

Track(o, view) == order' = [order EXCEPT ![o] = view]
Publish(o, view) == published' = [published EXCEPT ![o] = view]
UnmapForgotten(o) == UNCHANGED cidMap
Unmap(o) == cidMap' = [cidMap EXCEPT ![ClientIdOf[o]] = NoOrder]

(* An order that passed the checks is tracked before it is sent.  (A refused *)
(* one changes nothing.)                                                     *)
SubmitOrder(o) ==
  /\ ActorIdle
  /\ place[o] = "idle"
  /\ Track(o, [status |-> "PendingSubmit", filled |-> 0])
  /\ cidMap' = [cidMap EXCEPT ![ClientIdOf[o]] = o]
  /\ place' = [place EXCEPT ![o] = "sent"]
  /\ UNCHANGED <<openKeys, missing, submitResult, cancels, cancelReplies,
                 exch, ws, published, lost>>

(* Any number of cancels may be requested for a tracked order. *)
CancelOrder(o) ==
  /\ ActorIdle
  /\ Tracked(o)
  /\ cancels[o] < MaxCancels
  /\ cancels' = [cancels EXCEPT ![o] = @ + 1]
  /\ UNCHANGED <<actorVars, place, submitResult, cancelReplies,
                 exch, ws, published, lost>>

(* The stream may have moved the order on, or ended it, before this result. *)
ConfirmAlways(o) ==
  IF Tracked(o)
  THEN LET confirmed == [status |-> "New", filled |-> order[o].filled]
       IN  Track(o, confirmed) /\ Publish(o, confirmed)
  ELSE UNCHANGED <<order, published>>
ConfirmIfPending(o) ==
  IF order[o].status = "PendingSubmit"
  THEN LET confirmed == [status |-> "New", filled |-> order[o].filled]
       IN  Track(o, confirmed) /\ Publish(o, confirmed)
  ELSE UNCHANGED <<order, published>>

HandleSubmitOk(o) ==
  /\ ActorIdle
  /\ submitResult[o] = "ok"
  /\ submitResult' = [submitResult EXCEPT ![o] = "none"]
  /\ ConfirmIfPending(o)
  /\ UNCHANGED <<cidMap, openKeys, missing, place, cancels, cancelReplies,
                 exch, ws, lost>>

(* A failed call rejects the order unless the stream has confirmed it. *)
RejectForgetsConfirmed(o) ==
  IF order[o].status = "PendingSubmit"
  THEN /\ Track(o, Untracked)
       /\ Unmap(o)
       /\ Publish(o, [status |-> "Rejected", filled |-> order[o].filled])
  ELSE Track(o, Untracked) /\ Unmap(o) /\ UNCHANGED published
RejectNever(o) == UNCHANGED <<order, cidMap, published>>
RejectIfPending(o) ==
  IF order[o].status = "PendingSubmit"
  THEN /\ Track(o, Untracked)
       /\ Unmap(o)
       /\ Publish(o, [status |-> "Rejected", filled |-> order[o].filled])
  ELSE UNCHANGED <<order, cidMap, published>>

HandleSubmitErr(o) ==
  /\ ActorIdle
  /\ submitResult[o] = "err"
  /\ submitResult' = [submitResult EXCEPT ![o] = "none"]
  /\ RejectIfPending(o)
  /\ UNCHANGED <<openKeys, missing, place, cancels, cancelReplies,
                 exch, ws, lost>>

(* A confirmed cancel is published whether or not the order is still tracked. *)
HandleCancelOk(reply) ==
  /\ ActorIdle
  /\ reply \in cancelReplies
  /\ cancelReplies' = cancelReplies \ {reply}
  /\ Track(reply.id, Untracked)
  /\ Unmap(reply.id)
  /\ Publish(reply.id, [status |-> "Canceled", filled |-> reply.filled])
  /\ UNCHANGED <<openKeys, missing, place, submitResult, cancels,
                 exch, ws, lost>>

(* The internal id of a stream event: the decoded one, which is the client  *)
(* id itself, or the one the map gives.                                      *)
Resolve(cid) == IF DecodesIds THEN cid ELSE cidMap[cid]

(* Events of unknown or no longer tracked orders are ignored. *)
FollowsConfirmed(id) == id \in Orders /\ order[id].status \in LiveStatus
Follows(id) == id \in Orders /\ Tracked(id)

HandleWsEvent ==
  /\ ActorIdle
  /\ ws # <<>>
  /\ ws' = Tail(ws)
  /\ LET event == Head(ws)
         id == Resolve(event.cid)
     IN  IF Follows(id)
         THEN /\ Publish(id, View(event))
              /\ IF IsFinal(event)
                 THEN Track(id, Untracked) /\ Unmap(id)
                 ELSE Track(id, View(event)) /\ UNCHANGED cidMap
         ELSE UNCHANGED <<order, cidMap, published>>
  /\ UNCHANGED <<openKeys, missing, taskVars, exch, lost>>

-----------------------------------------------------------------------------
(* Reconciliation: the open orders of every key with tracked orders, then   *)
(* the status of each tracked order they lack.                              *)
ReconcileStart ==
  /\ ActorIdle
  /\ openKeys' = {KeyOf[o] : o \in {p \in Orders : Tracked(p)}}
  /\ openKeys' # {}
  /\ UNCHANGED <<order, cidMap, missing, taskVars, exch, ws, published, lost>>

MissingUnlessNew(k) ==
  {o \in Orders : order[o].status = "New" /\ KeyOf[o] = k /\ exch[o] = NoView}
MissingOn(k) == {o \in Orders : Tracked(o) /\ KeyOf[o] = k /\ ~Live(o)}

ReadOpenOrders(k) ==
  /\ missing = {}
  /\ k \in openKeys
  /\ openKeys' = openKeys \ {k}
  /\ missing' = MissingOn(k)
  /\ UNCHANGED <<order, cidMap, taskVars, exch, ws, published, lost>>

OpenOrdersFail(k) ==
  /\ missing = {}
  /\ k \in openKeys
  /\ openKeys' = openKeys \ {k}
  /\ UNCHANGED <<order, cidMap, missing, taskVars, exch, ws, published, lost>>

(* The exchange knows the order: it ended, or it was accepted meanwhile. *)
ReadStatus(o) ==
  /\ o \in missing
  /\ exch[o] # NoView
  /\ missing' = missing \ {o}
  /\ IF IsFinal(exch[o])
     THEN Track(o, Untracked) /\ Unmap(o) /\ Publish(o, exch[o])
     ELSE UNCHANGED <<order, cidMap, published>>
  /\ UNCHANGED <<openKeys, taskVars, exch, ws, lost>>

StatusFails(o) ==
  /\ o \in missing
  /\ missing' = missing \ {o}
  /\ UNCHANGED <<order, cidMap, openKeys, taskVars, exch, ws, published, lost>>

-----------------------------------------------------------------------------
(* The place_order task ends when the exchange answered, or on a timeout of  *)
(* the HTTP client, after which the request may still arrive.  An accepted   *)
(* order's answer can be an error too: lost, unreadable, or the refusal of   *)
(* a retried request.                                                        *)
PlaceReturns(o) ==
  /\ \/ /\ place[o] = "accepted"
        /\ \E r \in {"ok", "err"} : submitResult' = [submitResult EXCEPT ![o] = r]
     \/ /\ place[o] \in {"sent", "refused"}
        /\ submitResult' = [submitResult EXCEPT ![o] = "err"]
  /\ place' = [place EXCEPT ![o] = IF @ = "sent" THEN "late" ELSE "done"]
  /\ UNCHANGED <<actorVars, cancels, cancelReplies, exch, ws, published, lost>>

(* The exchange changes an order and pushes an event, which the stream may   *)
(* lose while it reconnects.                                                 *)
Push(o) ==
  \/ UNCHANGED ws
  \/ /\ Len(ws) < MaxWs
     /\ ws' = Append(ws, [cid |-> ClientIdOf[o], status |-> exch'[o].status,
                          filled |-> exch'[o].filled])

Accept(o) ==
  /\ place[o] \in {"sent", "late"}
  /\ place' = [place EXCEPT ![o] = IF @ = "sent" THEN "accepted" ELSE "done"]
  /\ exch' = [exch EXCEPT ![o] = [status |-> "New", filled |-> 0]]
  /\ Push(o)
  /\ UNCHANGED <<actorVars, submitResult, cancels, cancelReplies, published, lost>>

Refuse(o) ==
  /\ place[o] \in {"sent", "late"}
  /\ place' = [place EXCEPT ![o] = IF @ = "sent" THEN "refused" ELSE "done"]
  /\ \/ UNCHANGED <<exch, ws>>
     \/ /\ exch' = [exch EXCEPT ![o] = [status |-> "Rejected", filled |-> 0]]
        /\ Push(o)
  /\ UNCHANGED <<actorVars, submitResult, cancels, cancelReplies, published, lost>>

Fill(o) ==
  /\ Live(o)
  /\ \E f \in (exch[o].filled + 1)..Size :
       exch' = [exch EXCEPT ![o] =
                  [status |-> IF f = Size THEN "Filled" ELSE "PartiallyFilled",
                   filled |-> f]]
  /\ Push(o)
  /\ UNCHANGED <<actorVars, taskVars, published, lost>>

(* Post-only expiry, a cancel from elsewhere. *)
Expire(o) ==
  /\ Live(o)
  /\ exch' = [exch EXCEPT ![o].status = "Canceled"]
  /\ Push(o)
  /\ UNCHANGED <<actorVars, taskVars, published, lost>>

CancelTakesEffect(o) ==
  /\ cancels[o] > 0
  /\ Live(o)
  /\ cancels' = [cancels EXCEPT ![o] = @ - 1]
  /\ exch' = [exch EXCEPT ![o].status = "Canceled"]
  /\ \/ cancelReplies' = cancelReplies \cup
          {[id |-> o, filled |-> IF EchoesCancel THEN exch[o].filled ELSE 0]}
     \/ UNCHANGED cancelReplies   \* the answer is lost
  /\ Push(o)
  /\ UNCHANGED <<actorVars, place, submitResult, published, lost>>

(* The exchange does not know the order or no longer has it open, or the    *)
(* call never reaches it: the failure is logged and nothing else.           *)
CancelFails(o) ==
  /\ cancels[o] > 0
  /\ cancels' = [cancels EXCEPT ![o] = @ - 1]
  /\ UNCHANGED <<actorVars, place, submitResult, cancelReplies, exch, ws,
                 published, lost>>

(* Nothing is persisted: a new process knows none of the orders, and the    *)
(* tasks of the old one are gone, though their requests may still arrive.   *)
Restart ==
  /\ order' = [o \in Orders |-> Untracked]
  /\ cidMap' = [c \in ClientIds |-> NoOrder]
  /\ openKeys' = {} /\ missing' = {}
  /\ place' = [o \in Orders |->
                 CASE place[o] = "sent" -> "late"
                   [] place[o] \in {"accepted", "refused"} -> "done"
                   [] OTHER -> place[o]]
  /\ submitResult' = [o \in Orders |-> "none"]
  /\ cancels' = [o \in Orders |-> 0]
  /\ cancelReplies' = {}
  /\ ws' = <<>>
  /\ lost' = lost \cup {o \in Orders : Tracked(o)}
  /\ UNCHANGED <<exch, published>>

ActorStep ==
  \/ \E o \in Orders : \/ SubmitOrder(o) \/ CancelOrder(o)
                       \/ HandleSubmitOk(o) \/ HandleSubmitErr(o)
                       \/ ReadStatus(o) \/ StatusFails(o)
  \/ \E reply \in cancelReplies : HandleCancelOk(reply)
  \/ HandleWsEvent
  \/ ReconcileStart
  \/ \E k \in Keys : ReadOpenOrders(k) \/ OpenOrdersFail(k)

Outside ==
  \E o \in Orders : \/ PlaceReturns(o) \/ Accept(o) \/ Refuse(o)
                    \/ Fill(o) \/ Expire(o)
                    \/ CancelTakesEffect(o) \/ CancelFails(o)

Next == ActorStep \/ Outside \/ Restart

Spec == Init /\ [][Next]_vars

(* select! picks among the ready branches at random, so no source of work   *)
(* starves; the HTTP client bounds every call by a timeout; and the exchange *)
(* is assumed to answer some of the status queries the actor keeps making.  *)
Fairness ==
  /\ \A o \in Orders : /\ WF_vars(PlaceReturns(o))
                       /\ SF_vars(HandleSubmitOk(o) \/ HandleSubmitErr(o))
                       /\ SF_vars(ReadStatus(o))
                       /\ WF_vars(StatusFails(o))
  /\ \A k \in Keys : /\ SF_vars(ReadOpenOrders(k))
                     /\ WF_vars(OpenOrdersFail(k))
  /\ SF_vars(ReconcileStart)

FairSpec == Spec /\ Fairness

-----------------------------------------------------------------------------
(* client_id_map holds exactly the tracked orders, under their own client    *)
(* ids: every way out of active_orders cleans the map too, so an event is    *)
(* never resolved to an order that is gone (order.rs 356-360, 452-460,       *)
(* 478-479, 535-536, 593-594).                                               *)
MapMatchesTracked ==
  \A c \in ClientIds, o \in Orders :
    cidMap[c] = o <=> Tracked(o) /\ ClientIdOf[o] = c

(* What strategies were last told of an order is what the actor holds of it, *)
(* from its confirmation to its end: a confirmed order leaves active_orders  *)
(* only with a final event, and only a restart forgets one silently.         *)
PublishedIsTracked ==
  \A o \in Orders :
    /\ Tracked(o) /\ order[o].status # "PendingSubmit" => published[o] = order[o]
    /\ published[o].status \in LiveStatus => Tracked(o) \/ o \in lost

(* A stream event of an order the actor is tracking reaches subscribers; the *)
(* order is inserted before it is sent for that purpose (order.rs 356).      *)
StreamEventApplied ==
  [][\A o \in Orders :
       /\ ws # <<>> /\ ws' = Tail(ws) /\ Head(ws).cid = ClientIdOf[o]
       /\ Tracked(o) /\ lost' = lost
       => published'[o] = View(Head(ws))]_vars

(* An event stream is a lagging but truthful view of the exchange's orders:  *)
(* it never goes back, and a final event tells the true end and fills of the *)
(* order, whichever of the stream, the cancel reply and the reconciliation   *)
(* reports it (handle_submit_result, handle_cancel_result, handle_ws_event,  *)
(* process_reconcile).                                                       *)
TruthfulFeed == Feed!Spec

(* Why the feed is truthful.  The events of an order wait in the stream in   *)
(* the order they happened, none ahead of the exchange, and none behind what *)
(* was published while the order is tracked; a waiting cancel reply tells    *)
(* the order's true end; and what was published lags behind the exchange.    *)
StreamInOrder ==
  \A o \in Orders, i \in 1..Len(ws) : ws[i].cid = ClientIdOf[o] =>
    /\ Feed!NotLater(View(ws[i]), exch[o])
    /\ Tracked(o) => Feed!NotLater(published[o], View(ws[i]))
    /\ \A j \in i..Len(ws) :
         ws[j].cid = ws[i].cid => Feed!NotLater(View(ws[i]), View(ws[j]))

RepliesTrue ==
  \A r \in cancelReplies : exch[r.id] = [status |-> "Canceled", filled |-> r.filled]

PublishedLags ==
  \A o \in Orders : \/ Feed!NotLater(published[o], exch[o])
                    \/ published[o] = Feed!LocalRejection /\ ~Tracked(o)

PlacementKnown ==
  \A o \in Orders :
    /\ exch[o].status = "None" => exch[o] = NoView
    /\ place[o] \in {"idle", "sent", "late"} => exch[o] = NoView
    /\ place[o] = "idle" => published[o] = NoView /\ ~Tracked(o)
    /\ place[o] = "accepted" \/ submitResult[o] = "ok" => exch[o] # NoView
    /\ order[o].status = "PendingSubmit" => order[o].filled = 0 /\ published[o] = NoView

FeedInv == StreamInOrder /\ RepliesTrue /\ PublishedLags /\ PlacementKnown

(* Strategies are told "Rejected by exchange -- terminal state"              *)
(* (strategies/src/arbitrage/types.rs 225) of no order that is live on the   *)
(* exchange's book: a placement whose call failed (order.rs 445-463) was not *)
(* taken by the exchange, unless the stream said otherwise first.            *)
RejectedByExchange ==
  [][\A o \in Orders :
       published'[o].status = "Rejected" /\ published[o].status # "Rejected"
       => ~Live(o)]_vars

(* Every tracked order that ends at the exchange is eventually reported and  *)
(* released, even when the stream lost all its events: the reconciliation    *)
(* loop (order.rs 169-179, 546-612) repairs the loss.                        *)
EndedOrdersReleased ==
  \A o \in Orders : (Tracked(o) /\ IsFinal(exch[o])) ~> ~Tracked(o)

(* No order stays PendingSubmit for good: the spawned task always posts its  *)
(* result and the actor always takes it.                                     *)
SubmissionsResolve ==
  \A o \in Orders : order[o].status = "PendingSubmit" ~>
                    order[o].status # "PendingSubmit"
=============================================================================

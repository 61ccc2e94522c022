------------------------- MODULE OrderManagerProofs -------------------------
(***************************************************************************)
(* Proofs about OrderManager, for any set of orders, ids, keys and any     *)
(* bounds.                                                                 *)
(***************************************************************************)
EXTENDS OrderManager, TLAPS

(* The spawned tasks and the exchange never touch the actor's two maps or    *)
(* its event channel: only the actor's own handlers do.                      *)
LEMMA OutsideLeavesActor ==
  ASSUME Outside
  PROVE  UNCHANGED <<order, cidMap, openKeys, missing, published, lost>>
BY DEF Outside, PlaceReturns, Accept, Refuse, Fill, Expire, CancelTakesEffect,
       CancelFails, actorVars, taskVars

-----------------------------------------------------------------------------
(* Type correctness. *)
LEMMA InitType == Init => TypeOK
BY OrderManagerAssumption
   DEF Init, TypeOK, PlaceStage, ExchangeView, NoView, Untracked

LEMMA PushType ==
  ASSUME TypeOK, NEW o \in Orders, exch' \in [Orders -> ExchangeView],
         exch'[o].status # "None", Push(o)
  PROVE  ws' \in Seq(WsEvent)
<1>1. CASE UNCHANGED ws
  BY <1>1 DEF TypeOK
<1>2. CASE ws' = Append(ws, [cid |-> ClientIdOf[o], status |-> exch'[o].status,
                             filled |-> exch'[o].filled])
  BY <1>2, OrderManagerAssumption DEF TypeOK, WsEvent, ExchangeView
<1> QED BY <1>1, <1>2 DEF Push

LEMMA ActorType == TypeOK /\ ActorStep => TypeOK'
<1> SUFFICES ASSUME TypeOK, ActorStep PROVE TypeOK'
  OBVIOUS
<1> USE OrderManagerAssumption DEF TypeOK
<1>1. ASSUME NEW o \in Orders, SubmitOrder(o) PROVE TypeOK'
  BY <1>1 DEF SubmitOrder, Track, TrackedView, PlaceStage
<1>2. ASSUME NEW o \in Orders, CancelOrder(o) PROVE TypeOK'
  BY <1>2 DEF CancelOrder, actorVars
<1>3. ASSUME NEW o \in Orders, HandleSubmitOk(o) PROVE TypeOK'
  <2>1. CASE order[o].status = "PendingSubmit"
    <3>1. order[o].filled \in 0..Size
      BY <2>1 DEF Untracked, TrackedView
    <3>2. [status |-> "New", filled |-> order[o].filled]
             \in TrackedView \cap ExchangeView
      BY <3>1 DEF TrackedView, ExchangeView, LiveStatus
    <3> DEFINE new == [status |-> "New", filled |-> order[o].filled]
    <3>3. order' = [order EXCEPT ![o] = new] /\ published' = [published EXCEPT ![o] = new]
      BY <1>3, <2>1 DEF HandleSubmitOk, ConfirmIfPending, Track, Publish
    <3>4. order' \in [Orders -> TrackedView \cup {Untracked}]
      BY <3>2, <3>3
    <3>5. published' \in [Orders -> ExchangeView]
      BY <3>2, <3>3
    <3> QED BY <1>3, <3>4, <3>5 DEF HandleSubmitOk
  <2>2. CASE order[o].status # "PendingSubmit"
    BY <1>3, <2>2 DEF HandleSubmitOk, ConfirmIfPending
  <2> QED BY <2>1, <2>2
<1>4. ASSUME NEW o \in Orders, HandleSubmitErr(o) PROVE TypeOK'
  <2>1. CASE order[o].status = "PendingSubmit"
    <3>1. order[o].filled \in 0..Size
      BY <2>1 DEF Untracked, TrackedView
    <3>2. [status |-> "Rejected", filled |-> order[o].filled] \in ExchangeView
      BY <3>1 DEF ExchangeView, FinalStatus
    <3>3. published' \in [Orders -> ExchangeView]
      BY <1>4, <2>1, <3>2 DEF HandleSubmitErr, RejectIfPending, Publish
    <3>4. /\ order' \in [Orders -> TrackedView \cup {Untracked}]
          /\ cidMap' \in [ClientIds -> Orders \cup {NoOrder}]
      BY <1>4, <2>1 DEF HandleSubmitErr, RejectIfPending, Track, Unmap
    <3> QED BY <1>4, <3>3, <3>4 DEF HandleSubmitErr
  <2>2. CASE order[o].status # "PendingSubmit"
    BY <1>4, <2>2 DEF HandleSubmitErr, RejectIfPending
  <2> QED BY <2>1, <2>2
<1>5. ASSUME NEW reply \in cancelReplies, HandleCancelOk(reply) PROVE TypeOK'
  BY <1>5 DEF HandleCancelOk, CancelReply, Track, Publish, Unmap,
              ExchangeView, LiveStatus, FinalStatus
<1>6. CASE HandleWsEvent
  <2>1. Head(ws) \in WsEvent /\ ws' \in Seq(WsEvent)
    BY <1>6 DEF HandleWsEvent
  <2>2. ASSUME NEW id, Follows(id), Publish(id, View(Head(ws))),
               IF IsFinal(Head(ws))
               THEN Track(id, Untracked) /\ Unmap(id)
               ELSE Track(id, View(Head(ws))) /\ UNCHANGED cidMap
        PROVE  /\ order' \in [Orders -> TrackedView \cup {Untracked}]
               /\ cidMap' \in [ClientIds -> Orders \cup {NoOrder}]
               /\ published' \in [Orders -> ExchangeView]
    <3>1. View(Head(ws)) \in ExchangeView
      BY <2>1 DEF View, WsEvent, ExchangeView
    <3>2. ~IsFinal(Head(ws)) => View(Head(ws)) \in TrackedView
      BY <2>1 DEF View, WsEvent, TrackedView, IsFinal
    <3>3. published' \in [Orders -> ExchangeView]
      BY <2>2, <3>1 DEF Publish
    <3>4. CASE IsFinal(Head(ws))
      BY <2>2, <3>3, <3>4 DEF Track, Unmap
    <3>5. CASE ~IsFinal(Head(ws))
      <4>1. order' = [order EXCEPT ![id] = View(Head(ws))] /\ UNCHANGED cidMap
        BY <2>2, <3>5 DEF Track
      <4>2. order' \in [Orders -> TrackedView \cup {Untracked}]
        BY <4>1, <3>2, <3>5
      <4> QED BY <4>1, <4>2, <3>3
    <3> QED BY <3>4, <3>5
  <2>3. CASE Follows(Resolve(Head(ws).cid))
    BY <1>6, <2>1, <2>2, <2>3 DEF HandleWsEvent, taskVars
  <2>4. CASE ~Follows(Resolve(Head(ws).cid))
    BY <1>6, <2>1, <2>4 DEF HandleWsEvent, taskVars
  <2> QED BY <2>3, <2>4
<1>7. CASE ReconcileStart
  BY <1>7 DEF ReconcileStart, taskVars
<1>8. ASSUME NEW k \in Keys, ReadOpenOrders(k) PROVE TypeOK'
  BY <1>8 DEF ReadOpenOrders, MissingOn, taskVars
<1>9. ASSUME NEW k \in Keys, OpenOrdersFail(k) PROVE TypeOK'
  BY <1>9 DEF OpenOrdersFail, taskVars
<1>10. ASSUME NEW o \in Orders, ReadStatus(o) PROVE TypeOK'
  BY <1>10 DEF ReadStatus, Track, Publish, Unmap, taskVars
<1>11. ASSUME NEW o \in Orders, StatusFails(o) PROVE TypeOK'
  BY <1>11 DEF StatusFails, taskVars
<1> QED
  BY <1>1, <1>2, <1>3, <1>4, <1>5, <1>6, <1>7, <1>8, <1>9, <1>10, <1>11
     DEF ActorStep

LEMMA OutsideType == TypeOK /\ Outside => TypeOK'
<1> SUFFICES ASSUME TypeOK, NEW o \in Orders,
                    \/ PlaceReturns(o) \/ Accept(o) \/ Refuse(o) \/ Fill(o)
                    \/ Expire(o) \/ CancelTakesEffect(o) \/ CancelFails(o)
             PROVE  TypeOK'
  BY DEF Outside
<1> USE OrderManagerAssumption
<1>1. CASE PlaceReturns(o)
  BY <1>1 DEF PlaceReturns, TypeOK, actorVars, PlaceStage
<1>2. CASE Accept(o)
  <2>1. exch' \in [Orders -> ExchangeView] /\ exch'[o].status = "New"
    BY <1>2 DEF Accept, TypeOK, ExchangeView, LiveStatus
  <2>2. ws' \in Seq(WsEvent)
    BY <1>2, <2>1, PushType DEF Accept
  <2> QED BY <1>2, <2>1, <2>2 DEF Accept, TypeOK, actorVars, PlaceStage
<1>3. CASE Refuse(o)
  <2>1. exch' \in [Orders -> ExchangeView]
    <3>1. [status |-> "Rejected", filled |-> 0] \in ExchangeView
      BY DEF ExchangeView, FinalStatus
    <3> QED BY <1>3, <3>1 DEF Refuse, TypeOK
  <2>2. ws' \in Seq(WsEvent)
    <3>1. CASE UNCHANGED ws
      BY <3>1 DEF TypeOK
    <3>2. CASE /\ exch' = [exch EXCEPT ![o] = [status |-> "Rejected",
                                               filled |-> 0]]
               /\ Push(o)
      <4>1. exch'[o].status # "None"
        BY <3>2 DEF TypeOK
      <4> QED BY <3>2, <2>1, <4>1, PushType
    <3> QED BY <1>3, <3>1, <3>2 DEF Refuse
  <2> QED BY <1>3, <2>1, <2>2 DEF Refuse, TypeOK, actorVars, PlaceStage
<1>4. CASE Fill(o)
  <2>1. exch' \in [Orders -> ExchangeView] /\ exch'[o].status # "None"
    BY <1>4 DEF Fill, TypeOK, ExchangeView, LiveStatus, FinalStatus
  <2>2. ws' \in Seq(WsEvent)
    BY <1>4, <2>1, PushType DEF Fill
  <2> QED BY <1>4, <2>1, <2>2 DEF Fill, TypeOK, actorVars, taskVars
<1>5. CASE Expire(o)
  <2>1. exch' \in [Orders -> ExchangeView] /\ exch'[o].status # "None"
    BY <1>5 DEF Expire, TypeOK, ExchangeView, FinalStatus
  <2>2. ws' \in Seq(WsEvent)
    BY <1>5, <2>1, PushType DEF Expire
  <2> QED BY <1>5, <2>1, <2>2 DEF Expire, TypeOK, actorVars, taskVars
<1>6. CASE CancelTakesEffect(o)
  <2>1. exch' \in [Orders -> ExchangeView] /\ exch'[o].status # "None"
    BY <1>6 DEF CancelTakesEffect, TypeOK, ExchangeView, FinalStatus
  <2>2. ws' \in Seq(WsEvent)
    BY <1>6, <2>1, PushType DEF CancelTakesEffect
  <2>3. cancels' \in [Orders -> 0..MaxCancels]
    BY <1>6 DEF CancelTakesEffect, TypeOK
  <2>4. cancelReplies' \subseteq CancelReply
    <3> DEFINE reply == [id |-> o, filled |-> IF EchoesCancel THEN exch[o].filled ELSE 0]
    <3>1. cancelReplies' \subseteq cancelReplies \cup {reply}
      BY <1>6 DEF CancelTakesEffect
    <3>2. exch[o].filled \in 0..Size /\ 0 \in 0..Size
      BY OrderManagerAssumption DEF TypeOK, ExchangeView
    <3>3. reply \in CancelReply
      BY <3>2 DEF CancelReply
    <3> QED BY <3>1, <3>3 DEF TypeOK
  <2> QED BY <1>6, <2>1, <2>2, <2>3, <2>4
             DEF CancelTakesEffect, TypeOK, actorVars
<1>7. CASE CancelFails(o)
  BY <1>7 DEF CancelFails, TypeOK, actorVars
<1> QED BY <1>1, <1>2, <1>3, <1>4, <1>5, <1>6, <1>7

LEMMA RestartType == TypeOK /\ Restart => TypeOK'
BY OrderManagerAssumption
   DEF TypeOK, Restart, PlaceStage, Untracked

(* The state stays well typed whatever the interleaving of commands, task    *)
(* results, stream events, reconciliations and restarts.                     *)
THEOREM TypeCorrect == Spec => []TypeOK
<1>1. TypeOK /\ [Next]_vars => TypeOK'
  <2>1. CASE UNCHANGED vars
    BY <2>1 DEF vars, TypeOK
  <2> QED BY <2>1, ActorType, OutsideType, RestartType DEF Next
<1> QED BY InitType, <1>1, PTL DEF Spec

-----------------------------------------------------------------------------
(* The client id map: each way out of active_orders cleans it, and a final   *)
(* cancel reply for an order that already left finds nothing to clean.       *)
LEMMA MapStep == TypeOK /\ MapMatchesTracked /\ [Next]_vars => MapMatchesTracked'
<1> SUFFICES ASSUME TypeOK, MapMatchesTracked, [Next]_vars
             PROVE  MapMatchesTracked'
  OBVIOUS
<1> USE OrderManagerAssumption DEF MapMatchesTracked, Tracked, TypeOK
<1>1. CASE UNCHANGED <<order, cidMap>>
  BY <1>1
<1>2. ASSUME NEW o \in Orders, Track(o, Untracked), Unmap(o)
      PROVE  MapMatchesTracked'
  BY <1>2 DEF Track, Unmap
<1>3. ASSUME NEW o \in Orders, NEW view \in TrackedView,
             order[o] # Untracked, Track(o, view), UNCHANGED cidMap
      PROVE  MapMatchesTracked'
  <2>1. view # Untracked
    BY DEF TrackedView, Untracked, LiveStatus
  <2> QED BY <1>3, <2>1 DEF Track
<1>4. ASSUME NEW o \in Orders, SubmitOrder(o) PROVE MapMatchesTracked'
  <2>1. [status |-> "PendingSubmit", filled |-> 0] # Untracked
    BY DEF Untracked
  <2> QED BY <1>4, <2>1 DEF SubmitOrder, Track
<1>5. ASSUME NEW o \in Orders, HandleSubmitOk(o) PROVE MapMatchesTracked'
  <2>1. CASE order[o].status = "PendingSubmit"
    <3>1. order[o] # Untracked /\ order[o].filled \in 0..Size
      BY <2>1 DEF Untracked, TrackedView
    <3>2. [status |-> "New", filled |-> order[o].filled] \in TrackedView
      BY <3>1 DEF TrackedView, LiveStatus
    <3> QED BY <1>3, <1>5, <2>1, <3>1, <3>2 DEF HandleSubmitOk, ConfirmIfPending
  <2> QED BY <1>1, <1>5, <2>1 DEF HandleSubmitOk, ConfirmIfPending
<1>6. ASSUME NEW o \in Orders, HandleSubmitErr(o) PROVE MapMatchesTracked'
  BY <1>1, <1>2, <1>6 DEF HandleSubmitErr, RejectIfPending
<1>7. ASSUME NEW reply \in cancelReplies, HandleCancelOk(reply)
      PROVE  MapMatchesTracked'
  BY <1>2, <1>7 DEF HandleCancelOk, CancelReply
<1>8. CASE HandleWsEvent
  <2> DEFINE id == Resolve(Head(ws).cid)
  <2>1. CASE Follows(id) /\ IsFinal(Head(ws))
    BY <1>2, <1>8, <2>1 DEF HandleWsEvent, Follows
  <2>2. CASE Follows(id) /\ ~IsFinal(Head(ws))
    <3>1. Head(ws) \in WsEvent
      BY <1>8 DEF HandleWsEvent
    <3>2. View(Head(ws)) \in TrackedView
      BY <2>2, <3>1 DEF View, WsEvent, TrackedView, IsFinal
    <3> QED BY <1>3, <1>8, <2>2, <3>2 DEF HandleWsEvent, Follows
  <2>3. CASE ~Follows(id)
    BY <1>1, <1>8, <2>3 DEF HandleWsEvent
  <2> QED BY <2>1, <2>2, <2>3
<1>9. ASSUME NEW o \in Orders, ReadStatus(o) PROVE MapMatchesTracked'
  BY <1>1, <1>2, <1>9 DEF ReadStatus
<1>10. CASE Restart
  BY <1>10 DEF Restart
<1>11. ASSUME UNCHANGED vars \/ Outside PROVE MapMatchesTracked'
  BY <1>1, <1>11, OutsideLeavesActor DEF vars
<1> QED
  BY <1>1, <1>4, <1>5, <1>6, <1>7, <1>8, <1>9, <1>10, <1>11
     DEF Next, ActorStep, CancelOrder, ReconcileStart, ReadOpenOrders,
         OpenOrdersFail, StatusFails, actorVars

(* In every reachable state client_id_map holds exactly the tracked orders.  *)
THEOREM MapAlwaysMatches == Spec => []MapMatchesTracked
<1>1. Init => MapMatchesTracked
  <2> SUFFICES ASSUME Init, NEW c \in ClientIds, NEW o \in Orders
               PROVE  cidMap[c] = o <=> Tracked(o) /\ ClientIdOf[o] = c
    BY DEF MapMatchesTracked
  <2>1. cidMap[c] = NoOrder /\ order[o] = Untracked
    BY DEF Init
  <2> QED BY <2>1, OrderManagerAssumption DEF Tracked
<1> QED BY <1>1, MapStep, TypeCorrect, PTL DEF Spec

-----------------------------------------------------------------------------
(* The last event published is what the actor holds of an order: every       *)
(* handler that changes a tracked order publishes the same view of it.       *)
LEMMA PublishedStep ==
  TypeOK /\ PublishedIsTracked /\ [Next]_vars => PublishedIsTracked'
<1> SUFFICES ASSUME TypeOK, PublishedIsTracked, [Next]_vars
             PROVE  PublishedIsTracked'
  OBVIOUS
<1> USE DEF PublishedIsTracked, Tracked, TypeOK
<1>1. CASE UNCHANGED <<order, published, lost>>
  BY <1>1
<1>2. ASSUME NEW o \in Orders, NEW view, view.status \in FinalStatus,
             Track(o, Untracked), Publish(o, view), UNCHANGED lost
      PROVE  PublishedIsTracked'
  BY <1>2 DEF Track, Publish, LiveStatus, FinalStatus, Untracked
<1>3. ASSUME NEW o \in Orders, NEW view \in TrackedView,
             Track(o, view), Publish(o, view), UNCHANGED lost
      PROVE  PublishedIsTracked'
  <2>1. view # Untracked
    BY DEF TrackedView, Untracked, LiveStatus
  <2> QED BY <1>3, <2>1 DEF Track, Publish
<1>4. ASSUME NEW o \in Orders, SubmitOrder(o) PROVE PublishedIsTracked'
  <2>1. [status |-> "PendingSubmit", filled |-> 0] # Untracked
    BY DEF Untracked
  <2> QED BY <1>4, <2>1 DEF SubmitOrder, Track
<1>5. ASSUME NEW o \in Orders, HandleSubmitOk(o) PROVE PublishedIsTracked'
  <2>1. CASE order[o].status = "PendingSubmit"
    <3>1. order[o].filled \in 0..Size
      BY <2>1 DEF Untracked, TrackedView
    <3>2. [status |-> "New", filled |-> order[o].filled] \in TrackedView
      BY <3>1 DEF TrackedView, LiveStatus
    <3> QED BY <1>3, <1>5, <2>1, <3>2 DEF HandleSubmitOk, ConfirmIfPending
  <2> QED BY <1>1, <1>5, <2>1 DEF HandleSubmitOk, ConfirmIfPending
<1>6. ASSUME NEW o \in Orders, HandleSubmitErr(o) PROVE PublishedIsTracked'
  <2>1. CASE order[o].status = "PendingSubmit"
    <3> DEFINE view == [status |-> "Rejected", filled |-> order[o].filled]
    <3>1. view.status \in FinalStatus
      BY DEF FinalStatus
    <3>2. Track(o, Untracked) /\ Publish(o, view) /\ UNCHANGED lost
      BY <1>6, <2>1 DEF HandleSubmitErr, RejectIfPending
    <3> HIDE DEF view
    <3> QED BY <1>2, <3>1, <3>2
  <2> QED BY <1>1, <1>6, <2>1 DEF HandleSubmitErr, RejectIfPending
<1>7. ASSUME NEW reply \in cancelReplies, HandleCancelOk(reply)
      PROVE  PublishedIsTracked'
  <2> DEFINE view == [status |-> "Canceled", filled |-> reply.filled]
  <2>1. view.status \in FinalStatus
    BY DEF FinalStatus
  <2>2. /\ Track(reply.id, Untracked) /\ Publish(reply.id, view) /\ UNCHANGED lost
        /\ reply.id \in Orders
    BY <1>7 DEF HandleCancelOk, CancelReply
  <2> HIDE DEF view
  <2> QED BY <1>2, <2>1, <2>2
<1>8. CASE HandleWsEvent
  <2> DEFINE id == Resolve(Head(ws).cid)
  <2>1. CASE Follows(id) /\ IsFinal(Head(ws))
    <3>1. View(Head(ws)).status \in FinalStatus
      BY <2>1 DEF View, IsFinal
    <3> QED BY <1>2, <1>8, <2>1, <3>1 DEF HandleWsEvent, Follows
  <2>2. CASE Follows(id) /\ ~IsFinal(Head(ws))
    <3>1. Head(ws) \in WsEvent
      BY <1>8 DEF HandleWsEvent
    <3>2. View(Head(ws)) \in TrackedView
      BY <2>2, <3>1 DEF View, WsEvent, TrackedView, IsFinal
    <3> QED BY <1>3, <1>8, <2>2, <3>2 DEF HandleWsEvent, Follows
  <2>3. CASE ~Follows(id)
    BY <1>1, <1>8, <2>3 DEF HandleWsEvent
  <2> QED BY <2>1, <2>2, <2>3
<1>9. ASSUME NEW o \in Orders, ReadStatus(o) PROVE PublishedIsTracked'
  BY <1>1, <1>2, <1>9 DEF ReadStatus, IsFinal
<1>10. CASE Restart
  <2>1. order' = [o \in Orders |-> Untracked] /\ UNCHANGED published
        /\ lost' = lost \cup {o \in Orders : Tracked(o)}
    BY <1>10 DEF Restart
  <2> QED BY <2>1
<1>11. ASSUME UNCHANGED vars \/ Outside PROVE PublishedIsTracked'
  BY <1>1, <1>11, OutsideLeavesActor DEF vars
<1> QED
  BY <1>1, <1>4, <1>5, <1>6, <1>7, <1>8, <1>9, <1>10, <1>11
     DEF Next, ActorStep, CancelOrder, ReconcileStart, ReadOpenOrders,
         OpenOrdersFail, StatusFails, actorVars

(* A confirmed order is never dropped without a final event, and what        *)
(* strategies last heard of a tracked order is what the actor holds of it.   *)
THEOREM PublishedAlwaysTracked == Spec => []PublishedIsTracked
<1>1. Init => PublishedIsTracked
  <2> SUFFICES ASSUME Init, NEW o \in Orders
               PROVE  order[o] = Untracked /\ published[o].status \notin LiveStatus
    BY DEF PublishedIsTracked, Tracked
  <2> QED BY DEF Init, NoView, LiveStatus
<1> QED BY <1>1, PublishedStep, TypeCorrect, PTL DEF Spec

-----------------------------------------------------------------------------
(* An order is tracked once: what a restart forgot is never tracked again.   *)
TrackedOnce ==
  \A o \in Orders :
    /\ place[o] = "idle" => ~Tracked(o) /\ o \notin lost
    /\ o \in lost => ~Tracked(o)

(* The handlers of results, events and statuses only go on with or end what  *)
(* is tracked.                                                               *)
LEMMA HandlersTrackNone ==
  ASSUME TypeOK,
         \/ \E o \in Orders : HandleSubmitOk(o) \/ HandleSubmitErr(o) \/ ReadStatus(o)
         \/ \E reply \in cancelReplies : HandleCancelOk(reply)
         \/ HandleWsEvent
  PROVE  /\ \A p \in Orders : Tracked(p)' => Tracked(p)
         /\ UNCHANGED <<place, lost>>
<1> USE DEF TypeOK, Tracked, Track
<1>1. ASSUME NEW o \in Orders, HandleSubmitOk(o)
      PROVE  /\ \A p \in Orders : order'[p] # Untracked => order[p] # Untracked
             /\ UNCHANGED <<place, lost>>
  <2>1. order[o].status = "PendingSubmit" => order[o] # Untracked
    BY DEF Untracked
  <2> QED BY <1>1, <2>1 DEF HandleSubmitOk, ConfirmIfPending
<1>2. ASSUME NEW o \in Orders, HandleSubmitErr(o)
      PROVE  /\ \A p \in Orders : order'[p] # Untracked => order[p] # Untracked
             /\ UNCHANGED <<place, lost>>
  BY <1>2 DEF HandleSubmitErr, RejectIfPending
<1>3. ASSUME NEW o \in Orders, ReadStatus(o)
      PROVE  /\ \A p \in Orders : order'[p] # Untracked => order[p] # Untracked
             /\ UNCHANGED <<place, lost>>
  BY <1>3 DEF ReadStatus, taskVars
<1>4. ASSUME NEW reply \in cancelReplies, HandleCancelOk(reply)
      PROVE  /\ \A p \in Orders : order'[p] # Untracked => order[p] # Untracked
             /\ UNCHANGED <<place, lost>>
  BY <1>4 DEF HandleCancelOk
<1>5. ASSUME HandleWsEvent
      PROVE  /\ \A p \in Orders : order'[p] # Untracked => order[p] # Untracked
             /\ UNCHANGED <<place, lost>>
  BY <1>5 DEF HandleWsEvent, Follows, taskVars
<1> QED BY <1>1, <1>2, <1>3, <1>4, <1>5

LEMMA TrackedOnceStep == TypeOK /\ TrackedOnce /\ [Next]_vars => TrackedOnce'
<1> SUFFICES ASSUME TypeOK, TrackedOnce, [Next]_vars PROVE TrackedOnce'
  OBVIOUS
<1> USE DEF TrackedOnce, TypeOK
<1>1. CASE UNCHANGED <<order, place, lost>>
  BY <1>1 DEF Tracked
<1>2. ASSUME \/ \E o \in Orders : HandleSubmitOk(o) \/ HandleSubmitErr(o) \/ ReadStatus(o)
             \/ \E reply \in cancelReplies : HandleCancelOk(reply)
             \/ HandleWsEvent
      PROVE  TrackedOnce'
  BY <1>2, HandlersTrackNone
<1>3. ASSUME NEW o \in Orders, SubmitOrder(o) PROVE TrackedOnce'
  BY <1>3 DEF SubmitOrder, Track, Tracked
<1>4. CASE Outside
  <2>1. UNCHANGED <<order, lost>>
    BY <1>4, OutsideLeavesActor
  <2>2. \A p \in Orders : place'[p] = "idle" => place[p] = "idle"
    BY <1>4 DEF Outside, PlaceReturns, Accept, Refuse, Fill, Expire, CancelTakesEffect,
                CancelFails, taskVars
  <2> QED BY <2>1, <2>2 DEF Tracked
<1>5. CASE Restart
  <2>1. /\ \A p \in Orders : order'[p] = Untracked
        /\ lost' = lost \cup {p \in Orders : Tracked(p)}
    BY <1>5 DEF Restart
  <2>2. \A p \in Orders : place'[p] = "idle" => place[p] = "idle"
    BY <1>5 DEF Restart
  <2> QED BY <2>1, <2>2 DEF Tracked
<1> QED
  BY <1>1, <1>2, <1>3, <1>4, <1>5
     DEF Next, ActorStep, CancelOrder, ReconcileStart, ReadOpenOrders, OpenOrdersFail,
         StatusFails, actorVars, taskVars, vars

(* An event of a tracked order is resolved to it: by its id if that was not  *)
(* cut, and else by the map.                                                 *)
WholeIds == DecodesIds => \A o \in Orders : ClientIdOf[o] = o

LEMMA ResolvesTracked ==
  ASSUME WholeIds, TypeOK, MapMatchesTracked, NEW o \in Orders, Tracked(o)
  PROVE  Resolve(ClientIdOf[o]) = o
BY OrderManagerAssumption DEF WholeIds, MapMatchesTracked, Resolve

LEMMA TailIsShorter ==
  ASSUME NEW S, NEW q \in Seq(S), q # <<>>, NEW e
  PROVE  Tail(q) # q /\ Tail(q) # Append(q, e)
<1> DEFINE n == Len(q)
           t == Len(Tail(q))
           a == Len(Append(q, e))
<1>1. n \in Nat /\ t = n - 1
  OBVIOUS
<1>2. a = n + 1
  <2>1. q \in Seq(S \cup {e})
    OBVIOUS
  <2> QED BY <2>1
<1>3. t # n /\ t # a
  <2> HIDE DEF n, t, a
  <2> QED BY <1>1, <1>2
<1> QED BY <1>3

(* Only the actor, or a restart, takes from the stream.                      *)
LEMMA TakesFromStream ==
  ASSUME TypeOK, ws # <<>>, ws' = Tail(ws), [Next]_vars
  PROVE  HandleWsEvent \/ Restart
<1>1. ws' # ws /\ \A e : ws' # Append(ws, e)
  BY TailIsShorter DEF TypeOK
<1>2. ~Outside
  BY <1>1 DEF Outside, PlaceReturns, Accept, Refuse, Fill, Expire, CancelTakesEffect,
              CancelFails, Push
<1> QED BY <1>1, <1>2 DEF Next, ActorStep, SubmitOrder, CancelOrder, HandleSubmitOk,
        HandleSubmitErr, ReadStatus, StatusFails, HandleCancelOk, ReconcileStart,
        ReadOpenOrders, OpenOrdersFail, vars

(* An event that the stream brings of a tracked order is published, whatever *)
(* results, replies and reconciliations are under way: the order is tracked, *)
(* and in the map, before it is sent (order.rs 356-360, 498-541).  Ids that  *)
(* are cut to the exchange's limit are excepted.                             *)
THEOREM StreamEventsAlwaysApplied == ASSUME WholeIds PROVE Spec => StreamEventApplied
<1>1. Init => TrackedOnce
  BY DEF Init, TrackedOnce, Tracked
<1>2. Spec => []TrackedOnce
  BY <1>1, TrackedOnceStep, TypeCorrect, PTL DEF Spec
<1>3. ASSUME TypeOK, MapMatchesTracked, TrackedOnce, [Next]_vars,
             NEW o \in Orders, ws # <<>>, ws' = Tail(ws), Head(ws).cid = ClientIdOf[o],
             Tracked(o), lost' = lost
      PROVE  published'[o] = View(Head(ws))
  <2>1. CASE HandleWsEvent
    <3>1. Follows(Resolve(Head(ws).cid)) /\ Resolve(Head(ws).cid) = o
      BY <1>3, ResolvesTracked DEF Follows
    <3> QED BY <1>3, <2>1, <3>1 DEF HandleWsEvent, Publish, TypeOK
  <2>2. CASE Restart
    BY <1>3, <2>2 DEF Restart, TrackedOnce
  <2> QED BY <1>3, <2>1, <2>2, TakesFromStream
<1>4. TypeOK /\ MapMatchesTracked /\ TrackedOnce /\ [Next]_vars =>
        [\A o \in Orders :
           /\ ws # <<>> /\ ws' = Tail(ws) /\ Head(ws).cid = ClientIdOf[o]
           /\ Tracked(o) /\ lost' = lost
           => published'[o] = View(Head(ws))]_vars
  BY <1>3
<1> QED BY <1>2, <1>4, TypeCorrect, MapAlwaysMatches, PTL DEF Spec, StreamEventApplied
=============================================================================

----------------------- MODULE OrderManagerRefinement -----------------------
(***************************************************************************)
(* The order manager implements OrderFeed: on an exchange whose cancel     *)
(* replies carry the exchange's own record of the order, the event stream  *)
(* is a lagging but truthful view of the orders at the exchange.           *)
(***************************************************************************)
EXTENDS OrderManagerProofs

(* Stages of the life of an order are ordered. *)
LEMMA RankBounds ==
  ASSUME NEW v \in ExchangeView
  PROVE  /\ Feed!Rank(v.status) \in 0..3
         /\ v.status = "None" <=> Feed!Rank(v.status) = 0
         /\ v.status \in FinalStatus <=> Feed!Rank(v.status) = 3
BY DEF Feed!Rank, ExchangeView, LiveStatus, FinalStatus

LEMMA NotLaterReflexive == \A v \in ExchangeView : Feed!NotLater(v, v)
BY RankBounds DEF Feed!NotLater, ExchangeView

LEMMA NotLaterTransitive ==
  ASSUME NEW a \in ExchangeView, NEW b \in ExchangeView, NEW c \in ExchangeView,
         Feed!NotLater(a, b), Feed!NotLater(b, c)
  PROVE  Feed!NotLater(a, c)
<1>1. /\ a.filled \in Int /\ b.filled \in Int /\ c.filled \in Int
      /\ Feed!Rank(a.status) \in 0..3
      /\ Feed!Rank(b.status) \in 0..3
      /\ Feed!Rank(c.status) \in 0..3
  BY RankBounds, OrderManagerAssumption DEF ExchangeView
<1>2. Feed!Rank(a.status) <= Feed!Rank(c.status) /\ a.filled <= c.filled
  BY <1>1 DEF Feed!NotLater
<1>3. ASSUME Feed!Rank(a.status) = 3 PROVE a = c
  <2>1. a = b
    BY <1>3 DEF Feed!NotLater
  <2> QED BY <1>3, <2>1 DEF Feed!NotLater
<1> QED BY <1>2, <1>3 DEF Feed!NotLater

LEMMA NoViewFirst == \A v \in ExchangeView : Feed!NotLater(NoView, v)
<1> SUFFICES ASSUME NEW v \in ExchangeView PROVE Feed!NotLater(NoView, v)
  OBVIOUS
<1>1. Feed!Rank(NoView.status) = 0 /\ NoView.filled = 0
  BY DEF Feed!Rank, NoView
<1>2. Feed!Rank(v.status) \in 0..3 /\ v.filled \in 0..Size
  BY RankBounds DEF ExchangeView
<1> QED BY <1>1, <1>2, OrderManagerAssumption DEF Feed!NotLater

(* The views the actor and the stream handle are views of the feed. *)
LEMMA EventIsView ==
  ASSUME TypeOK, NEW i \in 1..Len(ws)
  PROVE  /\ ws[i] \in WsEvent
         /\ View(ws[i]) \in ExchangeView
         /\ View(ws[i]).status # "None"
<1>1. ws[i] \in WsEvent
  BY DEF TypeOK
<1>2. ws[i].status \in LiveStatus \cup FinalStatus /\ ws[i].filled \in 0..Size
  BY <1>1 DEF WsEvent
<1>3. View(ws[i]) = [status |-> ws[i].status, filled |-> ws[i].filled]
  BY DEF View
<1> QED BY <1>1, <1>2, <1>3 DEF ExchangeView, LiveStatus, FinalStatus

-----------------------------------------------------------------------------
(* A step of the exchange moves an order forward. *)
Forward(o) ==
  \E v \in ExchangeView : /\ v # exch[o]
                          /\ v.status # "None"
                          /\ ~IsFinal(exch[o])
                          /\ Feed!NotLater(exch[o], v)
                          /\ exch' = [exch EXCEPT ![o] = v]

LEMMA ExchangeForward ==
  ASSUME TypeOK, PlacementKnown, NEW o \in Orders,
         \/ Accept(o) \/ Fill(o) \/ Expire(o) \/ CancelTakesEffect(o)
         \/ Refuse(o) /\ exch' # exch
  PROVE  Forward(o) /\ Push(o)
<1> DEFINE old == exch[o]
<1>0. /\ old \in ExchangeView /\ old.filled \in 0..Size /\ Size \in Nat \ {0}
      /\ old = [status |-> old.status, filled |-> old.filled]
  BY OrderManagerAssumption DEF TypeOK, ExchangeView
<1>1. CASE Accept(o)
  <2> DEFINE v == [status |-> "New", filled |-> 0]
  <2>1. old = NoView
    BY <1>1 DEF Accept, PlacementKnown
  <2>2. v \in ExchangeView /\ v.status = "New"
    BY <1>0 DEF ExchangeView, LiveStatus
  <2>3. v # old /\ ~IsFinal(old) /\ Feed!NotLater(old, v)
    BY <2>1, <2>2, NoViewFirst DEF NoView, IsFinal, FinalStatus
  <2>4. exch' = [exch EXCEPT ![o] = v] /\ Push(o)
    BY <1>1 DEF Accept
  <2> QED BY <2>2, <2>3, <2>4 DEF Forward
<1>2. CASE Refuse(o) /\ exch' # exch
  <2> DEFINE v == [status |-> "Rejected", filled |-> 0]
  <2>1. old = NoView
    BY <1>2 DEF Refuse, PlacementKnown
  <2>2. v \in ExchangeView /\ v.status = "Rejected"
    BY <1>0 DEF ExchangeView, FinalStatus
  <2>3. v # old /\ ~IsFinal(old) /\ Feed!NotLater(old, v)
    BY <2>1, <2>2, NoViewFirst DEF NoView, IsFinal, FinalStatus
  <2>4. exch' = [exch EXCEPT ![o] = v] /\ Push(o)
    BY <1>2 DEF Refuse
  <2> QED BY <2>2, <2>3, <2>4 DEF Forward
<1>3. CASE Fill(o)
  <2>1. PICK f \in (old.filled + 1)..Size :
          exch' = [exch EXCEPT ![o] =
                     [status |-> IF f = Size THEN "Filled" ELSE "PartiallyFilled",
                      filled |-> f]]
    BY <1>3 DEF Fill
  <2> DEFINE v == [status |-> IF f = Size THEN "Filled" ELSE "PartiallyFilled",
                   filled |-> f]
  <2>2. /\ v \in ExchangeView /\ v.status \in {"Filled", "PartiallyFilled"}
        /\ v.filled = f /\ f > old.filled
    BY <1>0, <2>1 DEF ExchangeView, LiveStatus, FinalStatus
  <2>3. old.status \in LiveStatus
    BY <1>3 DEF Fill, Live
  <2>4. Feed!Rank(old.status) \in {1, 2} /\ Feed!Rank(v.status) \in {2, 3}
    BY <2>2, <2>3 DEF Feed!Rank, LiveStatus
  <2>5. v # old /\ ~IsFinal(old) /\ Feed!NotLater(old, v)
    BY <1>0, <2>2, <2>3, <2>4 DEF IsFinal, LiveStatus, FinalStatus, Feed!NotLater
  <2> QED BY <1>3, <2>1, <2>2, <2>5 DEF Fill, Forward
<1>4. CASE Expire(o) \/ CancelTakesEffect(o)
  <2> DEFINE v == [status |-> "Canceled", filled |-> old.filled]
  <2>1. exch' = [exch EXCEPT ![o] = v] /\ Push(o)
    BY <1>0, <1>4 DEF Expire, CancelTakesEffect, TypeOK
  <2>2. v \in ExchangeView /\ v.status = "Canceled" /\ v.filled = old.filled
    BY <1>0 DEF ExchangeView, FinalStatus
  <2>3. old.status \in LiveStatus
    BY <1>4 DEF Expire, CancelTakesEffect, Live
  <2>4. Feed!Rank(old.status) \in {1, 2} /\ Feed!Rank(v.status) = 3
    BY <2>2, <2>3 DEF Feed!Rank, LiveStatus
  <2>5. v # old /\ ~IsFinal(old) /\ Feed!NotLater(old, v)
    BY <1>0, <2>2, <2>3, <2>4 DEF IsFinal, LiveStatus, FinalStatus, Feed!NotLater
  <2> QED BY <2>1, <2>2, <2>5 DEF Forward
<1> QED BY <1>1, <1>2, <1>3, <1>4

-----------------------------------------------------------------------------
(* What a step of the exchange does to the parts of the invariant. *)
LEMMA TrackedPublished ==
  ASSUME TypeOK, PublishedIsTracked, FeedInv, NEW o \in Orders, Tracked(o)
  PROVE  Feed!NotLater(published[o], exch[o])
<1>1. order[o] \in TrackedView
  BY DEF TypeOK, Tracked
<1>2. published[o] # Feed!LocalRejection \/ Feed!NotLater(published[o], exch[o])
  BY DEF FeedInv, PublishedLags
<1> QED BY <1>1, <1>2 DEF FeedInv, PublishedLags

LEMMA ForwardPublished ==
  ASSUME TypeOK, TypeOK', PublishedLags, NEW o \in Orders, Forward(o),
         UNCHANGED <<order, published>>
  PROVE  PublishedLags'
<1>1. PICK v \in ExchangeView : /\ Feed!NotLater(exch[o], v)
                                /\ exch' = [exch EXCEPT ![o] = v]
  BY DEF Forward
<1>2. ASSUME NEW p \in Orders, Feed!NotLater(published[p], exch[p])
      PROVE  Feed!NotLater(published[p], exch'[p])
  <2>1. CASE p = o
    <3>1. exch'[p] = v /\ published[p] \in ExchangeView /\ exch[p] \in ExchangeView
      BY <1>1, <2>1 DEF TypeOK
    <3> QED BY <1>1, <1>2, <2>1, <3>1, NotLaterTransitive
  <2>2. CASE p # o
    BY <1>1, <1>2, <2>2 DEF TypeOK
  <2> QED BY <2>1, <2>2
<1> QED BY <1>2 DEF PublishedLags, Tracked

LEMMA ForwardReplies ==
  ASSUME TypeOK, RepliesTrue, NEW o \in Orders, Forward(o)
  PROVE  \A r \in cancelReplies :
           exch'[r.id] = [status |-> "Canceled", filled |-> r.filled]
<1> SUFFICES ASSUME NEW r \in cancelReplies
             PROVE  exch'[r.id] = [status |-> "Canceled", filled |-> r.filled]
  OBVIOUS
<1>1. r.id \in Orders /\ exch[r.id] = [status |-> "Canceled", filled |-> r.filled]
  BY DEF TypeOK, CancelReply, RepliesTrue
<1>2. IsFinal(exch[r.id])
  BY <1>1 DEF IsFinal, FinalStatus
<1> QED BY <1>1, <1>2 DEF Forward, TypeOK

LEMMA ForwardStream ==
  ASSUME TypeOK, TypeOK', PublishedIsTracked, FeedInv, NEW o \in Orders,
         Forward(o), Push(o), UNCHANGED <<order, published>>
  PROVE  StreamInOrder'
<1> USE OrderManagerAssumption
<1>1. PICK v \in ExchangeView : /\ v.status # "None"
                                /\ Feed!NotLater(exch[o], v)
                                /\ exch' = [exch EXCEPT ![o] = v]
  BY DEF Forward
<1>2. exch'[o] = v /\ \A p \in Orders : exch[p] \in ExchangeView /\ published[p] \in ExchangeView
  BY <1>1 DEF TypeOK
<1>3. ASSUME NEW p \in Orders, NEW i \in 1..Len(ws), ws[i].cid = ClientIdOf[p]
      PROVE  Feed!NotLater(View(ws[i]), exch'[p])
  <2>1. Feed!NotLater(View(ws[i]), exch[p])
    BY <1>3 DEF FeedInv, StreamInOrder
  <2>2. CASE p = o
    <3>1. View(ws[i]) \in ExchangeView
      BY EventIsView
    <3> QED BY <1>1, <1>2, <2>1, <2>2, <3>1, NotLaterTransitive
  <2>3. CASE p # o
    BY <1>1, <2>1, <2>3 DEF TypeOK
  <2> QED BY <2>2, <2>3
<1>4. CASE UNCHANGED ws
  BY <1>3, <1>4 DEF FeedInv, StreamInOrder, Tracked
<1>5. CASE ws' = Append(ws, [cid |-> ClientIdOf[o], status |-> exch'[o].status,
                             filled |-> exch'[o].filled])
  <2> DEFINE n == Len(ws) + 1
             e == [cid |-> ClientIdOf[o], status |-> v.status, filled |-> v.filled]
  <2>1. /\ Len(ws) \in Nat /\ Len(ws') = n
        /\ \A i \in 1..Len(ws) : ws'[i] = ws[i]
        /\ ws'[n] = e
    BY <1>2, <1>5 DEF TypeOK
  <2>2. View(e) = v /\ e.cid = ClientIdOf[o]
    BY DEF View, ExchangeView
  <2>3. Feed!NotLater(v, v)
    BY NotLaterReflexive
  <2>4. Tracked(o) => Feed!NotLater(published[o], v)
    <3>1. ASSUME Tracked(o) PROVE Feed!NotLater(published[o], exch[o])
      BY <3>1, TrackedPublished
    <3> QED BY <1>1, <1>2, <3>1, NotLaterTransitive
  <2>5. ASSUME NEW p \in Orders, NEW i \in 1..Len(ws'), ws'[i].cid = ClientIdOf[p]
        PROVE  /\ Feed!NotLater(View(ws'[i]), exch'[p])
               /\ Tracked(p) => Feed!NotLater(published[p], View(ws'[i]))
               /\ \A j \in i..Len(ws') : ws'[j].cid = ws'[i].cid =>
                    Feed!NotLater(View(ws'[i]), View(ws'[j]))
    <3>1. CASE i = n
      <4>1. p = o
        BY <2>1, <2>2, <2>5, <3>1
      <4>2. \A j \in i..Len(ws') : j = n
        BY <2>1, <3>1
      <4> QED BY <1>2, <2>1, <2>2, <2>3, <2>4, <3>1, <4>1, <4>2
    <3>2. CASE i # n
      <4>1. i \in 1..Len(ws) /\ ws'[i] = ws[i]
        BY <2>1, <2>5, <3>2
      <4>2. /\ Feed!NotLater(View(ws[i]), exch'[p])
            /\ Tracked(p) => Feed!NotLater(published[p], View(ws[i]))
            /\ \A j \in i..Len(ws) : ws[j].cid = ws[i].cid =>
                    Feed!NotLater(View(ws[i]), View(ws[j]))
        BY <1>3, <2>5, <4>1 DEF FeedInv, StreamInOrder
      <4>3. ASSUME NEW j \in i..Len(ws'), ws'[j].cid = ws'[i].cid
            PROVE  Feed!NotLater(View(ws'[i]), View(ws'[j]))
        <5>1. CASE j = n
          <6>1. p = o
            BY <2>1, <2>2, <2>5, <4>3, <5>1
          <6> QED BY <1>2, <2>1, <2>2, <4>1, <4>2, <5>1, <6>1
        <5>2. CASE j # n
          <6>1. j \in i..Len(ws) /\ ws'[j] = ws[j]
            BY <2>1, <4>1, <4>3, <5>2
          <6> QED BY <4>1, <4>2, <4>3, <6>1
        <5> QED BY <5>1, <5>2
      <4> QED BY <4>1, <4>2, <4>3
    <3> QED BY <3>1, <3>2
  <2> QED BY <2>5 DEF StreamInOrder, Tracked
<1> QED BY <1>4, <1>5 DEF Push

-----------------------------------------------------------------------------
(* What a step of the actor does to them: the exchange stands still, and     *)
(* the stream loses at most its head.                                        *)
LEMMA StreamRest ==
  ASSUME TypeOK, StreamInOrder, UNCHANGED exch, NEW d \in {0, 1},
         Len(ws') \in Nat, Len(ws') = Len(ws) - d,
         \A i \in 1..Len(ws') : ws'[i] = ws[i + d],
         \A p \in Orders : Tracked(p)' =>
           \/ Tracked(p) /\ published'[p] = published[p]
           \/ \A i \in 1..Len(ws') : ws'[i].cid = ClientIdOf[p] =>
                Feed!NotLater(published'[p], View(ws'[i]))
  PROVE  StreamInOrder'
<1> SUFFICES ASSUME NEW p \in Orders, NEW i \in 1..Len(ws'),
                    ws'[i].cid = ClientIdOf[p]
             PROVE  /\ Feed!NotLater(View(ws'[i]), exch[p])
                    /\ Tracked(p)' => Feed!NotLater(published'[p], View(ws'[i]))
                    /\ \A j \in i..Len(ws') : ws'[j].cid = ws'[i].cid =>
                         Feed!NotLater(View(ws'[i]), View(ws'[j]))
  BY DEF StreamInOrder
<1>1. i + d \in 1..Len(ws) /\ ws'[i] = ws[i + d]
  BY DEF TypeOK
<1>2. /\ Feed!NotLater(View(ws'[i]), exch[p])
      /\ Tracked(p) => Feed!NotLater(published[p], View(ws'[i]))
      /\ \A j \in (i + d)..Len(ws) : ws[j].cid = ws'[i].cid =>
           Feed!NotLater(View(ws'[i]), View(ws[j]))
  BY <1>1 DEF StreamInOrder
<1>3. ASSUME NEW j \in i..Len(ws'), ws'[j].cid = ws'[i].cid
      PROVE  Feed!NotLater(View(ws'[i]), View(ws'[j]))
  <2>1. j + d \in (i + d)..Len(ws) /\ ws'[j] = ws[j + d]
    BY DEF TypeOK
  <2> QED BY <1>2, <1>3, <2>1
<1>4. Tracked(p)' => Feed!NotLater(published'[p], View(ws'[i]))
  BY <1>2
<1> QED BY <1>2, <1>3, <1>4

(* A handler that leaves the stream alone and tracks no order anew, or       *)
(* publishes for the ones it tracks nothing later than the stream holds.     *)
LEMMA StreamKept ==
  ASSUME TypeOK, StreamInOrder, UNCHANGED <<exch, ws>>,
         \A p \in Orders : Tracked(p)' =>
           \/ Tracked(p) /\ published'[p] = published[p]
           \/ \A i \in 1..Len(ws) : ws[i].cid = ClientIdOf[p] =>
                Feed!NotLater(published'[p], View(ws[i]))
  PROVE  StreamInOrder'
<1>1. Len(ws) \in Nat /\ Len(ws') = Len(ws) - 0
  BY DEF TypeOK
<1>2. \A i \in 1..Len(ws') : ws'[i] = ws[i + 0]
  BY <1>1
<1> QED BY <1>1, <1>2, StreamRest

(* A placed order is a first view, before any event of the stream. *)
LEMMA NewFirst ==
  ASSUME NEW v \in ExchangeView, v.status # "None"
  PROVE  Feed!NotLater([status |-> "New", filled |-> 0], v)
<1>1. Feed!Rank(v.status) \in 1..3 /\ v.filled \in Nat
  BY RankBounds, OrderManagerAssumption DEF ExchangeView
<1>2. Feed!Rank("New") = 1
  BY DEF Feed!Rank
<1> QED BY <1>1, <1>2 DEF Feed!NotLater

LEMMA SubmitKeeps ==
  ASSUME TypeOK, PublishedIsTracked, FeedInv, NEW o \in Orders, SubmitOrder(o)
  PROVE  FeedInv'
<1> USE DEF FeedInv
<1>1. /\ exch[o] = NoView /\ published[o] = NoView /\ ~Tracked(o)
  BY DEF PlacementKnown, SubmitOrder
<1>2. /\ order' = [order EXCEPT ![o] = [status |-> "PendingSubmit", filled |-> 0]]
      /\ place' = [place EXCEPT ![o] = "sent"]
      /\ UNCHANGED <<exch, ws, published, cancelReplies, submitResult>>
  BY DEF SubmitOrder, Track
<1>3. StreamInOrder'
  <2>1. \A i \in 1..Len(ws) : Feed!NotLater(published[o], View(ws[i]))
    BY <1>1, EventIsView, NoViewFirst
  <2> QED BY <1>2, <2>1, StreamKept DEF Tracked, TypeOK
<1>4. PublishedLags'
  <2>1. Feed!NotLater(NoView, exch[o])
    BY NoViewFirst DEF TypeOK
  <2> QED BY <1>1, <1>2, <2>1 DEF PublishedLags, Tracked, TypeOK
<1>5. RepliesTrue'
  BY <1>2 DEF RepliesTrue
<1>6. PlacementKnown'
  BY <1>1, <1>2 DEF PlacementKnown, Tracked, TypeOK
<1> QED BY <1>3, <1>4, <1>5, <1>6

LEMMA SubmitOkKeeps ==
  ASSUME TypeOK, PublishedIsTracked, FeedInv, NEW o \in Orders, HandleSubmitOk(o)
  PROVE  FeedInv'
<1> USE DEF FeedInv
<1>1. /\ UNCHANGED <<exch, ws, cancelReplies, place>>
      /\ submitResult' = [submitResult EXCEPT ![o] = "none"]
      /\ exch[o] # NoView
  BY DEF HandleSubmitOk, PlacementKnown
<1>2. CASE order[o].status # "PendingSubmit"
  <2>1. UNCHANGED <<order, published>>
    BY <1>2 DEF HandleSubmitOk, ConfirmIfPending
  <2> QED BY <1>1, <2>1, StreamKept
          DEF PublishedLags, RepliesTrue, PlacementKnown, Tracked, TypeOK
<1>3. CASE order[o].status = "PendingSubmit"
  <2> DEFINE v == [status |-> "New", filled |-> 0]
  <2>1. /\ order' = [order EXCEPT ![o] = v] /\ published' = [published EXCEPT ![o] = v]
        /\ place[o] # "idle"
    BY <1>3 DEF HandleSubmitOk, ConfirmIfPending, Track, Publish, PlacementKnown,
                Tracked, Untracked
  <2>2. v.status = "New" /\ v # Untracked
    BY DEF Untracked
  <2>3. exch[o] \in ExchangeView /\ exch[o].status # "None"
    BY <1>1 DEF PlacementKnown, TypeOK
  <2>4. Feed!NotLater(v, exch[o])
    BY <2>3, NewFirst
  <2>5. \A i \in 1..Len(ws) : Feed!NotLater(v, View(ws[i]))
    BY EventIsView, NewFirst
  <2> HIDE DEF v
  <2>6. StreamInOrder'
    BY <1>1, <2>1, <2>5, StreamKept DEF Tracked, TypeOK
  <2>7. PublishedLags'
    BY <1>1, <2>1, <2>4 DEF PublishedLags, Tracked, TypeOK
  <2>8. RepliesTrue'
    BY <1>1 DEF RepliesTrue
  <2>9. PlacementKnown'
    BY <1>1, <2>1, <2>2 DEF PlacementKnown, Tracked, TypeOK
  <2> QED BY <2>6, <2>7, <2>8, <2>9
<1> QED BY <1>2, <1>3

LEMMA SubmitErrKeeps ==
  ASSUME TypeOK, PublishedIsTracked, FeedInv, NEW o \in Orders, HandleSubmitErr(o)
  PROVE  FeedInv'
<1> USE DEF FeedInv
<1>1. /\ UNCHANGED <<exch, ws, cancelReplies, place>>
      /\ submitResult' = [submitResult EXCEPT ![o] = "none"]
  BY DEF HandleSubmitErr
<1>2. CASE order[o].status # "PendingSubmit"
  <2>1. UNCHANGED <<order, published>>
    BY <1>2 DEF HandleSubmitErr, RejectIfPending
  <2> QED BY <1>1, <2>1, StreamKept
          DEF PublishedLags, RepliesTrue, PlacementKnown, Tracked, TypeOK
<1>3. CASE order[o].status = "PendingSubmit"
  <2>1. /\ order' = [order EXCEPT ![o] = Untracked]
        /\ published' = [published EXCEPT ![o] = Feed!LocalRejection]
        /\ place[o] # "idle"
    BY <1>3 DEF HandleSubmitErr, RejectIfPending, Track, Publish, PlacementKnown,
                Tracked, Untracked, Feed!LocalRejection
  <2>2. Untracked.status # "PendingSubmit"
    BY DEF Untracked
  <2>3. StreamInOrder'
    BY <1>1, <2>1, StreamKept DEF Tracked, TypeOK
  <2>4. PublishedLags'
    BY <1>1, <2>1 DEF PublishedLags, Tracked, TypeOK
  <2>5. RepliesTrue'
    BY <1>1 DEF RepliesTrue
  <2>6. PlacementKnown'
    BY <1>1, <2>1, <2>2 DEF PlacementKnown, Tracked, TypeOK
  <2> QED BY <2>3, <2>4, <2>5, <2>6
<1> QED BY <1>2, <1>3

LEMMA FinalKeeps ==
  ASSUME TypeOK, PublishedIsTracked, FeedInv, NEW o \in Orders, exch[o] # NoView,
         Track(o, Untracked), Publish(o, exch[o]),
         UNCHANGED <<exch, ws, place, submitResult>>,
         cancelReplies' \subseteq cancelReplies
  PROVE  FeedInv'
<1> USE DEF FeedInv
<1>1. /\ order' = [order EXCEPT ![o] = Untracked]
      /\ published' = [published EXCEPT ![o] = exch[o]]
  BY DEF Track, Publish
<1>2. Untracked.status # "PendingSubmit"
  BY DEF Untracked
<1>3. StreamInOrder'
  BY <1>1, StreamKept DEF Tracked, TypeOK
<1>4. PublishedLags'
  <2>1. Feed!NotLater(exch[o], exch[o])
    BY NotLaterReflexive DEF TypeOK
  <2> QED BY <1>1, <2>1 DEF PublishedLags, Tracked, TypeOK
<1>5. RepliesTrue'
  BY DEF RepliesTrue
<1>6. PlacementKnown'
  BY <1>1, <1>2 DEF PlacementKnown, Tracked, TypeOK
<1> QED BY <1>3, <1>4, <1>5, <1>6

LEMMA CancelOkKeeps ==
  ASSUME TypeOK, PublishedIsTracked, FeedInv, NEW r \in cancelReplies,
         HandleCancelOk(r)
  PROVE  FeedInv'
<1>1. r.id \in Orders /\ exch[r.id] = [status |-> "Canceled", filled |-> r.filled]
  BY DEF TypeOK, CancelReply, FeedInv, RepliesTrue
<1>2. exch[r.id] # NoView
  BY <1>1 DEF NoView
<1> QED BY <1>1, <1>2, FinalKeeps DEF HandleCancelOk

LEMMA ReadStatusKeeps ==
  ASSUME TypeOK, PublishedIsTracked, FeedInv, NEW o \in Orders, ReadStatus(o)
  PROVE  FeedInv'
<1>1. CASE IsFinal(exch[o])
  BY <1>1, FinalKeeps DEF ReadStatus, taskVars
<1>2. CASE ~IsFinal(exch[o])
  BY <1>2, StreamKept DEF ReadStatus, taskVars, FeedInv, PublishedLags, RepliesTrue,
                          PlacementKnown, Tracked
<1> QED BY <1>1, <1>2

(* The order a followed event is taken for is the one it is about. *)
LEMMA ResolvesToOwn ==
  ASSUME TypeOK, MapMatchesTracked, ws # <<>>, Follows(Resolve(Head(ws).cid))
  PROVE  ClientIdOf[Resolve(Head(ws).cid)] = Head(ws).cid
<1>1. Head(ws) \in WsEvent
  BY DEF TypeOK
<1>2. PICK p \in Orders : Head(ws).cid = ClientIdOf[p]
  BY <1>1 DEF WsEvent
<1>3. ClientIdOf[p] \in ClientIds
  BY OrderManagerAssumption
<1>4. Resolve(Head(ws).cid) \in Orders
  BY DEF Follows
<1> QED BY <1>2, <1>3, <1>4, OrderManagerAssumption DEF Resolve, MapMatchesTracked

LEMMA WsEventKeeps ==
  ASSUME TypeOK, MapMatchesTracked, FeedInv, HandleWsEvent
  PROVE  FeedInv'
<1> USE DEF FeedInv
<1> DEFINE event == Head(ws)
           id == Resolve(event.cid)
<1>1. /\ UNCHANGED <<exch, place, submitResult, cancelReplies>>
      /\ ws # <<>> /\ ws' = Tail(ws)
  BY DEF HandleWsEvent, taskVars
<1>2. /\ Len(ws') \in Nat /\ Len(ws') = Len(ws) - 1 /\ 1 \in 1..Len(ws)
      /\ \A i \in 1..Len(ws') : ws'[i] = ws[i + 1]
      /\ event = ws[1]
  BY <1>1 DEF TypeOK
<1>3. CASE ~Follows(id)
  <2>1. UNCHANGED <<order, published>>
    BY <1>3 DEF HandleWsEvent
  <2>2. StreamInOrder'
    BY <1>1, <1>2, <2>1, StreamRest DEF Tracked
  <2> QED BY <1>1, <2>1, <2>2 DEF PublishedLags, RepliesTrue, PlacementKnown, Tracked
<1>4. CASE Follows(id)
  <2> DEFINE v == View(event)
  <2>1. id \in Orders /\ Tracked(id) /\ ClientIdOf[id] = event.cid
    BY <1>1, <1>4, ResolvesToOwn DEF Follows
  <2>2. v \in ExchangeView /\ v.status \in LiveStatus \cup FinalStatus
    BY <1>2, EventIsView DEF ExchangeView
  <2>3. Feed!NotLater(v, exch[id])
    BY <1>2, <2>1 DEF StreamInOrder
  <2>4. \A j \in 1..Len(ws) : ws[j].cid = event.cid => Feed!NotLater(v, View(ws[j]))
    BY <1>2, <2>1 DEF StreamInOrder
  <2>5. /\ published' = [published EXCEPT ![id] = v]
        /\ order' = [order EXCEPT ![id] = Untracked] \/ order' = [order EXCEPT ![id] = v]
    BY <1>4 DEF HandleWsEvent, Publish, Track
  <2>6. place[id] # "idle" /\ v.status # "PendingSubmit" /\ Untracked.status # "PendingSubmit"
    BY <2>1, <2>2 DEF PlacementKnown, LiveStatus, FinalStatus, Untracked
  <2> HIDE DEF event, v, id
  <2>7. StreamInOrder'
    <3>1. ASSUME NEW p \in Orders, Tracked(p)'
          PROVE  \/ Tracked(p) /\ published'[p] = published[p]
                 \/ \A i \in 1..Len(ws') : ws'[i].cid = ClientIdOf[p] =>
                      Feed!NotLater(published'[p], View(ws'[i]))
      <4>1. CASE p = id
        <5>1. published'[p] = v
          BY <2>5, <4>1 DEF TypeOK
        <5>2. ASSUME NEW i \in 1..Len(ws') PROVE i + 1 \in 1..Len(ws)
          BY <1>2, <5>2 DEF TypeOK
        <5> QED BY <1>2, <2>1, <2>4, <4>1, <5>1, <5>2
      <4>2. CASE p # id
        BY <2>1, <2>5, <3>1, <4>2 DEF Tracked, TypeOK
      <4> QED BY <4>1, <4>2
    <3> QED BY <1>1, <1>2, <3>1, StreamRest
  <2>8. PublishedLags'
    BY <1>1, <2>1, <2>3, <2>5 DEF PublishedLags, Tracked, TypeOK
  <2>9. RepliesTrue'
    BY <1>1 DEF RepliesTrue
  <2>10. PlacementKnown'
    BY <1>1, <2>1, <2>5, <2>6 DEF PlacementKnown, Tracked, TypeOK
  <2> QED BY <2>7, <2>8, <2>9, <2>10
<1> QED BY <1>3, <1>4

(* A step that only the placement knowledge can tell of. *)
LEMMA QuietKeeps ==
  ASSUME TypeOK, FeedInv, UNCHANGED <<order, exch, ws, published>>,
         cancelReplies' \subseteq cancelReplies, PlacementKnown'
  PROVE  FeedInv'
<1>1. StreamInOrder'
  BY StreamKept DEF FeedInv, Tracked
<1> QED BY <1>1 DEF FeedInv, PublishedLags, RepliesTrue, Tracked

LEMMA ActorKeeps ==
  ASSUME TypeOK, MapMatchesTracked, PublishedIsTracked, FeedInv, ActorStep
  PROVE  FeedInv'
<1>1. ASSUME UNCHANGED <<order, place, submitResult, exch, ws, published>>,
             cancelReplies' \subseteq cancelReplies
      PROVE  FeedInv'
  BY <1>1, QuietKeeps DEF FeedInv, PlacementKnown, Tracked
<1>2. ASSUME NEW o \in Orders, CancelOrder(o) \/ StatusFails(o) PROVE FeedInv'
  BY <1>1, <1>2 DEF CancelOrder, StatusFails, actorVars, taskVars
<1>3. ASSUME ReconcileStart PROVE FeedInv'
  BY <1>1, <1>3 DEF ReconcileStart, taskVars
<1>4. ASSUME NEW k \in Keys, ReadOpenOrders(k) \/ OpenOrdersFail(k) PROVE FeedInv'
  BY <1>1, <1>4 DEF ReadOpenOrders, OpenOrdersFail, taskVars
<1> QED BY <1>2, <1>3, <1>4, SubmitKeeps, SubmitOkKeeps, SubmitErrKeeps,
           CancelOkKeeps, ReadStatusKeeps, WsEventKeeps DEF ActorStep

LEMMA ForwardKeeps ==
  ASSUME TypeOK, TypeOK', PublishedIsTracked, FeedInv, NEW o \in Orders,
         Forward(o), Push(o), UNCHANGED <<order, published>>,
         RepliesTrue', PlacementKnown'
  PROVE  FeedInv'
BY ForwardStream, ForwardPublished DEF FeedInv

LEMMA OutsideKeeps ==
  ASSUME EchoesCancel, TypeOK, TypeOK', PublishedIsTracked, FeedInv, Outside
  PROVE  FeedInv'
<1>0. PICK o \in Orders : \/ PlaceReturns(o) \/ Accept(o) \/ Refuse(o)
                          \/ Fill(o) \/ Expire(o)
                          \/ CancelTakesEffect(o) \/ CancelFails(o)
  BY DEF Outside
<1>1. UNCHANGED <<order, published>>
  BY <1>0 DEF PlaceReturns, Accept, Refuse, Fill, Expire, CancelTakesEffect,
         CancelFails, actorVars
<1>2. CASE PlaceReturns(o)
  <2>1. UNCHANGED <<exch, ws, cancelReplies>>
    BY <1>2 DEF PlaceReturns
  <2>2. /\ place[o] # "idle"
        /\ place' = [place EXCEPT ![o] = IF place[o] = "sent" THEN "late" ELSE "done"]
    BY <1>2 DEF PlaceReturns
  <2>3. PICK r \in {"ok", "err"} : /\ submitResult' = [submitResult EXCEPT ![o] = r]
                                   /\ r = "ok" => place[o] = "accepted"
    BY <1>2 DEF PlaceReturns
  <2>4. \A p \in Orders :
          /\ place'[p] = "idle" => place[p] = "idle"
          /\ place'[p] \in {"idle", "sent", "late"} => place[p] \in {"idle", "sent", "late"}
          /\ place'[p] = "accepted" => place[p] = "accepted"
          /\ submitResult'[p] = "ok" => submitResult[p] = "ok" \/ place[p] = "accepted"
    <3> SUFFICES ASSUME NEW p \in Orders
                 PROVE  \/ p # o /\ place'[p] = place[p] /\ submitResult'[p] = submitResult[p]
                        \/ /\ p = o /\ submitResult'[p] = r
                           /\ place[p] # "idle"
                           /\ (place'[p] = "late" /\ place[p] = "sent") \/ place'[p] = "done"
      BY <2>2, <2>3
    <3>1. place'[o] = (IF place[o] = "sent" THEN "late" ELSE "done") /\ submitResult'[o] = r
      BY <2>2, <2>3 DEF TypeOK
    <3>2. p # o => place'[p] = place[p] /\ submitResult'[p] = submitResult[p]
      BY <2>2, <2>3 DEF TypeOK
    <3> QED BY <2>2, <3>1, <3>2
  <2>5. PlacementKnown'
    BY <1>1, <2>1, <2>4 DEF FeedInv, PlacementKnown, Tracked
  <2> QED BY <1>1, <2>1, <2>5, QuietKeeps
<1>3. CASE CancelFails(o) \/ (Refuse(o) /\ exch' = exch)
  <2>1. UNCHANGED <<exch, ws, cancelReplies, submitResult>>
    <3>1. CASE CancelFails(o)
      BY <3>1 DEF CancelFails
    <3>2. CASE Refuse(o) /\ exch' = exch
      <4>1. exch[o] = NoView
        BY <3>2 DEF Refuse, FeedInv, PlacementKnown
      <4>2. ~(exch' = [exch EXCEPT ![o] = [status |-> "Rejected", filled |-> 0]])
        BY <3>2, <4>1 DEF TypeOK, NoView
      <4> QED BY <3>2, <4>2 DEF Refuse
    <3> QED BY <1>3, <3>1, <3>2
  <2>2. \/ UNCHANGED place
        \/ /\ place[o] \in {"sent", "late"}
           /\ \E s \in {"refused", "done"} : place' = [place EXCEPT ![o] = s]
    BY <1>3 DEF CancelFails, Refuse
  <2>3. PlacementKnown'
    BY <1>1, <2>1, <2>2 DEF FeedInv, PlacementKnown, Tracked, TypeOK
  <2> QED BY <1>1, <2>1, <2>3, QuietKeeps
<1>4. CASE \/ Accept(o) \/ Fill(o) \/ Expire(o) \/ CancelTakesEffect(o)
           \/ Refuse(o) /\ exch' # exch
  <2>1. Forward(o) /\ Push(o)
    BY <1>4, ExchangeForward DEF FeedInv
  <2>2. RepliesTrue'
    <3>1. CASE UNCHANGED cancelReplies
      BY <2>1, <3>1, ForwardReplies DEF FeedInv, RepliesTrue
    <3>2. CASE CancelTakesEffect(o)
      <4> DEFINE reply == [id |-> o, filled |-> exch[o].filled]
      <4>1. cancelReplies' \subseteq cancelReplies \cup {reply}
        BY <3>2 DEF CancelTakesEffect
      <4>2. exch'[o] = [status |-> "Canceled", filled |-> exch[o].filled]
        BY <3>2 DEF CancelTakesEffect, TypeOK, ExchangeView
      <4>3. \A r \in cancelReplies :
              exch'[r.id] = [status |-> "Canceled", filled |-> r.filled]
        BY <2>1, ForwardReplies DEF FeedInv
      <4>4. exch'[reply.id] = [status |-> "Canceled", filled |-> reply.filled]
        BY <4>2
      <4> QED BY <4>1, <4>3, <4>4 DEF RepliesTrue
    <3>3. ASSUME Accept(o) \/ Fill(o) \/ Expire(o) \/ Refuse(o)
          PROVE  UNCHANGED cancelReplies
      BY <3>3 DEF Accept, Fill, Expire, Refuse, taskVars
    <3> QED BY <1>4, <3>1, <3>2, <3>3
  <2>3. PlacementKnown'
    <3>1. PICK v \in ExchangeView : v.status # "None" /\ exch' = [exch EXCEPT ![o] = v]
      BY <2>1 DEF Forward
    <3>2. v # NoView
      BY <3>1 DEF NoView
    <3>3. UNCHANGED submitResult
      BY <1>4 DEF Accept, Fill, Expire, Refuse, CancelTakesEffect, taskVars
    <3>4. \/ /\ place[o] \in {"sent", "late"}
             /\ \E s \in {"accepted", "refused", "done"} : place' = [place EXCEPT ![o] = s]
          \/ /\ UNCHANGED place
             /\ exch[o] # NoView
      BY <1>4 DEF Accept, Fill, Expire, Refuse, CancelTakesEffect, taskVars, Live,
                  LiveStatus, NoView
    <3> QED BY <1>1, <3>1, <3>2, <3>3, <3>4 DEF FeedInv, PlacementKnown, Tracked, TypeOK
  <2> QED BY <1>1, <2>1, <2>2, <2>3, ForwardKeeps
<1> QED BY <1>0, <1>2, <1>3, <1>4

LEMMA RestartKeeps ==
  ASSUME TypeOK, FeedInv, Restart
  PROVE  FeedInv'
<1> USE DEF FeedInv
<1>1. /\ order' = [o \in Orders |-> Untracked] /\ ws' = <<>> /\ cancelReplies' = {}
      /\ submitResult' = [o \in Orders |-> "none"]
      /\ UNCHANGED <<exch, published>>
  BY DEF Restart
<1>2. \A o \in Orders : ~Tracked(o)' /\ order'[o].status # "PendingSubmit"
  BY <1>1 DEF Tracked, Untracked
<1>3. \A o \in Orders : /\ place'[o] = "idle" <=> place[o] = "idle"
                        /\ place'[o] \in {"sent", "late"} => place[o] \in {"sent", "late"}
                        /\ place'[o] # "accepted"
  BY DEF Restart, TypeOK, PlaceStage
<1>4. StreamInOrder'
  <2>1. Len(ws') = 0
    BY <1>1
  <2> QED BY <2>1 DEF StreamInOrder
<1>5. PublishedLags' /\ RepliesTrue'
  BY <1>1, <1>2 DEF PublishedLags, RepliesTrue
<1>6. PlacementKnown'
  BY <1>1, <1>2, <1>3 DEF PlacementKnown
<1> QED BY <1>4, <1>5, <1>6

LEMMA FeedStep ==
  EchoesCancel /\ TypeOK /\ TypeOK' /\ MapMatchesTracked /\ PublishedIsTracked
    /\ FeedInv /\ [Next]_vars => FeedInv'
<1> SUFFICES ASSUME EchoesCancel, TypeOK, TypeOK', MapMatchesTracked,
                    PublishedIsTracked, FeedInv, [Next]_vars
             PROVE  FeedInv'
  OBVIOUS
<1>1. CASE UNCHANGED vars
  <2>1. UNCHANGED <<order, place, submitResult, cancelReplies, exch, ws, published>>
    BY <1>1 DEF vars
  <2> QED BY <2>1, QuietKeeps DEF FeedInv, PlacementKnown, Tracked
<1> QED BY <1>1, ActorKeeps, OutsideKeeps, RestartKeeps DEF Next

LEMMA FeedInit == Init => FeedInv
<1> SUFFICES ASSUME Init PROVE FeedInv
  OBVIOUS
<1>1. /\ order = [o \in Orders |-> Untracked] /\ place = [o \in Orders |-> "idle"]
      /\ submitResult = [o \in Orders |-> "none"] /\ cancelReplies = {}
      /\ exch = [o \in Orders |-> NoView] /\ published = [o \in Orders |-> NoView]
      /\ Len(ws) = 0
  BY DEF Init
<1>2. StreamInOrder /\ RepliesTrue
  BY <1>1 DEF StreamInOrder, RepliesTrue
<1>3. PublishedLags
  <2>1. NoView \in ExchangeView
    BY OrderManagerAssumption DEF NoView, ExchangeView
  <2>2. Feed!NotLater(NoView, NoView)
    BY <2>1, NotLaterReflexive
  <2> QED BY <1>1, <2>2 DEF PublishedLags
<1>4. PlacementKnown
  BY <1>1 DEF PlacementKnown, Tracked, Untracked
<1> QED BY <1>2, <1>3, <1>4 DEF FeedInv

(* On an exchange that echoes its own record in a cancel reply, what was     *)
(* published of an order lags behind the exchange, the waiting events of the *)
(* stream lie between the two in their order, and a waiting cancel reply     *)
(* tells the true end.                                                       *)
THEOREM FeedAlwaysLags == ASSUME EchoesCancel PROVE Spec => []FeedInv
BY FeedInit, FeedStep, TypeCorrect, MapAlwaysMatches, PublishedAlwaysTracked,
   PTL DEF Spec

-----------------------------------------------------------------------------
(* Every step is a step of the feed or changes nothing of it. *)
LEMMA ReportedStep ==
  ASSUME TypeOK, FeedInv, NEW o \in Orders, NEW v \in ExchangeView,
         Feed!NotLater(v, exch[o]),
         \/ Feed!NotLater(published[o], v)
         \/ published[o] = Feed!LocalRejection /\ Feed!Rank(v.status) = 3,
         Publish(o, v), UNCHANGED exch
  PROVE  Feed!Next
<1>1. v \in Feed!View
  BY DEF ExchangeView, LiveStatus, FinalStatus, Feed!View, Feed!Status, Feed!FinalStatus
<1>2. Feed!Report(o)
  BY <1>1 DEF Feed!Report, Publish
<1> QED BY <1>2 DEF Feed!Next

(* The true end of an order may always be told. *)
LEMMA EndStep ==
  ASSUME TypeOK, FeedInv, NEW o \in Orders, IsFinal(exch[o]),
         Publish(o, exch[o]), UNCHANGED exch
  PROVE  Feed!Next
<1>1. exch[o] \in ExchangeView
  BY DEF TypeOK
<1>2. Feed!NotLater(exch[o], exch[o]) /\ Feed!Rank(exch[o].status) = 3
  BY <1>1, NotLaterReflexive, RankBounds DEF IsFinal
<1>3. \/ Feed!NotLater(published[o], exch[o])
      \/ published[o] = Feed!LocalRejection
  BY DEF FeedInv, PublishedLags
<1> QED BY <1>1, <1>2, <1>3, ReportedStep

LEMMA ActorImplements ==
  ASSUME TypeOK, MapMatchesTracked, PublishedIsTracked, FeedInv, ActorStep
  PROVE  Feed!Next \/ UNCHANGED <<published, exch>>
<1>1. UNCHANGED exch
  BY DEF ActorStep, SubmitOrder, CancelOrder, HandleSubmitOk, HandleSubmitErr,
         ReadStatus, StatusFails, HandleCancelOk, HandleWsEvent, ReconcileStart,
         ReadOpenOrders, OpenOrdersFail, actorVars, taskVars
<1>2. ASSUME NEW o \in Orders, HandleSubmitOk(o)
      PROVE  Feed!Next \/ UNCHANGED <<published, exch>>
  <2>1. CASE order[o].status # "PendingSubmit"
    BY <1>1, <1>2, <2>1 DEF HandleSubmitOk, ConfirmIfPending
  <2>2. CASE order[o].status = "PendingSubmit"
    <3> DEFINE v == [status |-> "New", filled |-> 0]
    <3>1. /\ Publish(o, v) /\ exch[o] # NoView /\ published[o] = NoView
      BY <1>2, <2>2 DEF HandleSubmitOk, ConfirmIfPending, FeedInv, PlacementKnown
    <3>2. v \in ExchangeView
      BY OrderManagerAssumption DEF ExchangeView, LiveStatus
    <3>3. exch[o] \in ExchangeView /\ exch[o].status # "None"
      BY <3>1 DEF FeedInv, PlacementKnown, TypeOK
    <3>4. Feed!NotLater(v, exch[o]) /\ Feed!NotLater(published[o], v)
      BY <3>1, <3>2, <3>3, NewFirst, NoViewFirst
    <3> QED BY <1>1, <3>1, <3>2, <3>4, ReportedStep
  <2> QED BY <2>1, <2>2
<1>3. ASSUME NEW o \in Orders, HandleSubmitErr(o)
      PROVE  Feed!Next \/ UNCHANGED <<published, exch>>
  <2>1. CASE order[o].status # "PendingSubmit"
    BY <1>1, <1>3, <2>1 DEF HandleSubmitErr, RejectIfPending
  <2>2. CASE order[o].status = "PendingSubmit"
    <3>1. published' = [published EXCEPT ![o] = Feed!LocalRejection]
          /\ published[o] = Feed!NoView
      BY <1>3, <2>2 DEF HandleSubmitErr, RejectIfPending, Publish, FeedInv,
                        PlacementKnown, Feed!LocalRejection, NoView, Feed!NoView
    <3> QED BY <1>1, <3>1 DEF Feed!Next, Feed!Reject
  <2> QED BY <2>1, <2>2
<1>4. ASSUME NEW o \in Orders, ReadStatus(o)
      PROVE  Feed!Next \/ UNCHANGED <<published, exch>>
  BY <1>1, <1>4, EndStep DEF ReadStatus
<1>5. ASSUME NEW r \in cancelReplies, HandleCancelOk(r)
      PROVE  Feed!Next \/ UNCHANGED <<published, exch>>
  <2>1. r.id \in Orders /\ exch[r.id] = [status |-> "Canceled", filled |-> r.filled]
    BY DEF TypeOK, CancelReply, FeedInv, RepliesTrue
  <2>2. IsFinal(exch[r.id]) /\ Publish(r.id, exch[r.id])
    BY <1>5, <2>1 DEF HandleCancelOk, IsFinal, FinalStatus
  <2> QED BY <1>1, <2>1, <2>2, EndStep
<1>6. CASE HandleWsEvent
  <2> DEFINE event == Head(ws)
             id == Resolve(event.cid)
             v == View(event)
  <2>1. CASE ~Follows(id)
    BY <1>1, <1>6, <2>1 DEF HandleWsEvent
  <2>2. CASE Follows(id)
    <3>1. ws # <<>> /\ Publish(id, v)
      BY <1>6, <2>2 DEF HandleWsEvent
    <3>2. 1 \in 1..Len(ws) /\ event = ws[1]
      BY <3>1 DEF TypeOK
    <3>3. id \in Orders /\ Tracked(id) /\ ClientIdOf[id] = event.cid
      BY <2>2, <3>1, ResolvesToOwn DEF Follows
    <3>4. v \in ExchangeView
      BY <3>2, EventIsView
    <3>5. Feed!NotLater(v, exch[id]) /\ Feed!NotLater(published[id], v)
      BY <3>2, <3>3 DEF FeedInv, StreamInOrder
    <3> QED BY <1>1, <3>1, <3>3, <3>4, <3>5, ReportedStep
  <2> QED BY <2>1, <2>2
<1>7. ASSUME \/ \E o \in Orders : SubmitOrder(o) \/ CancelOrder(o) \/ StatusFails(o)
             \/ ReconcileStart
             \/ \E k \in Keys : ReadOpenOrders(k) \/ OpenOrdersFail(k)
      PROVE  UNCHANGED <<published, exch>>
  BY <1>7 DEF SubmitOrder, CancelOrder, StatusFails, ReconcileStart,
              ReadOpenOrders, OpenOrdersFail, actorVars, taskVars
<1> QED BY <1>2, <1>3, <1>4, <1>5, <1>6, <1>7 DEF ActorStep

LEMMA OutsideImplements ==
  ASSUME TypeOK, FeedInv, Outside
  PROVE  Feed!Next \/ UNCHANGED <<published, exch>>
<1>1. PICK o \in Orders : \/ PlaceReturns(o) \/ Accept(o) \/ Refuse(o)
                          \/ Fill(o) \/ Expire(o)
                          \/ CancelTakesEffect(o) \/ CancelFails(o)
  BY DEF Outside
<1>2. UNCHANGED published
  BY <1>1 DEF PlaceReturns, Accept, Refuse, Fill, Expire, CancelTakesEffect,
              CancelFails
<1>3. CASE PlaceReturns(o) \/ CancelFails(o) \/ (Refuse(o) /\ exch' = exch)
  BY <1>2, <1>3 DEF PlaceReturns, CancelFails
<1>4. CASE \/ Accept(o) \/ Fill(o) \/ Expire(o) \/ CancelTakesEffect(o)
           \/ Refuse(o) /\ exch' # exch
  <2>1. PICK v \in ExchangeView : /\ v # exch[o]
                                  /\ Feed!NotLater(exch[o], v)
                                  /\ exch' = [exch EXCEPT ![o] = v]
    BY <1>4, ExchangeForward DEF FeedInv, Forward
  <2>2. v \in Feed!View
    BY DEF ExchangeView, LiveStatus, FinalStatus, Feed!View, Feed!Status, Feed!FinalStatus
  <2> QED BY <1>2, <2>1, <2>2 DEF Feed!Next, Feed!Trade
<1> QED BY <1>1, <1>3, <1>4

(* The order manager implements the order feed: whatever the interleaving of *)
(* commands, results, stream events, reconciliations and restarts, the event *)
(* stream never goes back and a final event is the order's true end, save    *)
(* for a local rejection (order.rs 421-612).                                 *)
THEOREM ImplementsFeed == ASSUME EchoesCancel PROVE Spec => TruthfulFeed
<1>1. Init => Feed!Init
  BY DEF Init, Feed!Init, NoView, Feed!NoView
<1>2. TypeOK /\ MapMatchesTracked /\ PublishedIsTracked /\ FeedInv /\ [Next]_vars
        => [Feed!Next]_(Feed!feedVars)
  <2> SUFFICES ASSUME TypeOK, MapMatchesTracked, PublishedIsTracked, FeedInv,
                      [Next]_vars
               PROVE  Feed!Next \/ UNCHANGED <<published, exch>>
    BY DEF Feed!feedVars
  <2>1. CASE Restart \/ UNCHANGED vars
    BY <2>1 DEF Restart, vars
  <2> QED BY <2>1, ActorImplements, OutsideImplements DEF Next
<1> QED BY <1>1, <1>2, FeedAlwaysLags, TypeCorrect, MapAlwaysMatches,
           PublishedAlwaysTracked, PTL DEF Spec, TruthfulFeed, Feed!Spec
=============================================================================

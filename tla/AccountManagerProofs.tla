------------------------ MODULE AccountManagerProofs ------------------------
(***************************************************************************)
(* What the parts of ExchangeRequests keep.  The account manager, for any  *)
(* exchanges and callers: its bookkeeping of fetches and waiting commands  *)
(* is true, and subscribers have heard of the snapshot it serves.  A REST  *)
(* call, for any number of retries: what its caller is told is true.  An   *)
(* order of any size: no report or answer ends it early.                   *)
(***************************************************************************)
EXTENDS ExchangeRequests, Sequences, TLAPS

(* A result empties the waiting list of the exchange whose mark it clears, so *)
(* the two parts of the bookkeeping hold together or not at all; the          *)
(* announcements need only the types.                                         *)
IInv == TypeOK /\ FetchingIsTrue /\ CommandsWillBeAnswered /\ SnapshotAnnounced

LEMMA InitIInv == Init => IInv
BY AccountManagerAssumption DEF Init, IInv, TypeOK, FetchingIsTrue,
   CommandsWillBeAnswered, SnapshotAnnounced, NoTask, Task, NoEvent, Event, Version

-----------------------------------------------------------------------------
(* Starting a fetch keeps the types and the truth of the marks. *)
LEMMA StartFetchKeeps ==
  ASSUME TypeOK, NEW e \in Exchanges, StartFetch(e)
  PROVE  /\ task' \in [Exchanges -> Task]
         /\ fetching' = fetching \cup {e}
         /\ FetchingIsTrue => FetchingIsTrue'
<1>1. CASE e \in fetching
  BY <1>1 DEF TypeOK, StartFetch, FetchingIsTrue
<1>2. CASE e \notin fetching
  <2>1. [stage |-> "asked", version |-> 0] \in Task
    BY AccountManagerAssumption DEF Task
  <2>2. /\ fetching' = fetching \cup {e}
        /\ task' = [task EXCEPT ![e] = [stage |-> "asked", version |-> 0]]
    BY <1>2 DEF StartFetch
  <2>3. task' \in [Exchanges -> Task]
    BY <2>1, <2>2 DEF TypeOK
  <2>4. ASSUME FetchingIsTrue, NEW f \in Exchanges
        PROVE  f \in fetching' <=> task'[f].stage # "none"
    <3>1. CASE f = e
      BY <2>2, <3>1 DEF TypeOK
    <3>2. CASE f # e
      <4>1. task'[f] = task[f]
        BY <2>2, <3>2 DEF TypeOK
      <4> QED BY <2>2, <2>4, <3>2, <4>1 DEF FetchingIsTrue
    <3> QED BY <3>1, <3>2
  <2> QED BY <2>2, <2>3, <2>4 DEF FetchingIsTrue
<1> QED BY <1>1, <1>2

(* What a command that waits is owed is no newer than the account. *)
LEMMA OwedIsPast ==
  ASSUME TypeOK, NEW e \in Exchanges
  PROVE  Owed(e) \in Version /\ Owed(e) <= account[e]
<1>1. account[e] \in Version
  BY DEF TypeOK
<1> QED BY <1>1, AccountManagerAssumption DEF Owed, Version

LEMMA QueueTyped ==
  ASSUME TypeOK, NEW c \in Callers, NEW e \in Exchanges,
         NEW kind \in {"query", "reconcile"}, Queue(c, e, kind)
  PROVE  /\ pending' \in [Exchanges -> SUBSET Callers]
         /\ call' \in [Callers -> Call \cup {NoCall}]
<1>1. [exchange |-> e, kind |-> kind, owed |-> Owed(e)] \in Call
  BY OwedIsPast DEF Call
<1> QED BY <1>1 DEF TypeOK, Queue

(* A command that is queued waits in one list, whose fetch is on. *)
LEMMA QueueAnswered ==
  ASSUME TypeOK, CommandsWillBeAnswered, NEW c \in Callers, NEW e \in Exchanges,
         NEW kind \in {"query", "reconcile"}, call[c] = NoCall,
         Queue(c, e, kind), fetching' = fetching \cup {e}
  PROVE  CommandsWillBeAnswered'
<1>1. [exchange |-> e, kind |-> kind, owed |-> Owed(e)] # NoCall
  BY OwedIsPast, AccountManagerAssumption DEF Version
<1> SUFFICES ASSUME NEW f \in Exchanges, NEW d \in Callers
             PROVE  /\ d \in pending'[f] <=> call'[d] # NoCall /\ call'[d].exchange = f
                    /\ d \in pending'[f] => f \in fetching'
  BY DEF CommandsWillBeAnswered
<1>2. pending'[f] = IF f = e THEN pending[e] \cup {c} ELSE pending[f]
  BY DEF TypeOK, Queue
<1>3. CASE d = c
  <2>1. call'[d] = [exchange |-> e, kind |-> kind, owed |-> Owed(e)]
    BY <1>3 DEF TypeOK, Queue
  <2>2. d \notin pending[f]
    BY <1>3 DEF CommandsWillBeAnswered
  <2> QED BY <1>1, <1>2, <1>3, <2>1, <2>2
<1>4. CASE d # c
  <2>1. call'[d] = call[d]
    BY <1>4 DEF TypeOK, Queue
  <2> QED BY <1>2, <1>4, <2>1 DEF CommandsWillBeAnswered
<1> QED BY <1>3, <1>4

LEMMA AnswerTyped ==
  ASSUME TypeOK, NEW e \in Exchanges, NEW v \in 0..MaxVersion, AnswerWaiting(e, v)
  PROVE  /\ answer' \in [Callers -> 0..MaxVersion]
         /\ call' \in [Callers -> Call \cup {NoCall}]
         /\ pending' \in [Exchanges -> SUBSET Callers]
BY DEF TypeOK, AnswerWaiting

(* Answering empties the list of the exchange: its mark may be cleared. *)
LEMMA AnswerAnswered ==
  ASSUME TypeOK, CommandsWillBeAnswered, NEW e \in Exchanges, NEW v,
         AnswerWaiting(e, v), fetching' = fetching \ {e}
  PROVE  CommandsWillBeAnswered'
<1> SUFFICES ASSUME NEW f \in Exchanges, NEW d \in Callers
             PROVE  /\ d \in pending'[f] <=> call'[d] # NoCall /\ call'[d].exchange = f
                    /\ d \in pending'[f] => f \in fetching'
  BY DEF CommandsWillBeAnswered
<1>1. pending'[f] = IF f = e THEN {} ELSE pending[f]
  BY DEF TypeOK, AnswerWaiting
<1>2. call'[d] = IF d \in pending[e] THEN NoCall ELSE call[d]
  BY DEF AnswerWaiting
<1>3. d \in pending[e] <=> call[d] # NoCall /\ call[d].exchange = e
  BY DEF CommandsWillBeAnswered
<1>4. d \in pending[f] <=> call[d] # NoCall /\ call[d].exchange = f
  BY DEF CommandsWillBeAnswered
<1>5. d \in pending[f] => f \in fetching
  BY DEF CommandsWillBeAnswered
<1> QED BY <1>1, <1>2, <1>3, <1>4, <1>5

(* A result that is taken off clears the mark and the task of its exchange. *)
LEMMA ResultTaken ==
  ASSUME TypeOK, NEW e \in Exchanges,
         task' = [task EXCEPT ![e] = NoTask], ClearFetching(e)
  PROVE  /\ task' \in [Exchanges -> Task]
         /\ fetching' = fetching \ {e}
         /\ FetchingIsTrue => FetchingIsTrue'
<1>1. NoTask \in Task /\ NoTask.stage = "none"
  BY AccountManagerAssumption DEF NoTask, Task
<1>2. task' \in [Exchanges -> Task]
  BY <1>1 DEF TypeOK
<1>3. ASSUME FetchingIsTrue, NEW f \in Exchanges
      PROVE  f \in fetching' <=> task'[f].stage # "none"
  <2>1. CASE f = e
    BY <1>1, <2>1 DEF TypeOK, ClearFetching
  <2>2. CASE f # e
    <3>1. task'[f] = task[f]
      BY <2>2 DEF TypeOK
    <3> QED BY <1>3, <2>2, <3>1 DEF FetchingIsTrue, ClearFetching
  <2> QED BY <2>1, <2>2
<1> QED BY <1>2, <1>3 DEF FetchingIsTrue, ClearFetching

(* Whichever event is sent carries the version of the new snapshot. *)
LEMMA AnnounceKeeps ==
  ASSUME TypeOK, SnapshotAnnounced, NEW e \in Exchanges, NEW v \in 0..MaxVersion,
         snapshots' = [snapshots EXCEPT ![e] = v], Announce(e, v)
  PROVE  announced' \in [Exchanges -> Event] /\ SnapshotAnnounced'
<1> DEFINE kind == IF \E c \in pending[e] : call[c].kind = "reconcile"
                   THEN "reconciled" ELSE "updated"
           event == [kind |-> kind, version |-> v]
<1>1. kind \in {"none", "updated", "reconciled"}
  OBVIOUS
<1>2. announced' = [announced EXCEPT ![e] = event]
  BY DEF Announce
<1> HIDE DEF kind
<1>3. event \in Event /\ event.version = v
  BY <1>1 DEF Event
<1> HIDE DEF event
<1>4. announced' \in [Exchanges -> Event]
  BY <1>2, <1>3 DEF TypeOK
<1>5. ASSUME NEW f \in Exchanges PROVE announced'[f].version = snapshots'[f]
  <2>1. CASE f = e
    BY <1>2, <1>3, <2>1 DEF TypeOK
  <2>2. CASE f # e
    <3>1. announced'[f] = announced[f] /\ snapshots'[f] = snapshots[f]
      BY <1>2, <2>2 DEF TypeOK
    <3> QED BY <3>1 DEF SnapshotAnnounced
  <2> QED BY <2>1, <2>2
<1> QED BY <1>4, <1>5 DEF SnapshotAnnounced

-----------------------------------------------------------------------------
(* Every step keeps the inductive invariant. *)
LEMMA NextIInv == IInv /\ [Next]_vars => IInv'
<1> SUFFICES ASSUME IInv, [Next]_vars PROVE IInv'
  OBVIOUS
<1> USE AccountManagerAssumption DEF IInv
<1>1. ASSUME NEW e \in Exchanges, HandleFetchOk(e) PROVE IInv'
  <2> DEFINE v == task[e].version
  <2>1. v \in 0..MaxVersion
    BY DEF TypeOK, Task
  <2>2. /\ task' = [task EXCEPT ![e] = NoTask]
        /\ ClearFetching(e)
        /\ snapshots' = [snapshots EXCEPT ![e] = v]
        /\ stale' = stale \ {e}
        /\ Announce(e, v)
        /\ AnswerWaiting(e, v)
        /\ account' = account
    BY <1>1 DEF HandleFetchOk
  <2> HIDE DEF v
  <2>3. snapshots' \in [Exchanges -> 0..MaxVersion] /\ stale' \subseteq Exchanges
    BY <2>1, <2>2 DEF TypeOK
  <2>4. /\ task' \in [Exchanges -> Task]
        /\ fetching' = fetching \ {e}
        /\ FetchingIsTrue'
    BY <2>2, ResultTaken
  <2>5. announced' \in [Exchanges -> Event] /\ SnapshotAnnounced'
    BY <2>1, <2>2, AnnounceKeeps
  <2>6. TypeOK'
    BY <2>1, <2>2, <2>3, <2>4, <2>5, AnswerTyped DEF TypeOK
  <2> QED BY <2>2, <2>4, <2>5, <2>6, AnswerAnswered
<1>2. ASSUME NEW e \in Exchanges, HandleFetchError(e) PROVE IInv'
  <2>1. /\ task' = [task EXCEPT ![e] = NoTask]
        /\ ClearFetching(e)
        /\ AnswerWaiting(e, 0)
        /\ UNCHANGED <<account, snapshots, stale, announced>>
    BY <1>2 DEF HandleFetchError, ReplyWithErrors
  <2>2. 0 \in 0..MaxVersion
    OBVIOUS
  <2>3. /\ task' \in [Exchanges -> Task]
        /\ fetching' = fetching \ {e}
        /\ FetchingIsTrue'
    BY <2>1, ResultTaken
  <2>4. TypeOK'
    BY <2>1, <2>2, <2>3, AnswerTyped DEF TypeOK
  <2>5. SnapshotAnnounced'
    BY <2>1 DEF SnapshotAnnounced
  <2> QED BY <2>1, <2>3, <2>4, <2>5, AnswerAnswered
<1>3. ASSUME NEW e \in Exchanges, Age(e) PROVE IInv'
  BY <1>3 DEF Age, TypeOK, FetchingIsTrue, CommandsWillBeAnswered, SnapshotAnnounced
<1>4. ASSUME NEW e \in Exchanges, Change(e) PROVE IInv'
  <2>1. account' \in [Exchanges -> Version]
    BY <1>4 DEF Change, TypeOK, Version
  <2> QED BY <1>4, <2>1 DEF Change, TypeOK, FetchingIsTrue,
             CommandsWillBeAnswered, SnapshotAnnounced
<1>5. ASSUME NEW e \in Exchanges, NEW v \in 0..MaxVersion, Answered(e, v) PROVE IInv'
  <2>1. [stage |-> "answered", version |-> v] \in Task
    BY DEF Task
  <2>2. TypeOK'
    BY <1>5, <2>1 DEF Answered, TypeOK
  <2>3. FetchingIsTrue'
    BY <1>5 DEF Answered, TypeOK, FetchingIsTrue
  <2> QED BY <1>5, <2>2, <2>3 DEF Answered, CommandsWillBeAnswered, SnapshotAnnounced
<1>6. ASSUME NEW e \in Exchanges, FetchSucceeds(e) \/ FetchFails(e) PROVE IInv'
  <2>1. account[e] \in 0..MaxVersion /\ 0 \in 0..MaxVersion
    BY DEF TypeOK, Version
  <2> QED BY <1>5, <1>6, <2>1 DEF FetchSucceeds, FetchFails
<1>7. ASSUME NEW e \in Exchanges, NEW c \in Callers,
             NEW kind \in {"query", "reconcile"},
             call[c] = NoCall, Queue(c, e, kind), StartFetch(e),
             UNCHANGED <<account, snapshots, stale, announced, answer>>
      PROVE  IInv'
  <2>1. TypeOK'
    BY <1>7, QueueTyped, StartFetchKeeps DEF TypeOK
  <2>2. FetchingIsTrue' /\ CommandsWillBeAnswered'
    BY <1>7, StartFetchKeeps, QueueAnswered
  <2>3. SnapshotAnnounced'
    BY <1>7 DEF SnapshotAnnounced
  <2> QED BY <2>1, <2>2, <2>3
<1>8. ASSUME NEW e \in Exchanges, NEW c \in Callers,
             ReconcileSnapshot(c, e) \/ QueryMissing(c, e)
      PROVE  IInv'
  BY <1>7, <1>8 DEF ReconcileSnapshot, QueryMissing
<1>9. ASSUME NEW e \in Exchanges, NEW c \in Callers, QueryCached(c, e) PROVE IInv'
  <2>1. /\ answer' = [answer EXCEPT ![c] = snapshots[e]]
        /\ UNCHANGED <<account, snapshots, stale, pending, announced, call>>
    BY <1>9 DEF QueryCached
  <2>2. answer' \in [Callers -> 0..MaxVersion]
    BY <2>1 DEF TypeOK
  <2>3. /\ task' \in [Exchanges -> Task]
        /\ fetching \subseteq fetching' /\ fetching' \subseteq Exchanges
        /\ FetchingIsTrue'
    <3>1. CASE e \in stale
      <4>1. StartFetch(e)
        BY <1>9, <3>1 DEF QueryCached, RefreshIfStale
      <4> QED BY <4>1, StartFetchKeeps DEF TypeOK
    <3>2. CASE e \notin stale
      <4>1. UNCHANGED <<fetching, task>>
        BY <1>9, <3>2 DEF QueryCached, RefreshIfStale
      <4> QED BY <4>1 DEF TypeOK, FetchingIsTrue
    <3> QED BY <3>1, <3>2
  <2>4. TypeOK'
    BY <2>1, <2>2, <2>3 DEF TypeOK
  <2> QED BY <2>1, <2>3, <2>4 DEF CommandsWillBeAnswered, SnapshotAnnounced
<1>10. CASE UNCHANGED vars
  BY <1>10 DEF vars, TypeOK, FetchingIsTrue, CommandsWillBeAnswered, SnapshotAnnounced
<1> QED BY <1>1, <1>2, <1>3, <1>4, <1>6, <1>8, <1>9, <1>10 DEF Next

LEMMA AlwaysIInv == Spec => []IInv
BY InitIInv, NextIInv, PTL DEF Spec

(* No command ever waits without a fetch that will answer it, in a wrong      *)
(* list, or in two.                                                           *)
THEOREM CommandsAlwaysAnswered == Spec => []CommandsWillBeAnswered
<1>1. IInv => CommandsWillBeAnswered
  BY DEF IInv
<1> QED BY <1>1, AlwaysIInv, PTL

(* The event that is held back for a reconciliation is never lost.            *)
THEOREM SnapshotAlwaysAnnounced == Spec => []SnapshotAnnounced
<1>1. IInv => SnapshotAnnounced
  BY DEF IInv
<1> QED BY <1>1, AlwaysIInv, PTL

-----------------------------------------------------------------------------
(* Freshness.  What a waiting command is owed is no newer than the account,   *)
(* and no newer than an answer already read for it.                           *)
OwedInv ==
  \A e \in Exchanges : \A c \in pending[e] :
    /\ call[c].owed <= account[e]
    /\ task[e].stage = "answered" /\ task[e].version # 0
         => call[c].owed <= task[e].version

(* A command that is queued either is owed nothing new or starts the fetch.   *)
LEMMA QueueOwed ==
  ASSUME IInv, OwedInv, NEW c \in Callers, NEW e \in Exchanges,
         NEW kind \in {"query", "reconcile"}, call[c] = NoCall,
         Queue(c, e, kind), StartFetch(e), account' = account
  PROVE  OwedInv'
<1> USE DEF IInv
<1> SUFFICES ASSUME NEW f \in Exchanges, NEW d \in pending'[f]
             PROVE  /\ call'[d].owed <= account[f]
                    /\ task'[f].stage = "answered" /\ task'[f].version # 0
                         => call'[d].owed <= task'[f].version
  BY DEF OwedInv
<1>1. account[e] \in Version /\ task[e] \in Task
  BY DEF TypeOK
<1>2. pending'[f] = IF f = e THEN pending[e] \cup {c} ELSE pending[f]
  BY DEF TypeOK, Queue
<1>3. d \in Callers
  BY <1>2 DEF TypeOK
<1>4. task'[f] = IF f = e /\ e \notin fetching
                 THEN [stage |-> "asked", version |-> 0] ELSE task[f]
  BY DEF TypeOK, StartFetch
<1>5. CASE d = c
  <2>1. call'[d] = [exchange |-> e, kind |-> kind, owed |-> Owed(e)]
    BY <1>5 DEF TypeOK, Queue
  <2>2. f = e
    BY <1>2, <1>5 DEF CommandsWillBeAnswered
  <2>3. Owed(e) <= account[e]
    BY OwedIsPast
  <2>4. CASE e \in fetching
    <3>1. Owed(e) = 1
      BY <2>4 DEF Owed
    <3> QED BY <1>1, <1>4, <2>1, <2>2, <2>3, <2>4, <3>1 DEF Task
  <2>5. CASE e \notin fetching
    BY <1>4, <2>1, <2>2, <2>3, <2>5
  <2> QED BY <2>4, <2>5
<1>6. CASE d # c
  <2>1. call'[d] = call[d] /\ d \in pending[f]
    BY <1>2, <1>3, <1>6 DEF TypeOK, Queue
  <2> QED BY <1>4, <2>1 DEF OwedInv
<1> QED BY <1>5, <1>6

(* A result that is taken off leaves the commands of the other exchanges.     *)
LEMMA AnswerOwed ==
  ASSUME IInv, OwedInv, NEW e \in Exchanges, NEW v, AnswerWaiting(e, v),
         task' = [task EXCEPT ![e] = NoTask], account' = account
  PROVE  OwedInv'
<1> USE DEF IInv
<1> SUFFICES ASSUME NEW f \in Exchanges, NEW d \in pending'[f]
             PROVE  /\ call'[d].owed <= account[f]
                    /\ task'[f].stage = "answered" /\ task'[f].version # 0
                         => call'[d].owed <= task'[f].version
  BY DEF OwedInv
<1>1. f # e /\ d \in pending[f]
  BY DEF TypeOK, AnswerWaiting
<1>2. d \in Callers /\ d \notin pending[e]
  BY <1>1 DEF TypeOK, CommandsWillBeAnswered
<1>3. call'[d] = call[d] /\ task'[f] = task[f]
  BY <1>1, <1>2 DEF TypeOK, AnswerWaiting
<1> QED BY <1>1, <1>3 DEF OwedInv

LEMMA NextOwedInv == IInv /\ OwedInv /\ [Next]_vars => OwedInv'
<1> SUFFICES ASSUME IInv, OwedInv, [Next]_vars PROVE OwedInv'
  OBVIOUS
<1>1. ASSUME NEW e \in Exchanges, HandleFetchOk(e) \/ HandleFetchError(e) PROVE OwedInv'
  <2>1. \E v : AnswerWaiting(e, v)
    BY <1>1 DEF HandleFetchOk, HandleFetchError, ReplyWithErrors
  <2> QED BY <1>1, <2>1, AnswerOwed DEF HandleFetchOk, HandleFetchError
<1>2. ASSUME NEW e \in Exchanges, Age(e) PROVE OwedInv'
  BY <1>2 DEF Age, OwedInv
<1>3. ASSUME NEW e \in Exchanges, Change(e) PROVE OwedInv'
  <2> SUFFICES ASSUME NEW f \in Exchanges, NEW d \in pending[f]
               PROVE  call[d].owed <= account'[f]
    BY <1>3 DEF Change, OwedInv
  <2>1. call[d].owed <= account[f]
    BY DEF OwedInv
  <2>2. d \in Callers /\ call[d] \in Call
    BY DEF IInv, TypeOK, CommandsWillBeAnswered
  <2>3. account[f] \in Int /\ call[d].owed \in Int
    BY <2>2 DEF IInv, TypeOK, Call, Version
  <2>4. account'[f] = account[f] \/ account'[f] = account[f] + 1
    BY <1>3 DEF Change, IInv, TypeOK
  <2> QED BY <2>1, <2>3, <2>4
<1>4. ASSUME NEW e \in Exchanges, NEW v \in {0, account[e]}, Answered(e, v) PROVE OwedInv'
  <2> SUFFICES ASSUME NEW f \in Exchanges, NEW d \in pending[f]
               PROVE  task'[f].stage = "answered" /\ task'[f].version # 0
                        => call[d].owed <= task'[f].version
    BY <1>4 DEF Answered, OwedInv
  <2>1. task'[f] = IF f = e THEN [stage |-> "answered", version |-> v] ELSE task[f]
    BY <1>4 DEF Answered, IInv, TypeOK
  <2> QED BY <2>1 DEF OwedInv
<1>5. ASSUME NEW e \in Exchanges, FetchSucceeds(e) \/ FetchFails(e) PROVE OwedInv'
  BY <1>4, <1>5 DEF FetchSucceeds, FetchFails
<1>6. ASSUME NEW e \in Exchanges, NEW c \in Callers,
             ReconcileSnapshot(c, e) \/ QueryMissing(c, e)
      PROVE  OwedInv'
  BY <1>6, QueueOwed DEF ReconcileSnapshot, QueryMissing
<1>7. ASSUME NEW e \in Exchanges, NEW c \in Callers, QueryCached(c, e) PROVE OwedInv'
  <2>1. \A f \in Exchanges : task'[f] = task[f] \/ task'[f].stage = "asked"
    BY <1>7 DEF QueryCached, RefreshIfStale, StartFetch, IInv, TypeOK
  <2> QED BY <1>7, <2>1 DEF QueryCached, OwedInv
<1>8. CASE UNCHANGED vars
  BY <1>8 DEF vars, OwedInv
<1> QED BY <1>1, <1>2, <1>3, <1>5, <1>6, <1>7, <1>8 DEF Next

(* A command leaves its list with the version just read, or with an error.    *)
LEMMA StepAnswersFresh ==
  ASSUME IInv, OwedInv, [Next]_vars, NEW c \in Callers,
         call[c] # NoCall, call'[c] = NoCall, answer'[c] # 0
  PROVE  answer'[c] >= call[c].owed
<1>1. ASSUME NEW e \in Exchanges, NEW v, AnswerWaiting(e, v),
             v = 0 \/ (v = task[e].version /\ task[e].stage = "answered")
      PROVE  answer'[c] >= call[c].owed
  <2>1. c \in pending[e] /\ answer'[c] = v
    BY <1>1 DEF AnswerWaiting
  <2>2. call[c].owed <= v
    BY <1>1, <2>1 DEF OwedInv
  <2>3. call[c] \in Call /\ v \in Int
    BY <1>1 DEF IInv, TypeOK, Task
  <2> QED BY <2>1, <2>2, <2>3 DEF Call, Version
<1>2. ASSUME NEW e \in Exchanges, HandleFetchOk(e) \/ HandleFetchError(e)
      PROVE  answer'[c] >= call[c].owed
  BY <1>1, <1>2 DEF HandleFetchOk, HandleFetchError, ReplyWithErrors
<1>3. ASSUME NEW e \in Exchanges, NEW d \in Callers,
             ReconcileSnapshot(d, e) \/ QueryMissing(d, e)
      PROVE  FALSE
  <2>1. d # c
    BY <1>3 DEF ReconcileSnapshot, QueryMissing
  <2> QED BY <1>3, <2>1 DEF ReconcileSnapshot, QueryMissing, Queue, IInv, TypeOK
<1>4. ASSUME NEW e \in Exchanges,
             Age(e) \/ Change(e) \/ FetchSucceeds(e) \/ FetchFails(e)
             \/ (\E d \in Callers : QueryCached(d, e))
      PROVE  FALSE
  BY <1>4 DEF Age, Change, FetchSucceeds, FetchFails, Answered, QueryCached
<1>5. ~UNCHANGED vars
  BY DEF vars
<1> QED BY <1>2, <1>3, <1>4, <1>5 DEF Next

(* A command that waits, and did not join a fetch in flight, is answered with *)
(* the account as it was at the call or later.                                *)
THEOREM AnswersAlwaysFresh == Spec => AnswersAreFresh
<1>1. Init => OwedInv
  BY DEF Init, OwedInv
<1>2. Spec => []OwedInv
  BY <1>1, AlwaysIInv, NextOwedInv, PTL DEF Spec
<1>3. IInv /\ OwedInv /\ [Next]_vars =>
        [\A c \in Callers :
           call[c] # NoCall /\ call'[c] = NoCall /\ answer'[c] # 0
           => answer'[c] >= call[c].owed]_vars
  BY StepAnswersFresh
<1> QED BY <1>2, <1>3, AlwaysIInv, PTL DEF Spec, AnswersAreFresh

-----------------------------------------------------------------------------
(* What the answer of a call says is true, however often it is tried and     *)
(* however long the receive window is.  The attempts carry one client order  *)
(* id, so the exchange knows them for one; and before a second attempt is    *)
(* made, the first one has not been carried out while it is on its way.      *)
TriesInv ==
  /\ tries \in Nat
  /\ network \subseteq [try : Nat \ {0}, sent : Nat, signed : Nat]
  /\ \A a \in network : a.try <= tries
  /\ \A a, b \in network : a.try = b.try => a = b

(* Nothing was carried out before there was an attempt, nor while the only   *)
(* one is on its way.                                                        *)
DoneInv ==
  /\ done \subseteq {1}
  /\ tries <= 1 /\ network # {} => done = {}
  /\ tries = 0 => /\ step \in {"idle", "send"}
                  /\ network = {} /\ done = {}
                  /\ reply = "none" /\ result = "none"

(* What an answer says of the exchange *)
Says(a) ==
  /\ a \in {"ok", "garbled", "duplicate"} => done # {}
  /\ a = "refused" /\ tries = 1 => done = {} /\ network = {}

CallInv == TriesInv /\ DoneInv /\ Says(reply) /\ Says(result) /\ now \in Nat

LEMMA InitCallInv == Rest!Init => CallInv
BY DEF Rest!Init, CallInv, TriesInv, DoneInv, Says

-----------------------------------------------------------------------------
(* A new attempt has a number of its own. *)
LEMMA SendKeeps == ASSUME CallInv, Rest!Send PROVE CallInv'
<1> USE DEF CallInv, Rest!Send
<1>1. TriesInv'
  BY DEF TriesInv, Rest!Signed
<1>2. DoneInv'
  BY DEF TriesInv, DoneInv
<1>3. Says(reply)' /\ Says(result)'
  BY DEF Says, DoneInv, TriesInv
<1> QED BY <1>1, <1>2, <1>3

(* The client tells its caller what it was told, or tries again. *)
LEMMA ReceiveKeeps == ASSUME CallInv, Rest!Receive \/ Rest!Fail PROVE CallInv'
<1> USE DEF CallInv, Rest!Receive, Rest!Fail
<1>1. TriesInv'
  BY DEF TriesInv
<1>2. reply' = "none" /\ result' \in {result, reply, "failed"}
  BY DEF Rest!Answer, Rest!Retry
<1>3. DoneInv'
  BY DEF DoneInv
<1>4. Says(reply)' /\ Says(result)'
  BY <1>2 DEF Says
<1> QED BY <1>1, <1>3, <1>4

(* The first of the attempts to arrive in time is carried out, or refused;   *)
(* the others are known for duplicates.                                      *)
LEMMA ArriveKeeps ==
  ASSUME CallInv, NEW attempt \in network, Rest!Arrive(attempt)
  PROVE  CallInv'
<1> USE DEF CallInv, Rest!Arrive
<1>1. tries' = tries /\ network' = network \ {attempt} /\ result' = result
  OBVIOUS
<1>2. TriesInv'
  BY <1>1 DEF TriesInv
<1>3. PICK response \in Rest!Responses(attempt) :
        /\ \/ response \in {"ok", "garbled"} /\ done' = done \cup {1}
           \/ response = "unavailable" /\ done' \in {done, done \cup {1}}
           \/ response \notin {"ok", "garbled", "unavailable"} /\ done' = done
        /\ reply' \in {reply, response}
  BY DEF Rest!ClientOrderId
<1>4. tries # 0
  BY DEF DoneInv
<1>5. done \subseteq done' /\ done' \subseteq {1}
  BY <1>3 DEF DoneInv
<1>6. tries = 1 => network = {attempt} /\ done = {}
  BY DEF TriesInv, DoneInv
<1>7. DoneInv'
  BY <1>1, <1>4, <1>5, <1>6 DEF DoneInv, TriesInv
<1>8. Says(response)'
  <2>1. response = "duplicate" => done # {}
    BY DEF Rest!Responses, Rest!ClientOrderId
  <2>2. response = "refused" => done' = done
    BY <1>3
  <2>3. response \in {"ok", "garbled"} => done' # {}
    BY <1>3
  <2> QED BY <1>1, <1>5, <1>6, <2>1, <2>2, <2>3 DEF Says
<1>9. ASSUME NEW a \in {reply, result}, Says(a)
      PROVE  /\ a \in {"ok", "garbled", "duplicate"} => done' # {}
             /\ a = "refused" /\ tries' = 1 => done' = {} /\ network' = {}
  BY <1>1, <1>5, <1>6, <1>9 DEF Says
<1>10. Says(reply)' /\ Says(result)'
  BY <1>1, <1>3, <1>8, <1>9 DEF Says
<1> QED BY <1>2, <1>7, <1>10

LEMMA NextCallInv ==
  ASSUME CallInv, [Rest!Next]_(Rest!vars)
  PROVE  CallInv'
<1>1. CASE Rest!Call
  BY <1>1 DEF Rest!Call, CallInv, TriesInv, DoneInv, Says
<1>2. CASE Rest!Tick
  BY <1>2 DEF Rest!Tick, CallInv, TriesInv, DoneInv, Says
<1>3. CASE UNCHANGED Rest!vars
  BY <1>3 DEF Rest!vars, CallInv, TriesInv, DoneInv, Says
<1> QED BY <1>1, <1>2, <1>3, SendKeeps, ReceiveKeeps, ArriveKeeps DEF Rest!Next

-----------------------------------------------------------------------------
LEMMA CallInvAnswers == CallInv => AnswersAreTrue
BY DEF CallInv, DoneInv, AnswersAreTrue, Rest!AnswersAreTrue, Says

(* However often an attempt is repeated, and however late the ones that were *)
(* given up arrive, the exchange carries the call out once, and what the     *)
(* caller is told of it is true (http/client.rs 66-87, 195-232).             *)
THEOREM AnswersAlwaysTrue == Rest!Spec => []AnswersAreTrue
<1>1. CallInv /\ [Rest!Next]_(Rest!vars) => CallInv'
  BY NextCallInv
<1> QED BY InitCallInv, <1>1, CallInvAnswers, PTL DEF Rest!Spec

-----------------------------------------------------------------------------
(* An attempt is signed when it is sent. *)
LateInv ==
  /\ \A a \in network : a.signed = a.sent
  /\ reply = "stale" \/ result = "stale" => late

LEMMA ArriveKeepsLate ==
  ASSUME LateInv, NEW attempt \in network, Rest!Arrive(attempt)
  PROVE  LateInv'
<1> USE DEF Rest!Arrive
<1>1. PICK response \in Rest!Responses(attempt) : reply' \in {reply, response}
  OBVIOUS
<1>2. late => late'
  OBVIOUS
<1>3. response = "stale" => late'
  <2>1. response = "stale" => now > attempt.signed + Window
    BY DEF Rest!Responses
  <2>2. attempt.signed = attempt.sent
    BY DEF LateInv
  <2> QED BY <2>1, <2>2
<1> QED BY <1>1, <1>2, <1>3 DEF LateInv

LEMMA NextLateInv == ASSUME LateInv, [Rest!Next]_(Rest!vars) PROVE LateInv'
<1>1. CASE Rest!Send
  BY <1>1 DEF Rest!Send, Rest!Signed, LateInv
<1>2. CASE Rest!Receive \/ Rest!Fail
  BY <1>2 DEF Rest!Receive, Rest!Fail, Rest!Answer, Rest!Retry, LateInv
<1>3. CASE Rest!Call \/ Rest!Tick \/ UNCHANGED Rest!vars
  BY <1>3 DEF Rest!Call, Rest!Tick, Rest!vars, LateInv
<1> QED BY <1>1, <1>2, <1>3, ArriveKeepsLate DEF Rest!Next

(* A call is refused as stale only when one of its attempts was longer on    *)
(* its way than the receive window, however many there were before it        *)
(* (http/client.rs 71-77).                                                   *)
THEOREM AlwaysStaleOnlyWhenLate == Rest!Spec => []StaleOnlyWhenLate
<1>1. Rest!Init => LateInv
  BY DEF Rest!Init, LateInv
<1>2. LateInv /\ [Rest!Next]_(Rest!vars) => LateInv'
  BY NextLateInv
<1>3. LateInv => StaleOnlyWhenLate
  BY DEF LateInv, StaleOnlyWhenLate, Rest!StaleOnlyWhenLate
<1> QED BY <1>1, <1>2, <1>3, PTL DEF Rest!Spec

(* A call makes MaxRetries + 1 attempts at most. *)
CallTyped ==
  /\ Rest!TypeOK
  /\ step = "idle" => tries = 0
  /\ step = "send" => tries <= MaxRetries
  /\ done \subseteq {1}

LEMMA NextCallTyped == ASSUME CallTyped, [Rest!Next]_(Rest!vars) PROVE CallTyped'
<1> USE RestAssumption DEF Rest!RestClientAssumption, CallTyped, Rest!TypeOK, Rest!Try,
                           Rest!Attempt
<1>1. CASE Rest!Send
  <2>1. tries + 1 \in Rest!Try
    BY <1>1 DEF Rest!Send
  <2>2. [try |-> tries + 1, sent |-> now, signed |-> Rest!Signed] \in Rest!Attempt
    BY <2>1 DEF Rest!Signed
  <2> QED BY <1>1, <2>1, <2>2 DEF Rest!Send
<1>2. CASE Rest!Receive \/ Rest!Fail
  BY <1>2 DEF Rest!Receive, Rest!Fail, Rest!Answer, Rest!Retry, Rest!Response
<1>3. ASSUME NEW attempt \in network, Rest!Arrive(attempt)
      PROVE  CallTyped'
  <2>1. PICK response \in Rest!Responses(attempt) :
          /\ done' \in {done, done \cup {1}}
          /\ reply' \in {reply, response}
    BY <1>3 DEF Rest!Arrive, Rest!ClientOrderId
  <2>2. response \in Rest!Response
    BY DEF Rest!Responses, Rest!Response
  <2>3. late' \in BOOLEAN
    BY <1>3, Zenon DEF Rest!Arrive
  <2>4. done' \subseteq {1} /\ done' \subseteq Rest!Try
    BY <2>1
  <2> QED BY <1>3, <2>1, <2>2, <2>3, <2>4 DEF Rest!Arrive
<1>4. CASE Rest!Call
  BY <1>4 DEF Rest!Call
<1>5. CASE Rest!Tick
  <2>1. now + 1 \in 0..MaxTime
    BY <1>5 DEF Rest!Tick
  <2> QED BY <1>5, <2>1 DEF Rest!Tick
<1>6. CASE UNCHANGED Rest!vars
  BY <1>6 DEF Rest!vars
<1> QED BY <1>1, <1>2, <1>3, <1>4, <1>5, <1>6 DEF Rest!Next

LEMMA CallTypeCorrect == Rest!Spec => []Rest!TypeOK
<1>1. ASSUME Rest!Init PROVE CallTyped
  <2>1. late \in BOOLEAN
    BY <1>1, Zenon DEF Rest!Init
  <2>2. MaxRetries \in Nat /\ MaxTime \in Nat
    BY RestAssumption DEF Rest!RestClientAssumption
  <2>3. tries \in 0..(MaxRetries + 1) /\ now \in 0..MaxTime /\ begun \in 0..MaxTime
    BY <1>1, <2>2 DEF Rest!Init
  <2> QED BY <1>1, <2>1, <2>3 DEF Rest!Init, CallTyped, Rest!TypeOK
<1>2. CallTyped => Rest!TypeOK
  BY DEF CallTyped
<1>3. CallTyped /\ [Rest!Next]_(Rest!vars) => CallTyped'
  BY NextCallTyped
<1> QED BY <1>1, <1>2, <1>3, PTL DEF Rest!Spec

-----------------------------------------------------------------------------
(* For orders of any size and every exchange: what the mappers of its        *)
(* reports and of its answers take for an end is one, and the same one.      *)
Ended(o) == o.status \in Reports!Ends(exchange)

ExchangeInv ==
  exchange \in {"binance spot", "binance futures", "bybit", "aster"}

Name ==
  {"pending", "new", "partial", "filled", "canceled", "rejected", "expired",
   "deactivated", "expired in match"}
AnyOrder == [status : Name, filled : Nat]

(* The last report of an order is that of its end. *)
WireInv ==
  /\ wire \in Seq(AnyOrder)
  /\ \A i \in 1..Len(wire) : Ended(wire[i]) => wire[i] = order

OrderTyped == order \in AnyOrder

ReportsInv == ExchangeInv /\ OrderTyped /\ WireInv /\ Reports!NothingEndsEarly

-----------------------------------------------------------------------------
(* What a mapper takes for an end is one, in our words. *)
IsTheEnd(r, o) ==
  Reports!Final(r) =>
    /\ Ended(o)
    /\ r = [status |-> IF o.status \in {"filled", "rejected"} THEN o.status ELSE "canceled",
            filled |-> o.filled]

LEMMA MappersTellEnds ==
  ASSUME ExchangeInv, NEW o
  PROVE  IsTheEnd(Reports!ReportSays(o), o) /\ IsTheEnd(Reports!get_order_status, order)
<1> USE DEF ExchangeInv, IsTheEnd, Ended, Reports!Ends, Reports!Final, Reports!Read
<1>1. IsTheEnd(Reports!ReportSays(o), o)
  BY DEF Reports!ReportSays, Reports!spot_execution_to_order_event,
         Reports!futures_execution_to_order_event, Reports!ws_order_to_order_event,
         Reports!aster_execution_to_order_event
<1>2. IsTheEnd(Reports!get_order_status, order)
  BY DEF Reports!get_order_status, Reports!binance_order_response_to_order,
         Reports!bybit_order_to_order, Reports!aster_order_response_to_order
<1> QED BY <1>1, <1>2

LEMMA InitReportsInv == Reports!Init => ReportsInv
<1> SUFFICES ASSUME Reports!Init PROVE ReportsInv
  OBVIOUS
<1> USE DEF Reports!Init
<1>1. ExchangeInv
  BY ReportsAssumption DEF Reports!OrderReportsAssumption, ExchangeInv
<1>2. OrderTyped
  <2>1. order \in [status : {"pending", "new"}, filled : {0}]
    OBVIOUS
  <2>2. order = [status |-> order.status, filled |-> order.filled]
    BY <2>1
  <2>3. order.status \in {"pending", "new"} /\ order.filled \in {0}
    BY <2>1
  <2>4. order.status \in Name
    BY <2>3 DEF Name
  <2> QED BY <2>2, <2>3, <2>4 DEF OrderTyped, AnyOrder
<1>3. WireInv /\ Reports!NothingEndsEarly
  BY DEF WireInv, Reports!NothingEndsEarly, Reports!Final
<1> QED BY <1>1, <1>2, <1>3 DEF ReportsInv

-----------------------------------------------------------------------------
LEMMA RelayKeeps == ASSUME ReportsInv, Reports!Relay PROVE ReportsInv'
<1> USE DEF ReportsInv, Reports!Relay
<1>1. ExchangeInv' /\ OrderTyped'
  BY DEF ExchangeInv, OrderTyped
<1>2. 1 \in 1..Len(wire) /\ Head(wire) = wire[1]
  BY DEF WireInv
<1>3. WireInv'
  <2>1. /\ Len(wire') = Len(wire) - 1
        /\ \A i \in 1..Len(wire') : i + 1 \in 1..Len(wire) /\ wire'[i] = wire[i + 1]
    BY <1>2 DEF WireInv
  <2> QED BY <2>1 DEF WireInv, Ended
<1>4. Reports!NothingEndsEarly'
  <2>1. Reports!Final(Reports!ReportSays(wire[1])) =>
          Reports!HasEnded /\ Reports!ReportSays(wire[1]) = Reports!TrueEnd
    BY <1>2, MappersTellEnds DEF WireInv, IsTheEnd, Reports!HasEnded, Ended, Reports!TrueEnd
  <2>2. known' \in {known, Reports!ReportSays(wire[1])}
    BY <1>2
  <2>3. Reports!HasEnded' = Reports!HasEnded /\ Reports!TrueEnd' = Reports!TrueEnd
    BY DEF Reports!HasEnded, Reports!TrueEnd
  <2> QED BY <2>1, <2>2, <2>3 DEF Reports!NothingEndsEarly, Reports!Final
<1> QED BY <1>1, <1>3, <1>4

LEMMA ReconcileKeeps == ASSUME ReportsInv, Reports!Reconcile PROVE ReportsInv'
<1> USE DEF ReportsInv, Reports!Reconcile
<1>1. ExchangeInv' /\ OrderTyped' /\ WireInv'
  BY DEF ExchangeInv, OrderTyped, WireInv, Ended
<1>2. Reports!HasEnded /\ known' = Reports!TrueEnd
  BY MappersTellEnds DEF IsTheEnd, Reports!HasEnded, Ended, Reports!TrueEnd
<1> QED BY <1>1, <1>2 DEF Reports!NothingEndsEarly, Reports!HasEnded, Reports!TrueEnd

(* An order changes only while it is open, when nothing has told of its end. *)
LEMMA BecomesKeeps ==
  ASSUME ReportsInv, NEW status \in Name, NEW filled \in Nat,
         order.status \in Reports!Open, Reports!Becomes(status, filled)
  PROVE  ReportsInv'
<1> USE DEF ReportsInv, Reports!Becomes
<1>1. ~ Reports!HasEnded /\ ~ Ended(order)
  BY DEF Reports!HasEnded, Ended, Reports!Open, Reports!Ends, ExchangeInv
<1>2. ExchangeInv' /\ OrderTyped'
  BY DEF ExchangeInv, OrderTyped, AnyOrder
<1>3. \A i \in 1..Len(wire) : ~ Ended(wire[i])
  BY <1>1 DEF WireInv
<1>4. WireInv'
  <2>1. wire' \in Seq(AnyOrder)
    BY <1>2 DEF WireInv, OrderTyped
  <2>2. ASSUME NEW i \in 1..Len(wire')
        PROVE  wire'[i] = order' \/ (i \in 1..Len(wire) /\ wire'[i] = wire[i])
    BY <1>2 DEF WireInv, OrderTyped
  <2> QED BY <2>1, <2>2, <1>3 DEF WireInv, Ended
<1>5. Reports!NothingEndsEarly'
  BY <1>1 DEF Reports!NothingEndsEarly, Reports!Final
<1> QED BY <1>2, <1>4, <1>5

LEMMA NextReportsInv == ASSUME ReportsInv, [Reports!Next]_(Reports!vars) PROVE ReportsInv'
<1>1. CASE Reports!Enter
  BY <1>1, BecomesKeeps DEF Reports!Enter, Reports!Open, Name
<1>2. CASE Reports!Fill
  <2> DEFINE filled == order.filled + 1
             status == IF filled = Size THEN "filled" ELSE "partial"
  <2>1. order.filled \in Nat
    BY DEF ReportsInv, OrderTyped, AnyOrder
  <2>2. status \in Name
    BY DEF Name
  <2>3. filled \in Nat
    BY <2>1
  <2>4. order.status \in Reports!Open /\ Reports!Becomes(status, filled)
    BY <1>2 DEF Reports!Fill, Reports!Open
  <2> HIDE DEF filled, status
  <2> QED BY <2>2, <2>3, <2>4, BecomesKeeps
<1>3. ASSUME NEW status \in Reports!Ends(exchange) \ {"filled"}, Reports!End(status)
      PROVE  ReportsInv'
  <2>1. status \in Name /\ order.filled \in Nat
    BY DEF Reports!Ends, ReportsInv, OrderTyped, AnyOrder, Name
  <2> QED BY <1>3, <2>1, BecomesKeeps DEF Reports!End
<1>4. CASE UNCHANGED Reports!vars
  BY <1>4 DEF Reports!vars, ReportsInv, ExchangeInv, OrderTyped, WireInv,
     Reports!NothingEndsEarly, Ended, Reports!HasEnded, Reports!TrueEnd
<1> QED BY <1>1, <1>2, <1>3, <1>4, RelayKeeps, ReconcileKeeps DEF Reports!Next

-----------------------------------------------------------------------------
(* No order is thought to have ended that has not, and none to have ended    *)
(* otherwise than it did, whatever becomes of its reports (mappers.rs of the *)
(* exchanges, order.rs 491-613).                                             *)
THEOREM NothingEverEndsEarly == Reports!Spec => []NothingEndsEarly
<1>1. ReportsInv /\ [Reports!Next]_(Reports!vars) => ReportsInv'
  BY NextReportsInv
<1>2. ReportsInv => NothingEndsEarly
  BY DEF ReportsInv, NothingEndsEarly
<1> QED BY InitReportsInv, <1>1, <1>2, PTL DEF Reports!Spec

(* What each mapper says is in our words, or is not understood. *)
LEMMA MappersTyped ==
  ASSUME ExchangeInv, NEW o, o.filled \in Reports!Lots
  PROVE  /\ Reports!ReportSays(o) \in
              [status : Reports!OurStatus \cup {"unknown"}, filled : Reports!Lots]
         /\ o = order => Reports!get_order_status \in
              [status : Reports!OurStatus \cup {"unknown"}, filled : Reports!Lots]
<1>1. ASSUME NEW new, NEW canceled
      PROVE  Reports!Read(o, new, canceled) \in
               [status : Reports!OurStatus \cup {"unknown"}, filled : Reports!Lots]
  BY DEF Reports!Read, Reports!OurStatus
<1>2. Reports!ReportSays(o) \in
        [status : Reports!OurStatus \cup {"unknown"}, filled : Reports!Lots]
  BY <1>1 DEF ExchangeInv, Reports!ReportSays, Reports!spot_execution_to_order_event,
     Reports!futures_execution_to_order_event, Reports!ws_order_to_order_event,
     Reports!aster_execution_to_order_event
<1>3. o = order => Reports!get_order_status \in
        [status : Reports!OurStatus \cup {"unknown"}, filled : Reports!Lots]
  BY <1>1 DEF ExchangeInv, Reports!get_order_status,
     Reports!binance_order_response_to_order, Reports!bybit_order_to_order,
     Reports!aster_order_response_to_order
<1> QED BY <1>2, <1>3

LEMMA LotsAre ==
  /\ Size \in Nat \ {0}
  /\ 0 \in Reports!Lots /\ 0 < Size
  /\ \A n \in Reports!Lots :
       n < Size => n + 1 \in Reports!Lots /\ (n + 1 = Size \/ n + 1 < Size)
<1>1. Size \in Nat \ {0}
  BY ReportsAssumption DEF Reports!OrderReportsAssumption
<1> QED BY <1>1 DEF Reports!Lots

(* An order that is open is not filled yet. *)
ReportsTyped ==
  /\ Reports!TypeOK
  /\ order.status \in Reports!Open => order.filled < Size

LEMMA BecomesTyped ==
  ASSUME ReportsTyped, NEW status \in Reports!Open \cup Reports!Ends(exchange),
         NEW filled \in Reports!Lots, Reports!Becomes(status, filled),
         status \in Reports!Open => filled < Size
  PROVE  ReportsTyped'
<1> USE DEF ReportsTyped, Reports!TypeOK
<1>1. status \in Reports!Open \cup UNION {Reports!Ends(e) : e \in Reporting}
  OBVIOUS
<1>2. order' \in Reports!TheirOrder /\ order'.status = status /\ order'.filled = filled
  BY <1>1 DEF Reports!Becomes, Reports!TheirOrder
<1>3. wire' \in Seq(Reports!TheirOrder) /\ exchange' = exchange /\ known' = known
  BY <1>2 DEF Reports!Becomes
<1> QED BY <1>2, <1>3

LEMMA NextReportsTyped ==
  ASSUME ReportsTyped, [Reports!Next]_(Reports!vars)
  PROVE  ReportsTyped'
<1>1. order.filled \in Reports!Lots /\ wire \in Seq(Reports!TheirOrder)
  BY DEF ReportsTyped, Reports!TypeOK, Reports!TheirOrder
<1>2. ExchangeInv
  BY ReportsAssumption DEF Reports!OrderReportsAssumption, ReportsTyped, Reports!TypeOK, ExchangeInv
<1>3. CASE Reports!Relay
  <2>1. /\ wire # <<>> /\ wire' = Tail(wire)
        /\ UNCHANGED <<exchange, order>>
        /\ known' = known \/ (/\ known' = Reports!ReportSays(Head(wire))
                              /\ known'.status # "unknown")
    BY <1>3 DEF Reports!Relay, Reports!Follows
  <2>2. wire' \in Seq(Reports!TheirOrder) /\ Head(wire).filled \in Reports!Lots
    <3>1. Head(wire) \in Reports!TheirOrder /\ Tail(wire) \in Seq(Reports!TheirOrder)
      BY <1>1, <2>1
    <3> QED BY <2>1, <3>1 DEF Reports!TheirOrder
  <2>3. known' \in [status : Reports!OurStatus, filled : Reports!Lots]
    BY <1>2, <2>1, <2>2, MappersTyped DEF ReportsTyped, Reports!TypeOK
  <2> QED BY <2>1, <2>2, <2>3 DEF ReportsTyped, Reports!TypeOK
<1>4. CASE Reports!Reconcile
  <2>1. /\ UNCHANGED <<exchange, order, wire>>
        /\ known' = Reports!get_order_status /\ known'.status # "unknown"
    BY <1>4 DEF Reports!Reconcile, Reports!Final
  <2>2. known' \in [status : Reports!OurStatus, filled : Reports!Lots]
    BY <1>1, <1>2, <2>1, MappersTyped
  <2> QED BY <2>1, <2>2 DEF ReportsTyped, Reports!TypeOK
<1>5. CASE Reports!Enter
  <2>1. "new" \in Reports!Open
    BY DEF Reports!Open
  <2> QED BY <1>5, <2>1, LotsAre, BecomesTyped DEF Reports!Enter
<1>6. CASE Reports!Fill
  <2> DEFINE filled == order.filled + 1
             status == IF filled = Size THEN "filled" ELSE "partial"
  <2>1. order.status \in Reports!Open /\ Reports!Becomes(status, filled)
    BY <1>6 DEF Reports!Fill, Reports!Open
  <2>2. order.filled < Size
    BY <2>1 DEF ReportsTyped
  <2>3. filled \in Reports!Lots /\ (filled = Size \/ filled < Size)
    BY <1>1, <2>2, LotsAre
  <2>4. status \in Reports!Open \cup Reports!Ends(exchange)
        /\ (status \in Reports!Open => filled # Size)
    BY DEF Reports!Open, Reports!Ends
  <2> HIDE DEF filled, status
  <2> QED BY <2>1, <2>3, <2>4, BecomesTyped
<1>7. ASSUME NEW status \in Reports!Ends(exchange) \ {"filled"}, Reports!End(status)
      PROVE  ReportsTyped'
  <2>1. status \notin Reports!Open /\ Reports!Becomes(status, order.filled)
    BY <1>7 DEF Reports!Ends, Reports!Open, Reports!End
  <2> QED BY <1>1, <2>1, BecomesTyped
<1>8. CASE UNCHANGED Reports!vars
  BY <1>8 DEF Reports!vars, ReportsTyped, Reports!TypeOK
<1> QED BY <1>3, <1>4, <1>5, <1>6, <1>7, <1>8 DEF Reports!Next

LEMMA ReportsTypeCorrect == Reports!Spec => []Reports!TypeOK
<1>1. ASSUME Reports!Init PROVE ReportsTyped
  <2>1. /\ order \in [status : {"pending", "new"}, filled : {0}]
        /\ known = [status |-> "new", filled |-> 0]
        /\ exchange \in Reporting /\ wire = <<>>
    BY <1>1 DEF Reports!Init
  <2>2. /\ order = [status |-> order.status, filled |-> 0]
        /\ order.status \in {"pending", "new"} /\ order.filled = 0
    BY <2>1
  <2>3. order.status \in Reports!Open
    BY <2>2 DEF Reports!Open
  <2>4. order \in Reports!TheirOrder
    BY <2>2, <2>3, LotsAre DEF Reports!TheirOrder
  <2>5. known \in [status : Reports!OurStatus, filled : Reports!Lots]
    <3>1. "new" \in Reports!OurStatus
      BY DEF Reports!OurStatus
    <3> QED BY <2>1, <3>1, LotsAre
  <2>6. wire \in Seq(Reports!TheirOrder)
    BY <2>1
  <2> QED BY <2>1, <2>2, <2>4, <2>5, <2>6, LotsAre DEF ReportsTyped, Reports!TypeOK
<1>2. ReportsTyped => Reports!TypeOK
  BY DEF ReportsTyped
<1>3. ReportsTyped /\ [Reports!Next]_(Reports!vars) => ReportsTyped'
  BY NextReportsTyped
<1> QED BY <1>1, <1>2, <1>3, PTL DEF Reports!Spec

-----------------------------------------------------------------------------
(* Whichever part moves, each behaves as its own specification says, so that *)
(* the theorems about the parts hold of their composition.                   *)
LEMMA PartsFollow == AnyPart => Spec /\ Rest!Spec /\ Reports!Spec
<1>1. InitPart => Init /\ Rest!Init /\ Reports!Init
  BY DEF InitPart
<1>2. [NextPart]_all => /\ [Next]_vars
                        /\ [Rest!Next]_(Rest!vars)
                        /\ [Reports!Next]_(Reports!vars)
  BY DEF NextPart, all, vars, restVars, reportVars, Rest!vars, Reports!vars
<1> QED BY <1>1, <1>2, PTL DEF AnyPart, Spec, Rest!Spec, Reports!Spec

(* The state of each part stays typed, for any exchanges, callers, retries   *)
(* and order size.                                                           *)
THEOREM TypesCorrect == AnyPart => []AllTypesOK
<1>1. IInv => TypeOK
  BY DEF IInv
<1>2. TypeOK /\ Rest!TypeOK /\ Reports!TypeOK => AllTypesOK
  BY DEF AllTypesOK
<1> QED BY <1>1, <1>2, PartsFollow, AlwaysIInv, CallTypeCorrect, ReportsTypeCorrect, PTL
=============================================================================

------------------------- MODULE PriceManagerProofs -------------------------
(***************************************************************************)
(* The bookkeeping of PriceManager, for every set of instruments and       *)
(* callers: the fetching set and the waiting lists say what is in flight.  *)
(***************************************************************************)
EXTENDS ExchangeUpdates, TLAPS

(* FetchingIsTrue is inductive given the types; WaitersWillBeServed needs it: *)
(* a result may clear the mark of a key because it empties the waiting list   *)
(* of the same key in the same step.                                          *)
IInv == TypeOK /\ FetchingIsTrue /\ WaitersWillBeServed

LEMMA InitIInv == Init => IInv
BY PriceManagerAssumption DEF Init, IInv, TypeOK, FetchingIsTrue,
   WaitersWillBeServed, NoTask, Task, Version

-----------------------------------------------------------------------------
(* Types *)

(* Starting a fetch keeps the types and marks the key, if it was not. *)
LEMMA StartTyped ==
  ASSUME TypeOK, NEW k \in Keys, StartRestFetch(k)
  PROVE  /\ task' \in [Keys -> Task]
         /\ fetching' = fetching \cup {k}
<1>1. CASE k \in fetching
  BY <1>1 DEF TypeOK, StartRestFetch
<1>2. CASE k \notin fetching
  <2>1. [stage |-> "asked", version |-> 0] \in Task
    BY PriceManagerAssumption DEF Task
  <2> QED BY <1>2, <2>1 DEF TypeOK, StartRestFetch
<1> QED BY <1>1, <1>2

(* What a caller that waits is owed is no newer than the book. *)
LEMMA OwedIsPast ==
  ASSUME TypeOK, NEW k \in Keys
  PROVE  Owed(k) \in Version /\ Owed(k) <= book[k]
<1>1. book[k] \in Version
  BY DEF TypeOK
<1> QED BY <1>1, PriceManagerAssumption DEF Owed, Version

LEMMA WaitTyped ==
  ASSUME TypeOK, NEW c \in Callers, NEW k \in Keys, Wait(c, k)
  PROVE  /\ pending' \in [Keys -> SUBSET Callers]
         /\ call' \in [Callers -> Call \cup {NoCall}]
<1>1. [key |-> k, owed |-> Owed(k)] \in Call
  BY OwedIsPast DEF Call
<1> QED BY <1>1 DEF TypeOK, Wait

LEMMA DeliverTyped ==
  ASSUME TypeOK, NEW k \in Keys, NEW v \in 0..MaxVersion, Deliver(k, v)
  PROVE  /\ answer' \in [Callers -> 0..MaxVersion]
         /\ call' \in [Callers -> Call \cup {NoCall}]
         /\ pending' \in [Keys -> SUBSET Callers]
BY DEF TypeOK, Deliver

(* Every step keeps the types. *)
LEMMA NextTypeOK == TypeOK /\ [Next]_vars => TypeOK'
<1> SUFFICES ASSUME TypeOK, [Next]_vars PROVE TypeOK'
  OBVIOUS
<1> USE PriceManagerAssumption
<1>1. ASSUME NEW k \in Keys, HandleRestResult(k) PROVE TypeOK'
  <2>1. task[k] \in Task /\ task[k].version \in 0..MaxVersion
    BY DEF TypeOK, Task
  <2>2. Deliver(k, task[k].version)
    BY <1>1 DEF HandleRestResult, DeliverResult
  <2>3. task' \in [Keys -> Task]
    <3>1. NoTask \in Task
      BY DEF NoTask, Task
    <3> QED BY <1>1, <3>1 DEF TypeOK, HandleRestResult
  <2>4. cache' \in [Keys -> 0..MaxVersion]
    BY <1>1, <2>1 DEF TypeOK, HandleRestResult
  <2>5. fetching' \subseteq Keys
    BY <1>1 DEF TypeOK, HandleRestResult, ClearFetching
  <2>6. UNCHANGED <<book, ws>>
    BY <1>1 DEF HandleRestResult
  <2> QED BY <2>1, <2>2, <2>3, <2>4, <2>5, <2>6, DeliverTyped DEF TypeOK
<1>2. ASSUME NEW k \in Keys, Expire(k) PROVE TypeOK'
  BY <1>2 DEF TypeOK, Expire
<1>3. ASSUME NEW k \in Keys, Move(k) PROVE TypeOK'
  <2>1. book' \in [Keys -> Version]
    BY <1>3 DEF TypeOK, Move, Version
  <2>2. [key |-> k, version |-> book[k] + 1] \in Update
    BY <1>3 DEF TypeOK, Move, Version, Update
  <2>3. ws' \in Seq(Update)
    <3>1. ASSUME NEW u \in Update PROVE Append(ws, u) \in Seq(Update)
      BY DEF TypeOK
    <3>2. \/ ws' = Append(ws, [key |-> k, version |-> book[k] + 1])
          \/ ws' = ws
      BY <1>3 DEF Move
    <3> QED BY <2>2, <3>1, <3>2 DEF TypeOK
  <2> QED BY <1>3, <2>1, <2>3 DEF TypeOK, Move
<1>4. ASSUME NEW k \in Keys, RestAnswers(k) PROVE TypeOK'
  <2>1. PICK v \in {0, book[k]} :
          task' = [task EXCEPT ![k] = [stage |-> "answered", version |-> v]]
    BY <1>4 DEF RestAnswers
  <2>2. [stage |-> "answered", version |-> v] \in Task
    BY DEF TypeOK, Task, Version
  <2>3. task' \in [Keys -> Task]
    BY <2>1, <2>2 DEF TypeOK
  <2> QED BY <1>4, <2>3 DEF TypeOK, RestAnswers
<1>5. ASSUME NEW k \in Keys, NEW c \in Callers, GetCached(c, k) PROVE TypeOK'
  BY <1>5 DEF TypeOK, GetCached
<1>6. ASSUME NEW k \in Keys, NEW c \in Callers, GetMissing(c, k) PROVE TypeOK'
  <2>1. Wait(c, k) /\ StartRestFetch(k)
        /\ UNCHANGED <<book, ws, cache, answer>>
    BY <1>6 DEF GetMissing
  <2> QED BY <2>1, WaitTyped, StartTyped DEF TypeOK
<1>7. ASSUME NEW k \in Keys, NEW c \in Callers, RefreshSnapshot(c, k) PROVE TypeOK'
  <2>1. Wait(c, k) /\ StartRestFetch(k)
        /\ UNCHANGED <<book, ws, cache, answer>>
    BY <1>7 DEF RefreshSnapshot
  <2> QED BY <2>1, WaitTyped, StartTyped DEF TypeOK
<1>8. CASE HandleWsUpdate
  <2>1. /\ Head(ws) \in Update
        /\ ws' \in Seq(Update)
    BY <1>8 DEF TypeOK, HandleWsUpdate
  <2>2. Head(ws).key \in Keys /\ Head(ws).version \in 0..MaxVersion
    BY <2>1 DEF Version, Update
  <2>3. cache' \in [Keys -> 0..MaxVersion]
    BY <1>8, <2>2 DEF TypeOK, HandleWsUpdate
  <2>4. Deliver(Head(ws).key, Head(ws).version) /\ UNCHANGED <<book, task, fetching>>
    BY <1>8 DEF HandleWsUpdate
  <2> QED BY <2>1, <2>2, <2>3, <2>4, DeliverTyped DEF TypeOK
<1>9. CASE UNCHANGED vars
  BY <1>9 DEF TypeOK, vars
<1> QED BY <1>1, <1>2, <1>3, <1>4, <1>5, <1>6, <1>7, <1>8, <1>9 DEF Next

-----------------------------------------------------------------------------
(* Bookkeeping *)

(* A caller that waits is entered in the list of its key, whose fetch is on. *)
LEMMA WaitServed ==
  ASSUME TypeOK, WaitersWillBeServed, NEW c \in Callers, NEW k \in Keys,
         call[c] = NoCall, Wait(c, k), fetching' = fetching \cup {k}
  PROVE  WaitersWillBeServed'
<1>1. [key |-> k, owed |-> Owed(k)] # NoCall
  BY OwedIsPast, PriceManagerAssumption DEF Version
<1> SUFFICES ASSUME NEW j \in Keys, NEW d \in Callers
             PROVE  /\ d \in pending'[j] <=> call'[d] # NoCall /\ call'[d].key = j
                    /\ d \in pending'[j] => j \in fetching'
  BY DEF WaitersWillBeServed
<1>2. pending'[j] = IF j = k THEN pending[k] \cup {c} ELSE pending[j]
  BY DEF TypeOK, Wait
<1>3. CASE d = c
  <2>1. call'[d] = [key |-> k, owed |-> Owed(k)]
    BY <1>3 DEF TypeOK, Wait
  <2>2. d \notin pending[j]
    BY <1>3 DEF WaitersWillBeServed
  <2> QED BY <1>1, <1>2, <1>3, <2>1, <2>2
<1>4. CASE d # c
  <2>1. call'[d] = call[d]
    BY <1>4 DEF TypeOK, Wait
  <2> QED BY <1>2, <1>4, <2>1 DEF WaitersWillBeServed
<1> QED BY <1>3, <1>4

(* Delivery empties the list of the key: the mark of that key may go. *)
LEMMA DeliverServed ==
  ASSUME TypeOK, WaitersWillBeServed, NEW k \in Keys, NEW v,
         Deliver(k, v), fetching \ {k} \subseteq fetching'
  PROVE  WaitersWillBeServed'
<1> SUFFICES ASSUME NEW j \in Keys, NEW d \in Callers
             PROVE  /\ d \in pending'[j] <=> call'[d] # NoCall /\ call'[d].key = j
                    /\ d \in pending'[j] => j \in fetching'
  BY DEF WaitersWillBeServed
<1>1. pending'[j] = IF j = k THEN {} ELSE pending[j]
  BY DEF TypeOK, Deliver
<1>2. call'[d] = IF d \in pending[k] THEN NoCall ELSE call[d]
  BY DEF Deliver
<1>3. d \in pending[k] <=> call[d] # NoCall /\ call[d].key = k
  BY DEF WaitersWillBeServed
<1>4. d \in pending[j] <=> call[d] # NoCall /\ call[d].key = j
  BY DEF WaitersWillBeServed
<1>5. d \in pending[j] => j \in fetching
  BY DEF WaitersWillBeServed
<1> QED BY <1>1, <1>2, <1>3, <1>4, <1>5

(* Starting a fetch marks the key exactly when its task is on its way. *)
LEMMA StartTrue ==
  ASSUME TypeOK, FetchingIsTrue, NEW k \in Keys, StartRestFetch(k)
  PROVE  FetchingIsTrue'
<1>1. CASE k \in fetching
  BY <1>1 DEF FetchingIsTrue, StartRestFetch
<1>2. CASE k \notin fetching
  <2>1. /\ fetching' = fetching \cup {k}
        /\ task' = [task EXCEPT ![k] = [stage |-> "asked", version |-> 0]]
    BY <1>2 DEF StartRestFetch
  <2>2. ASSUME NEW j \in Keys PROVE j \in fetching' <=> task'[j].stage # "none"
    <3>1. CASE j = k
      BY <2>1, <3>1 DEF TypeOK
    <3>2. CASE j # k
      <4>1. task'[j] = task[j]
        BY <2>1, <3>2 DEF TypeOK
      <4> QED BY <2>1, <3>2, <4>1 DEF FetchingIsTrue
    <3> QED BY <3>1, <3>2
  <2> QED BY <2>2 DEF FetchingIsTrue
<1> QED BY <1>1, <1>2

(* Every step keeps the inductive invariant. *)
LEMMA NextIInv == IInv /\ [Next]_vars => IInv'
<1> SUFFICES ASSUME IInv, [Next]_vars PROVE FetchingIsTrue' /\ WaitersWillBeServed'
  BY NextTypeOK DEF IInv
<1> USE DEF IInv
<1>1. ASSUME NEW k \in Keys, HandleRestResult(k)
      PROVE  FetchingIsTrue' /\ WaitersWillBeServed'
  <2>1. Deliver(k, task[k].version) /\ fetching' = fetching \ {k}
    BY <1>1 DEF HandleRestResult, DeliverResult, ClearFetching
  <2>2. FetchingIsTrue'
    BY <1>1, <2>1 DEF TypeOK, FetchingIsTrue, HandleRestResult, NoTask
  <2> QED BY <2>1, <2>2, DeliverServed
<1>2. ASSUME NEW k \in Keys, Expire(k)
      PROVE  FetchingIsTrue' /\ WaitersWillBeServed'
  BY <1>2 DEF Expire, FetchingIsTrue, WaitersWillBeServed
<1>3. ASSUME NEW k \in Keys, Move(k)
      PROVE  FetchingIsTrue' /\ WaitersWillBeServed'
  BY <1>3 DEF Move, FetchingIsTrue, WaitersWillBeServed
<1>4. ASSUME NEW k \in Keys, RestAnswers(k)
      PROVE  FetchingIsTrue' /\ WaitersWillBeServed'
  <2>1. FetchingIsTrue'
    BY <1>4 DEF TypeOK, RestAnswers, FetchingIsTrue
  <2>2. WaitersWillBeServed'
    BY <1>4 DEF RestAnswers, WaitersWillBeServed
  <2> QED BY <2>1, <2>2
<1>5. ASSUME NEW k \in Keys, NEW c \in Callers, GetCached(c, k)
      PROVE  FetchingIsTrue' /\ WaitersWillBeServed'
  BY <1>5 DEF GetCached, FetchingIsTrue, WaitersWillBeServed
<1>6. ASSUME NEW k \in Keys, NEW c \in Callers, GetMissing(c, k)
      PROVE  FetchingIsTrue' /\ WaitersWillBeServed'
  <2>1. call[c] = NoCall /\ Wait(c, k) /\ StartRestFetch(k)
    BY <1>6 DEF GetMissing
  <2> QED BY <2>1, StartTyped, StartTrue, WaitServed
<1>7. ASSUME NEW k \in Keys, NEW c \in Callers, RefreshSnapshot(c, k)
      PROVE  FetchingIsTrue' /\ WaitersWillBeServed'
  <2>1. call[c] = NoCall /\ Wait(c, k) /\ StartRestFetch(k)
    BY <1>7 DEF RefreshSnapshot
  <2> QED BY <2>1, StartTyped, StartTrue, WaitServed
<1>8. CASE HandleWsUpdate
  <2>1. Head(ws) \in Update
    BY <1>8 DEF TypeOK, HandleWsUpdate
  <2>2. Deliver(Head(ws).key, Head(ws).version) /\ UNCHANGED <<task, fetching>>
    BY <1>8 DEF HandleWsUpdate
  <2>3. Head(ws).key \in Keys
    BY <2>1 DEF Update
  <2> QED BY <2>2, <2>3, DeliverServed DEF FetchingIsTrue
<1>9. CASE UNCHANGED vars
  BY <1>9 DEF vars, FetchingIsTrue, WaitersWillBeServed
<1> QED BY <1>1, <1>2, <1>3, <1>4, <1>5, <1>6, <1>7, <1>8, <1>9 DEF Next

LEMMA AlwaysIInv == Spec => []IInv
BY InitIInv, NextIInv, PTL DEF Spec

(* The marks of fetches in flight are true of every reachable state. *)
THEOREM FetchingAlwaysTrue == Spec => []FetchingIsTrue
<1>1. IInv => FetchingIsTrue
  BY DEF IInv
<1> QED BY <1>1, AlwaysIInv, PTL

(* No caller is ever left waiting without a fetch that will answer it, and    *)
(* no caller is in a list it does not wait in.                                *)
THEOREM WaitersAlwaysServed == Spec => []WaitersWillBeServed
<1>1. IInv => WaitersWillBeServed
  BY DEF IInv
<1> QED BY <1>1, AlwaysIInv, PTL

-----------------------------------------------------------------------------
(* Freshness.  What a waiting caller is owed is no newer than the book, than  *)
(* the result already read for it, and than the updates in the stream.        *)
OwedInv ==
  \A k \in Keys : \A c \in pending[k] :
    /\ call[c].owed <= book[k]
    /\ task[k].stage = "answered" /\ task[k].version # 0
         => call[c].owed <= task[k].version
    /\ \A i \in 1..Len(ws) : ws[i].key = k => call[c].owed <= ws[i].version

LEMMA WaitOwed ==
  ASSUME IInv, OwedInv, NEW c \in Callers, NEW k \in Keys, call[c] = NoCall,
         Wait(c, k), StartRestFetch(k), UNCHANGED <<book, ws>>
  PROVE  OwedInv'
<1> USE DEF IInv
<1> SUFFICES ASSUME NEW j \in Keys, NEW d \in pending'[j]
             PROVE  /\ call'[d].owed <= book[j]
                    /\ task'[j].stage = "answered" /\ task'[j].version # 0
                         => call'[d].owed <= task'[j].version
                    /\ \A i \in 1..Len(ws) :
                         ws[i].key = j => call'[d].owed <= ws[i].version
  BY DEF OwedInv
<1>1. task[k] \in Task /\ ws \in Seq(Update)
  BY DEF TypeOK
<1>2. pending'[j] = IF j = k THEN pending[k] \cup {c} ELSE pending[j]
  BY DEF TypeOK, Wait
<1>3. d \in Callers
  BY <1>2 DEF TypeOK
<1>4. task'[j] = IF j = k /\ k \notin fetching
                 THEN [stage |-> "asked", version |-> 0] ELSE task[j]
  BY DEF TypeOK, StartRestFetch
<1>5. CASE d = c
  <2>1. call'[d] = [key |-> k, owed |-> Owed(k)]
    BY <1>5 DEF TypeOK, Wait
  <2>2. j = k
    BY <1>2, <1>5 DEF WaitersWillBeServed
  <2>3. Owed(k) <= book[k]
    BY OwedIsPast
  <2>4. k \in fetching => Owed(k) = 1
    BY DEF Owed
  <2>5. task'[j].stage = "answered" /\ task'[j].version # 0
          => Owed(k) <= task'[j].version
    BY <1>1, <1>4, <2>2, <2>4 DEF Task
  <2>6. ASSUME NEW i \in 1..Len(ws), ws[i].key = k PROVE Owed(k) <= ws[i].version
    <3>1. Owed(k) = 1
      BY <2>6 DEF Owed
    <3>2. ws[i] \in Update
      BY <1>1
    <3> QED BY <3>1, <3>2 DEF Update, Version
  <2> QED BY <2>1, <2>2, <2>3, <2>5, <2>6
<1>6. CASE d # c
  <2>1. call'[d] = call[d] /\ d \in pending[j]
    BY <1>2, <1>3, <1>6 DEF TypeOK, Wait
  <2> QED BY <1>4, <2>1 DEF OwedInv
<1> QED BY <1>5, <1>6

(* Delivery leaves the callers of the other keys.                             *)
LEMMA DeliverOwed ==
  ASSUME IInv, OwedInv, NEW k \in Keys, NEW v, Deliver(k, v), book' = book,
         task' = task \/ task' = [task EXCEPT ![k] = NoTask],
         ws' = ws \/ (ws # <<>> /\ ws' = Tail(ws))
  PROVE  OwedInv'
<1> USE DEF IInv
<1> SUFFICES ASSUME NEW j \in Keys, NEW d \in pending'[j]
             PROVE  /\ call'[d].owed <= book[j]
                    /\ task'[j].stage = "answered" /\ task'[j].version # 0
                         => call'[d].owed <= task'[j].version
                    /\ \A i \in 1..Len(ws') :
                         ws'[i].key = j => call'[d].owed <= ws'[i].version
  BY DEF OwedInv
<1>1. j # k /\ d \in pending[j]
  BY DEF TypeOK, Deliver
<1>2. d \in Callers /\ d \notin pending[k]
  <2>1. d \in Callers
    BY <1>1 DEF TypeOK
  <2>2. call[d].key = j
    BY <1>1, <2>1 DEF WaitersWillBeServed
  <2> QED BY <1>1, <2>1, <2>2 DEF WaitersWillBeServed
<1>3. call'[d] = call[d] /\ task'[j] = task[j]
  BY <1>1, <1>2 DEF TypeOK, Deliver
<1>4. ASSUME NEW i \in 1..Len(ws'), ws'[i].key = j PROVE call[d].owed <= ws'[i].version
  <2>1. CASE ws' = ws
    BY <1>1, <1>4, <2>1 DEF OwedInv
  <2>2. CASE ws # <<>> /\ ws' = Tail(ws)
    <3>1. i + 1 \in 1..Len(ws) /\ ws'[i] = ws[i + 1]
      BY <2>2 DEF TypeOK
    <3> QED BY <1>1, <1>4, <3>1 DEF OwedInv
  <2> QED BY <2>1, <2>2
<1> QED BY <1>1, <1>3, <1>4 DEF OwedInv

LEMMA NextOwedInv == IInv /\ OwedInv /\ [Next]_vars => OwedInv'
<1> SUFFICES ASSUME IInv, OwedInv, [Next]_vars PROVE OwedInv'
  OBVIOUS
<1>1. ASSUME NEW k \in Keys, HandleRestResult(k) PROVE OwedInv'
  <2>1. /\ Deliver(k, task[k].version)
        /\ task' = [task EXCEPT ![k] = NoTask]
        /\ UNCHANGED <<book, ws>>
    BY <1>1 DEF HandleRestResult, DeliverResult
  <2> QED BY <2>1, DeliverOwed
<1>2. ASSUME NEW k \in Keys, Expire(k) PROVE OwedInv'
  BY <1>2 DEF Expire, OwedInv
<1>3. ASSUME NEW k \in Keys, Move(k) PROVE OwedInv'
  <2> SUFFICES ASSUME NEW j \in Keys, NEW d \in pending[j]
               PROVE  /\ call[d].owed <= book'[j]
                      /\ \A i \in 1..Len(ws') :
                           ws'[i].key = j => call[d].owed <= ws'[i].version
    BY <1>3 DEF Move, OwedInv
  <2>1. call[d].owed <= book[j]
    BY DEF OwedInv
  <2>2. d \in Callers /\ call[d] \in Call
    BY DEF IInv, TypeOK, WaitersWillBeServed
  <2>3. book[j] \in Int /\ call[d].owed \in Int
    BY <2>2 DEF IInv, TypeOK, Call, Version
  <2>4. book'[j] = IF j = k THEN book[j] + 1 ELSE book[j]
    BY <1>3 DEF Move, IInv, TypeOK
  <2>5. ASSUME NEW i \in 1..Len(ws'), ws'[i].key = j PROVE call[d].owed <= ws'[i].version
    <3>1. ws \in Seq(Update)
      BY DEF IInv, TypeOK
    <3>2. CASE i \in 1..Len(ws) /\ ws'[i] = ws[i]
      BY <2>5, <3>2 DEF OwedInv
    <3>3. CASE ws'[i] = [key |-> k, version |-> book[k] + 1]
      BY <2>1, <2>3, <2>5, <3>3
    <3>4. ws' = ws \/ ws' = Append(ws, [key |-> k, version |-> book[k] + 1])
      BY <1>3 DEF Move
    <3> QED BY <3>1, <3>2, <3>3, <3>4
  <2>6. call[d].owed <= book'[j]
    BY <2>1, <2>3, <2>4
  <2> QED BY <2>5, <2>6
<1>4. ASSUME NEW k \in Keys, RestAnswers(k) PROVE OwedInv'
  <2> SUFFICES ASSUME NEW j \in Keys, NEW d \in pending[j]
               PROVE  task'[j].stage = "answered" /\ task'[j].version # 0
                        => call[d].owed <= task'[j].version
    BY <1>4 DEF RestAnswers, OwedInv
  <2>1. PICK v \in {0, book[k]} :
          task' = [task EXCEPT ![k] = [stage |-> "answered", version |-> v]]
    BY <1>4 DEF RestAnswers
  <2>2. task'[j] = IF j = k THEN [stage |-> "answered", version |-> v] ELSE task[j]
    BY <2>1 DEF IInv, TypeOK
  <2> QED BY <2>2 DEF OwedInv
<1>5. ASSUME NEW k \in Keys, NEW c \in Callers, GetCached(c, k) PROVE OwedInv'
  BY <1>5 DEF GetCached, OwedInv
<1>6. ASSUME NEW k \in Keys, NEW c \in Callers, GetMissing(c, k) \/ RefreshSnapshot(c, k)
      PROVE  OwedInv'
  BY <1>6, WaitOwed DEF GetMissing, RefreshSnapshot
<1>7. CASE HandleWsUpdate
  <2>1. Head(ws) \in Update
    BY <1>7 DEF HandleWsUpdate, IInv, TypeOK
  <2>2. Head(ws).key \in Keys
    BY <2>1 DEF Update
  <2>3. /\ Deliver(Head(ws).key, Head(ws).version)
        /\ ws # <<>> /\ ws' = Tail(ws)
        /\ UNCHANGED <<book, task>>
    BY <1>7 DEF HandleWsUpdate
  <2> QED BY <2>2, <2>3, DeliverOwed
<1>8. CASE UNCHANGED vars
  BY <1>8 DEF vars, OwedInv
<1> QED BY <1>1, <1>2, <1>3, <1>4, <1>5, <1>6, <1>7, <1>8 DEF Next

(* A caller leaves its list with the book of the result or of the update.     *)
LEMMA StepServesFresh ==
  ASSUME IInv, OwedInv, [Next]_vars, NEW c \in Callers,
         call[c] # NoCall, call'[c] = NoCall, answer'[c] # 0
  PROVE  answer'[c] >= call[c].owed
<1>1. call[c] \in Call
  BY DEF IInv, TypeOK
<1>2. ASSUME NEW k \in Keys, HandleRestResult(k) PROVE answer'[c] >= call[c].owed
  <2>1. c \in pending[k] /\ answer'[c] = task[k].version /\ task[k].stage = "answered"
    BY <1>2 DEF HandleRestResult, DeliverResult, Deliver
  <2>2. call[c].owed <= task[k].version /\ task[k].version \in Int
    BY <2>1 DEF OwedInv, IInv, TypeOK, Task
  <2> QED BY <1>1, <2>1, <2>2 DEF Call, Version
<1>3. CASE HandleWsUpdate
  <2>1. ws \in Seq(Update) /\ ws # <<>>
    BY <1>3 DEF HandleWsUpdate, IInv, TypeOK
  <2>2. 1 \in 1..Len(ws) /\ Head(ws) = ws[1] /\ ws[1] \in Update
    BY <2>1
  <2>3. c \in pending[ws[1].key] /\ answer'[c] = ws[1].version
    BY <1>3, <2>2 DEF HandleWsUpdate, Deliver
  <2>4. call[c].owed <= ws[1].version
    BY <2>2, <2>3 DEF OwedInv, Update
  <2> QED BY <1>1, <2>2, <2>3, <2>4 DEF Call, Version, Update
<1>4. ASSUME NEW k \in Keys, NEW d \in Callers,
             GetMissing(d, k) \/ RefreshSnapshot(d, k)
      PROVE  FALSE
  <2>1. d # c
    BY <1>4 DEF GetMissing, RefreshSnapshot
  <2> QED BY <1>4, <2>1 DEF GetMissing, RefreshSnapshot, Wait, IInv, TypeOK
<1>5. ASSUME NEW k \in Keys,
             Expire(k) \/ Move(k) \/ RestAnswers(k) \/ (\E d \in Callers : GetCached(d, k))
      PROVE  FALSE
  BY <1>5 DEF Expire, Move, RestAnswers, GetCached
<1>6. ~UNCHANGED vars
  BY DEF vars
<1> QED BY <1>2, <1>3, <1>4, <1>5, <1>6 DEF Next

(* A caller that waits, and neither joined a fetch nor found an update in the *)
(* stream, gets a book no older than its call.                                *)
THEOREM WaitersAlwaysGetFreshBooks == Spec => WaitersGetFreshBooks
<1>1. Init => OwedInv
  BY DEF Init, OwedInv
<1>2. Spec => []OwedInv
  BY <1>1, AlwaysIInv, NextOwedInv, PTL DEF Spec
<1>3. IInv /\ OwedInv /\ [Next]_vars =>
        [\A c \in Callers :
           call[c] # NoCall /\ call'[c] = NoCall /\ answer'[c] # 0
           => answer'[c] >= call[c].owed]_vars
  BY StepServesFresh
<1> QED BY <1>2, <1>3, AlwaysIInv, PTL DEF Spec, WaitersGetFreshBooks

-----------------------------------------------------------------------------
(* The order book of a depth stream: the messages in the socket are what     *)
(* turns the policy's own book into the exchange's, one book after another.  *)
Books(g) ==
  /\ g[0] = local /\ g[Len(wire)] = market
  /\ \A i \in 1..Len(wire) : g[i] = Depth!Applied(g[i - 1], wire[i])

Chained == socket = "subscribed" => \E g \in [0..Len(wire) -> Depth!Book] : Books(g)

Quiet == socket # "subscribed" => wire = <<>>

(* The last book that had room is the last the price manager is given. *)
LastGiven ==
  ~dropped => IF channel = <<>> THEN cached = local ELSE channel[Len(channel)] = local

(* A whole book gives no quantity of 0. *)
Told == {m \in Depth!Message : m.snapshot => m.levels \in Depth!Book}

DepthInv ==
  /\ Depth!TypeOK /\ wire \in Seq(Told)
  /\ Chained /\ Quiet /\ LastGiven

LEMMA DepthConstants ==
  MaxQty \in Nat \ {0} /\ MaxWire \in Nat \ {0} /\ Room \in Nat \ {0}
BY DepthAssumption DEF Depth!DepthBookAssumption

LEMMA EmptySeq == ASSUME NEW S PROVE <<>> \in Seq(S) /\ Len(<<>>) = 0
OBVIOUS

LEMMA OneLeft ==
  ASSUME NEW S, NEW q \in Seq(S), q # <<>>, Tail(q) = <<>> PROVE Len(q) = 1
<1>1. Len(q) \in Nat /\ Len(Tail(q)) = Len(q) - 1
  OBVIOUS
<1>2. Len(Tail(q)) = 0
  BY EmptySeq
<1> QED BY <1>1, <1>2

Levels == UNION {[Q -> 0..MaxQty] : Q \in SUBSET Prices}

LEMMA IsBook ==
  ASSUME NEW Q \in SUBSET Prices, NEW b \in [Q -> 1..MaxQty]
  PROVE  b \in Depth!Book
BY DEF Depth!Book

LEMMA BookIs ==
  ASSUME NEW b \in Depth!Book
  PROVE  DOMAIN b \in SUBSET Prices /\ b \in [DOMAIN b -> 1..MaxQty]
BY DEF Depth!Book

LEMMA LevelsAre ==
  ASSUME NEW l \in Levels
  PROVE  DOMAIN l \in SUBSET Prices /\ l \in [DOMAIN l -> 0..MaxQty]
BY DEF Levels

LEMMA EmptyBook == Depth!Empty \in Depth!Book
<1>1. Depth!Empty \in [{} -> 1..MaxQty]
  BY DEF Depth!Empty
<1> QED BY <1>1, IsBook

LEMMA DeltaIsBook ==
  ASSUME NEW b \in Depth!Book, NEW l \in Levels
  PROVE  Depth!Delta(b, l) \in Depth!Book
<1> DEFINE Q == {p \in DOMAIN b \cup DOMAIN l : p \in DOMAIN l => l[p] # 0}
           f == [p \in DOMAIN b \cup DOMAIN l |-> IF p \in DOMAIN l THEN l[p] ELSE b[p]]
<1>1. Depth!Delta(b, l) = [p \in Q |-> f[p]]
  BY DEF Depth!Delta, Depth!Restrict
<1>2. Q \in SUBSET Prices
  BY BookIs, LevelsAre
<1>3. ASSUME NEW p \in Q PROVE f[p] \in 1..MaxQty
  <2>1. CASE p \in DOMAIN l
    <3>1. l[p] \in 0..MaxQty /\ l[p] # 0 /\ f[p] = l[p]
      BY <2>1, LevelsAre
    <3> QED BY <3>1, DepthConstants
  <2>2. CASE p \notin DOMAIN l
    <3>1. p \in DOMAIN b /\ f[p] = b[p]
      BY <2>2
    <3> QED BY <3>1, BookIs
  <2> QED BY <2>1, <2>2
<1>4. [p \in Q |-> f[p]] \in [Q -> 1..MaxQty]
  BY <1>3
<1> QED BY <1>1, <1>2, <1>4, IsBook

LEMMA AppliedIsBook ==
  ASSUME NEW b \in Depth!Book, NEW m \in Told
  PROVE  Depth!Applied(b, m) \in Depth!Book
<1>1. m.levels \in Levels /\ (m.snapshot => m.levels \in Depth!Book)
  BY DEF Told, Depth!Message, Levels
<1> QED BY <1>1, DeltaIsBook DEF Depth!Applied, Depth!Snapshot

LEMMA BookIsLevels ==
  ASSUME NEW b \in Depth!Book
  PROVE  b \in Levels
<1>1. DOMAIN b \in SUBSET Prices /\ b \in [DOMAIN b -> 0..MaxQty]
  BY BookIs, DepthConstants
<1> QED BY <1>1 DEF Levels

LEMMA SnapshotTold ==
  ASSUME NEW b \in Depth!Book
  PROVE  /\ [snapshot |-> TRUE, levels |-> b] \in Told
         /\ \A c : Depth!Applied(c, [snapshot |-> TRUE, levels |-> b]) = b
<1>1. [snapshot |-> TRUE, levels |-> b] \in Depth!Message
  BY BookIsLevels DEF Depth!Message, Levels
<1> QED BY <1>1 DEF Told, Depth!Applied, Depth!Snapshot

LEMMA ChangeTold ==
  ASSUME NEW l \in Levels
  PROVE  /\ [snapshot |-> FALSE, levels |-> l] \in Told
         /\ \A c : Depth!Applied(c, [snapshot |-> FALSE, levels |-> l]) = Depth!Delta(c, l)
<1>1. [snapshot |-> FALSE, levels |-> l] \in Depth!Message
  BY DEF Depth!Message, Levels
<1> QED BY <1>1 DEF Told, Depth!Applied

LEMMA InitDepthInv == Depth!Init => DepthInv
<1> SUFFICES ASSUME Depth!Init PROVE DepthInv
  OBVIOUS
<1>1. dropped = FALSE /\ dropped \in BOOLEAN
  BY Zenon DEF Depth!Init
<1>2. wire \in Seq(Told) /\ wire \in Seq(Depth!Message)
  BY DEF Depth!Init
<1>3. channel \in Seq(Depth!Book) /\ Len(channel) <= Room
  BY DepthConstants DEF Depth!Init
<1>4. Depth!TypeOK
  BY <1>1, <1>2, <1>3, EmptyBook DEF Depth!Init, Depth!TypeOK
<1>5. Chained /\ Quiet /\ LastGiven
  BY DEF Depth!Init, Chained, Quiet, LastGiven
<1> QED BY <1>2, <1>4, <1>5 DEF DepthInv

LEMMA SubscribeKeeps == ASSUME DepthInv, Depth!Subscribe PROVE DepthInv'
<1> DEFINE m == [snapshot |-> TRUE, levels |-> market]
<1>0. market \in Depth!Book /\ local \in Depth!Book /\ wire' = <<m>>
  BY DEF DepthInv, Depth!TypeOK, Depth!Subscribe
<1>1. m \in Told /\ Depth!Applied(local, m) = market
  BY <1>0, SnapshotTold
<1>2. m \in Depth!Message
  BY <1>1 DEF Told
<1>3. /\ wire' \in Seq(Told) /\ wire' \in Seq(Depth!Message)
      /\ Len(wire') = 1 /\ wire'[1] = m
  BY <1>0, <1>1, <1>2
<1>4. UNCHANGED <<feed, market, local, channel, cached, dropped>> /\ socket' = "subscribed"
  BY DEF Depth!Subscribe
<1>5. PICK g : g = [i \in 0..1 |-> IF i = 0 THEN local ELSE market]
  OBVIOUS
<1>6. g \in [0..Len(wire') -> Depth!Book] /\ g[0] = local /\ g[1] = market
  BY <1>0, <1>3, <1>5
<1>7. Chained'
  <2>1. ASSUME NEW i \in 1..1 PROVE i = 1 /\ i - 1 = 0
    OBVIOUS
  <2>2. \A i \in 1..1 : g[i] = Depth!Applied(g[i - 1], wire'[i])
    BY <1>1, <1>3, <1>6, <2>1
  <2>3. Books(g)'
    BY <1>3, <1>4, <1>6, <2>2 DEF Books
  <2> QED BY <1>6, <2>3 DEF Chained
<1>8. Quiet' /\ LastGiven' /\ Depth!TypeOK'
  BY <1>3, <1>4 DEF DepthInv, Quiet, LastGiven, Depth!TypeOK
<1> QED BY <1>3, <1>7, <1>8 DEF DepthInv

LEMMA ParseKeeps == ASSUME DepthInv, Depth!ParseMessage PROVE DepthInv'
<1> DEFINE nextBook == Depth!Applied(local, Head(wire))
           n == Len(wire)
<1>0. /\ wire \in Seq(Told) /\ wire # <<>> /\ n \in Nat /\ n >= 1
      /\ wire' = Tail(wire) /\ local' = nextBook /\ local \in Depth!Book
      /\ UNCHANGED <<feed, market, socket, cached>>
  BY DEF DepthInv, Depth!TypeOK, Depth!ParseMessage
<1>1. /\ wire' \in Seq(Told) /\ Len(wire') = n - 1
      /\ \A i \in 1..(n - 1) : wire'[i] = wire[i + 1]
      /\ Head(wire) = wire[1] /\ Head(wire) \in Told
  BY <1>0
<1>2. nextBook \in Depth!Book
  BY <1>0, <1>1, AppliedIsBook
<1>3. socket = "subscribed"
  BY <1>0 DEF DepthInv, Quiet
<1>4. PICK g \in [0..n -> Depth!Book] : Books(g)
  BY <1>3 DEF DepthInv, Chained
<1>5. PICK h : h = [i \in 0..(n - 1) |-> g[i + 1]]
  OBVIOUS
<1>6. h \in [0..Len(wire') -> Depth!Book] /\ Books(h)'
  <2>0. h \in [0..Len(wire') -> Depth!Book]
    <3>1. \A i \in 0..(n - 1) : i + 1 \in 0..n
      BY <1>0
    <3> QED BY <1>1, <1>5, <3>1
  <2>1. h[0] = local'
    <3>1. h[0] = g[1] /\ g[1] = Depth!Applied(g[0], wire[1]) /\ g[0] = local
      BY <1>0, <1>4, <1>5 DEF Books
    <3> QED BY <1>0, <1>1, <3>1
  <2>2. h[n - 1] = market'
    <3>1. h[n - 1] = g[n] /\ g[n] = market
      BY <1>0, <1>4, <1>5 DEF Books
    <3> QED BY <1>0, <3>1
  <2>3. ASSUME NEW i \in 1..(n - 1) PROVE h[i] = Depth!Applied(h[i - 1], wire'[i])
    <3>1. h[i] = g[i + 1] /\ h[i - 1] = g[i] /\ i + 1 \in 1..n /\ (i + 1) - 1 = i
      BY <1>0, <1>5
    <3>2. g[i + 1] = Depth!Applied(g[(i + 1) - 1], wire[i + 1])
      BY <1>4, <3>1 DEF Books
    <3> QED BY <1>1, <3>1, <3>2
  <2>4. Books(h)'
    BY <1>1, <2>1, <2>2, <2>3 DEF Books
  <2> QED BY <2>0, <2>4
<1>7. Chained' /\ Quiet'
  BY <1>0, <1>3, <1>6 DEF Chained, Quiet
<1>8. /\ channel \in Seq(Depth!Book) /\ Len(channel) <= Room /\ Len(channel) \in Nat
      /\ Room \in Nat
      /\ dropped' = (Len(channel) = Room)
      /\ channel' = IF Len(channel) < Room THEN Append(channel, nextBook) ELSE channel
  BY DepthConstants DEF DepthInv, Depth!TypeOK, Depth!ParseMessage
<1>9. /\ channel' \in Seq(Depth!Book) /\ Len(channel') <= Room
      /\ ~dropped' => channel' # <<>> /\ channel'[Len(channel')] = nextBook
  <2> HIDE DEF nextBook
  <2>1. CASE Len(channel) < Room
    <3>1. /\ channel' \in Seq(Depth!Book) /\ Len(channel') = Len(channel) + 1
          /\ channel'[Len(channel) + 1] = nextBook
      BY <1>2, <1>8, <2>1
    <3> QED BY <1>8, <2>1, <3>1
  <2>2. CASE Len(channel) = Room
    <3>1. dropped' /\ channel' = channel
      BY <1>8, <2>2
    <3> QED BY <1>8, <3>1
  <2> QED BY <1>8, <2>1, <2>2
<1>10. LastGiven'
  BY <1>0, <1>9 DEF LastGiven
<1>11. dropped' \in BOOLEAN
  BY <1>8, Zenon
<1>12. wire' \in Seq(Depth!Message)
  BY <1>0 DEF DepthInv, Depth!TypeOK
<1>13. Depth!TypeOK'
  BY <1>0, <1>2, <1>9, <1>11, <1>12 DEF DepthInv, Depth!TypeOK
<1> QED BY <1>1, <1>7, <1>10, <1>13 DEF DepthInv

LEMMA MoveKeeps ==
  ASSUME DepthInv, NEW l \in Levels, Depth!Move(l)
  PROVE  DepthInv'
<1> DEFINE nextBook == Depth!Delta(market, l)
           n == Len(wire)
<1>0. /\ wire \in Seq(Told) /\ wire \in Seq(Depth!Message) /\ n \in Nat
      /\ market \in Depth!Book /\ local \in Depth!Book /\ market' = nextBook
      /\ UNCHANGED <<feed, socket, local, channel, cached, dropped>>
  BY DEF DepthInv, Depth!TypeOK, Depth!Move
<1>1. nextBook \in Depth!Book
  BY <1>0, DeltaIsBook
<1>2. Quiet' /\ LastGiven'
  BY <1>0 DEF DepthInv, Quiet, LastGiven, Depth!Move
<1>3. CASE socket # "subscribed"
  <2>1. wire' = wire
    BY <1>3 DEF Depth!Move
  <2>2. Chained'
    BY <1>0, <1>3 DEF Chained
  <2> QED BY <1>0, <1>1, <1>2, <2>1, <2>2 DEF DepthInv, Depth!TypeOK
<1>4. CASE socket = "subscribed"
  <2>1. PICK m \in Told : wire' = Append(wire, m) /\ Depth!Applied(market, m) = nextBook
    <3>1. CASE feed = "books"
      <4>1. wire' = Append(wire, [snapshot |-> TRUE, levels |-> nextBook])
        BY <1>4, <3>1 DEF Depth!Move
      <4> HIDE DEF nextBook
      <4> QED BY <1>1, <4>1, SnapshotTold
    <3>2. CASE feed # "books"
      <4>1. wire' = Append(wire, [snapshot |-> FALSE, levels |-> l])
        BY <1>4, <3>2 DEF Depth!Move
      <4> QED BY <4>1, ChangeTold
    <3> QED BY <3>1, <3>2
  <2>2. m \in Depth!Message
    BY DEF Told
  <2>3. /\ wire' \in Seq(Told) /\ wire' \in Seq(Depth!Message) /\ Len(wire') = n + 1
        /\ wire'[n + 1] = m /\ \A i \in 1..n : wire'[i] = wire[i]
    BY <1>0, <2>1, <2>2
  <2>4. PICK g \in [0..n -> Depth!Book] : Books(g)
    BY <1>4 DEF DepthInv, Chained
  <2>5. PICK h : h = [i \in 0..(n + 1) |-> IF i = n + 1 THEN nextBook ELSE g[i]]
    OBVIOUS
  <2>6. h \in [0..Len(wire') -> Depth!Book]
    <3>1. \A i \in 0..(n + 1) : i # n + 1 => i \in 0..n
      BY <1>0
    <3> HIDE DEF nextBook
    <3> QED BY <1>1, <2>3, <2>5, <3>1
  <2>7. Books(h)'
    <3>1. \A i \in 0..n : h[i] = g[i]
      BY <1>0, <2>5
    <3>2. h[0] = local' /\ h[n + 1] = market'
      <4>1. 0 \in 0..n /\ n + 1 \in 0..(n + 1) /\ g[0] = local
        BY <1>0, <2>4 DEF Books
      <4>2. h[n + 1] = nextBook
        BY <2>5, <4>1
      <4> QED BY <1>0, <3>1, <4>1, <4>2
    <3>3. ASSUME NEW i \in 1..(n + 1) PROVE h[i] = Depth!Applied(h[i - 1], wire'[i])
      <4>1. CASE i = n + 1
        <5>1. h[i - 1] = g[n] /\ g[n] = market /\ wire'[i] = m
          BY <1>0, <2>3, <2>4, <3>1, <4>1 DEF Books
        <5>2. h[i] = nextBook
          BY <1>0, <2>5, <4>1
        <5> QED BY <2>1, <5>1, <5>2
      <4>2. CASE i # n + 1
        <5>1. i \in 1..n /\ i \in 0..n /\ i - 1 \in 0..n
          BY <1>0, <4>2
        <5>2. g[i] = Depth!Applied(g[i - 1], wire[i])
          BY <2>4, <5>1 DEF Books
        <5> QED BY <2>3, <3>1, <5>1, <5>2
      <4> QED BY <4>1, <4>2
    <3> QED BY <2>3, <3>2, <3>3 DEF Books
  <2>8. Chained'
    <3> QED BY <2>6, <2>7 DEF Chained
  <2> QED BY <1>0, <1>1, <1>2, <2>3, <2>8 DEF DepthInv, Depth!TypeOK
<1> QED BY <1>3, <1>4

LEMMA UpdateKeeps == ASSUME DepthInv, Depth!HandleWsUpdate PROVE DepthInv'
<1>0. UNCHANGED <<feed, market, socket, wire, local, dropped>>
  BY DEF Depth!HandleWsUpdate
<1>1. /\ channel \in Seq(Depth!Book) /\ Len(channel) <= Room /\ channel # <<>>
      /\ channel' = Tail(channel) /\ cached' = Head(channel) /\ Room \in Nat
  BY DepthConstants DEF DepthInv, Depth!TypeOK, Depth!HandleWsUpdate
<1>2. /\ channel' \in Seq(Depth!Book) /\ Len(channel') <= Room /\ cached' \in Depth!Book
      /\ Len(channel') = Len(channel) - 1 /\ Head(channel) = channel[1]
      /\ \A i \in 1..Len(channel') : channel'[i] = channel[i + 1]
  BY <1>1
<1>3. LastGiven'
  <2> SUFFICES ASSUME ~dropped
               PROVE  IF channel' = <<>> THEN cached' = local ELSE channel'[Len(channel')] = local
    BY <1>0 DEF LastGiven
  <2>1. channel[Len(channel)] = local
    BY <1>1 DEF DepthInv, LastGiven
  <2>2. CASE channel' = <<>>
    <3>1. Len(channel) = 1
      BY <1>1, <2>2, OneLeft
    <3>2. Head(channel) = channel[1] /\ cached' = Head(channel)
      BY <1>1, <1>2
    <3>3. cached' = local
      BY <2>1, <3>1, <3>2
    <3> QED BY <2>2, <3>3
  <2>3. CASE channel' # <<>>
    <3>1. Len(channel') \in 1..Len(channel') /\ Len(channel') + 1 = Len(channel)
      BY <1>1, <1>2, <2>3
    <3> QED BY <1>2, <2>1, <2>3, <3>1
  <2> QED BY <2>2, <2>3
<1>4. Chained' /\ Quiet'
  BY <1>0 DEF DepthInv, Chained, Books, Quiet
<1> QED BY <1>0, <1>2, <1>3, <1>4 DEF DepthInv, Depth!TypeOK

LEMMA NextDepthInv == ASSUME DepthInv, [Depth!Next]_(Depth!vars) PROVE DepthInv'
<1>1. CASE Depth!Connect
  <2>1. UNCHANGED <<feed, market, wire, local, channel, cached, dropped>> /\ socket' = "up"
    BY <1>1 DEF Depth!Connect
  <2>2. wire = <<>>
    BY <1>1 DEF Depth!Connect, DepthInv, Quiet
  <2> QED BY <2>1, <2>2 DEF DepthInv, Depth!TypeOK, Chained, Quiet, LastGiven
<1>2. CASE Depth!Disconnect
  <2>1. /\ UNCHANGED <<feed, market, local, channel, cached, dropped>>
        /\ socket' = "down" /\ wire' = <<>>
    BY <1>2 DEF Depth!Disconnect
  <2>2. wire' \in Seq(Told) /\ wire' \in Seq(Depth!Message)
    BY <2>1
  <2> QED BY <2>1, <2>2 DEF DepthInv, Depth!TypeOK, Chained, Quiet, LastGiven
<1>3. ASSUME NEW p \in Prices, NEW q \in 0..MaxQty, Depth!Move([r \in {p} |-> q]) PROVE DepthInv'
  <2>1. {p} \in SUBSET Prices /\ [r \in {p} |-> q] \in [{p} -> 0..MaxQty]
    OBVIOUS
  <2>2. [r \in {p} |-> q] \in Levels
    BY <2>1 DEF Levels
  <2> QED BY <1>3, <2>2, MoveKeeps
<1>4. CASE UNCHANGED Depth!vars
  BY <1>4 DEF Depth!vars, DepthInv, Depth!TypeOK, Chained, Books, Quiet, LastGiven
<1> QED BY <1>1, <1>2, <1>3, <1>4, SubscribeKeeps, ParseKeeps, UpdateKeeps DEF Depth!Next

LEMMA DepthInvBook == DepthInv => BookIsTheMarkets
<1> SUFFICES ASSUME DepthInv, socket = "subscribed", wire = <<>>, channel = <<>>, ~dropped
             PROVE  cached = market
  BY DEF BookIsTheMarkets, Depth!BookIsTheMarkets
<1>1. PICK g \in [0..Len(wire) -> Depth!Book] : Books(g)
  BY DEF DepthInv, Chained
<1>2. Len(wire) = 0
  OBVIOUS
<1> QED BY <1>1, <1>2 DEF DepthInv, LastGiven, Books

(* Whatever was disconnected, missed or reordered with changes of the        *)
(* market, the price manager's book is the exchange's once all messages are  *)
(* taken, unless its channel had no room for the last one (bybit/ws.rs       *)
(* 96-148, 202-267).                                                         *)
THEOREM BookIsAlwaysTheMarkets == Depth!Spec => []BookIsTheMarkets
<1> QED BY InitDepthInv, NextDepthInv, DepthInvBook, PTL DEF Depth!Spec

LEMMA DepthTypeCorrect == Depth!Spec => []Depth!TypeOK
<1>1. DepthInv => Depth!TypeOK
  BY DEF DepthInv
<1> QED BY InitDepthInv, NextDepthInv, <1>1, PTL DEF Depth!Spec

-----------------------------------------------------------------------------
(* The positions *)
LEMMA PositionTyped ==
  Position!TypeOK /\ [Position!Next]_(Position!vars) => Position!TypeOK'
<1> SUFFICES ASSUME Position!TypeOK, [Position!Next]_(Position!vars) PROVE Position!TypeOK'
  OBVIOUS
<1>0. /\ Sizes \subseteq Int \ {0} /\ MaxChanges \in Nat /\ MaxRestarts \in Nat
      /\ Position!Absent \in Position!Stored /\ Position!Absent.size = 0
  BY PositionAssumption
     DEF Position!PositionManagerAssumption, Position!Absent, Position!Stored, Position!ASize
<1> USE DEF Position!TypeOK
<1>1. ASSUME NEW k \in Instruments, Position!Trade(k) PROVE Position!TypeOK'
  <2>1. PICK s \in Position!ASize :
          /\ pos' = [pos EXCEPT ![k] = [size |-> s, version |-> pos[k].version + 1]]
          /\ \/ patches' = Append(patches, [key |-> k, size |-> s]) /\ UNCHANGED missed
             \/ missed' = missed \cup {k} /\ UNCHANGED patches
    BY <1>1 DEF Position!Trade
  <2>2. pos[k].version \in 0..MaxChanges /\ pos[k].version < MaxChanges
    BY <1>1 DEF Position!Trade, Position!Position
  <2>3. pos[k].version + 1 \in 0..MaxChanges
    BY <1>0, <2>2
  <2>4. pos' \in [Instruments -> Position!Position]
    <3>1. [size |-> s, version |-> pos[k].version + 1] \in Position!Position
      BY <2>3 DEF Position!Position
    <3> QED BY <2>1, <3>1
  <2>5. patches' \in Seq(Position!Patch) /\ missed' \subseteq Instruments
    <3>1. [key |-> k, size |-> s] \in Position!Patch
      BY DEF Position!Patch
    <3>2. CASE patches' = Append(patches, [key |-> k, size |-> s]) /\ UNCHANGED missed
      BY <3>1, <3>2
    <3>3. CASE missed' = missed \cup {k} /\ UNCHANGED patches
      BY <3>3
    <3> QED BY <2>1, <3>2, <3>3
  <2> QED BY <1>1, <2>4, <2>5 DEF Position!Trade
<1>2. CASE Position!FetchPositions
  BY <1>2 DEF Position!FetchPositions
<1>3. CASE Position!ApplyWsPatch
  <2> DEFINE k == Head(patches).key
             s == Head(patches).size
  <2>1. /\ patches \in Seq(Position!Patch) /\ patches # <<>> /\ patches' = Tail(patches)
        /\ store' = [store EXCEPT ![k] = Position!Patched(Head(patches))]
        /\ published' = [published EXCEPT ![k] = s]
        /\ UNCHANGED <<pos, syncs, missed, restarts>>
    BY <1>3 DEF Position!ApplyWsPatch
  <2>2. Head(patches) \in Position!Patch /\ patches' \in Seq(Position!Patch)
    BY <2>1
  <2>3. k \in Instruments /\ s \in Position!ASize
    BY <2>2 DEF Position!Patch
  <2>4. /\ Position!Patched(Head(patches)) \in Position!Stored
        /\ Position!Patched(Head(patches)).size = 0
             => Position!Patched(Head(patches)) = Position!Absent
    <3>1. CASE s = 0
      BY <1>0, <3>1 DEF Position!Patched
    <3>2. CASE s # 0
      <4>1. store[k].margin \in 0..MaxChanges
        BY <2>3 DEF Position!Stored
      <4>2. Position!Patched(Head(patches)) = [size |-> s, margin |-> store[k].margin]
        BY <3>2 DEF Position!Patched
      <4> QED BY <2>3, <3>2, <4>1, <4>2 DEF Position!Stored
    <3> QED BY <3>1, <3>2
  <2> HIDE DEF k, s
  <2> QED BY <2>1, <2>2, <2>3, <2>4
<1>4. CASE Position!SyncPositions
  <2>1. /\ syncs \in Seq([Instruments -> Position!Position]) /\ syncs # <<>>
        /\ syncs' = Tail(syncs)
        /\ store' = [k \in Instruments |-> Position!Synced(k, Head(syncs)[k])]
        /\ UNCHANGED <<pos, patches, published, missed, restarts>>
    BY <1>4 DEF Position!SyncPositions
  <2>2. /\ Head(syncs) \in [Instruments -> Position!Position]
        /\ syncs' \in Seq([Instruments -> Position!Position])
    BY <2>1
  <2>3. ASSUME NEW k \in Instruments
        PROVE  /\ Position!Synced(k, Head(syncs)[k]) \in Position!Stored
               /\ Position!Synced(k, Head(syncs)[k]).size = 0
                    => Position!Synced(k, Head(syncs)[k]) = Position!Absent
    <3> DEFINE f == Head(syncs)[k]
    <3>1. /\ f.size \in Position!ASize /\ f.version \in 0..MaxChanges
          /\ store[k].size \in Position!ASize
      BY <2>2 DEF Position!Position, Position!Stored
    <3> HIDE DEF f
    <3>2. CASE f.size = 0
      BY <1>0, <3>2 DEF Position!Synced, f
    <3>3. CASE f.size # 0 /\ store[k].size # 0
      <4>1. Position!Synced(k, f) = [size |-> store[k].size, margin |-> f.version]
        BY <3>3 DEF Position!Synced
      <4> QED BY <3>1, <3>3, <4>1 DEF Position!Stored, f
    <3>4. CASE f.size # 0 /\ store[k].size = 0
      <4>1. Position!Synced(k, f) = [size |-> f.size, margin |-> f.version]
        BY <3>4 DEF Position!Synced
      <4> QED BY <3>1, <3>4, <4>1 DEF Position!Stored, f
    <3> QED BY <3>2, <3>3, <3>4
  <2> QED BY <2>1, <2>2, <2>3
<1>5. CASE Position!Restart
  <2>1. restarts' \in 0..MaxRestarts
    BY <1>0, <1>5 DEF Position!Restart
  <2> QED BY <1>0, <1>5, <2>1 DEF Position!Restart
<1>6. CASE UNCHANGED Position!vars
  BY <1>6 DEF Position!vars
<1> QED BY <1>1, <1>2, <1>3, <1>4, <1>5, <1>6 DEF Position!Next

LEMMA PositionTypeCorrect == Position!Spec => []Position!TypeOK
<1>1. Position!Init => Position!TypeOK
  BY PositionAssumption
     DEF Position!PositionManagerAssumption, Position!Init, Position!TypeOK, Position!Position,
         Position!Stored, Position!Absent, Position!ASize
<1> QED BY <1>1, PositionTyped, PTL DEF Position!Spec

-----------------------------------------------------------------------------
(* The private stream *)
LEMMA StreamTyped == Stream!TypeOK /\ [Stream!Next]_(Stream!vars) => Stream!TypeOK'
<1> SUFFICES ASSUME Stream!TypeOK, [Stream!Next]_(Stream!vars) PROVE Stream!TypeOK'
  OBVIOUS
<1>0. Places \in Nat \ {0} /\ MaxOutages \in Nat
  BY StreamAssumption DEF Stream!UserDataStreamAssumption
<1> USE DEF Stream!TypeOK
<1>1. ASSUME Stream!Fine \/ Stream!Fails PROVE outages' \in 0..MaxOutages
  BY <1>0, <1>1 DEF Stream!Fine, Stream!Fails
<1>2. ASSUME Stream!Keeps \/ Stream!Hangs
      PROVE  /\ session' \in {"none", "new", "live", "deaf", "closed", "dead"}
             /\ frames' \in Seq(Stream!Topic)
  <2>1. CASE Stream!Keeps
    BY <2>1 DEF Stream!Keeps
  <2>2. CASE Stream!Hangs
    <3>1. frames' \in Seq(Stream!Topic)
      BY <2>2, EmptySeq DEF Stream!Hangs
    <3> QED BY <2>2, <3>1 DEF Stream!Hangs
  <2> QED BY <1>2, <2>1, <2>2
<1>4. ASSUME NEW t \in Stream!Topic, Stream!Listen(t) PROVE Stream!TypeOK'
  BY <1>4 DEF Stream!Listen, Stream!ensure_user_data, Stream!Topics
<1>5. ASSUME NEW t \in Stream!Topic, Stream!Relay(t) PROVE Stream!TypeOK'
  <2>1. reports[t] - 1 \in 0..Places
    BY <1>0, <1>5 DEF Stream!Relay
  <2> QED BY <1>5, <2>1 DEF Stream!Relay
<1>6. ASSUME NEW t \in Stream!Topic, Stream!Read(t) PROVE Stream!TypeOK'
  <2>1. reports' \in [Stream!Topic -> 0..Places]
    <3>1. reports' = [reports EXCEPT ![t] = IF reports[t] < Places THEN reports[t] + 1
                                            ELSE reports[t]]
      BY <1>6 DEF Stream!Read, Stream!send, Stream!try_send
    <3>2. (IF reports[t] < Places THEN reports[t] + 1 ELSE reports[t]) \in 0..Places
      BY <1>0
    <3> QED BY <3>1, <3>2
  <2>2. frames' \in Seq(Stream!Topic)
    BY <1>6 DEF Stream!Read
  <2> QED BY <1>6, <2>1, <2>2 DEF Stream!Read
<1>7. ASSUME NEW t \in Stream!Topic, Stream!Report(t) PROVE Stream!TypeOK'
  BY <1>7 DEF Stream!Report
<1>8. CASE Stream!Supervise
  <2>1. ASSUME NEW s \in {"prepare", "connect", "handshake", "open", "wait"}, Stream!Goes(s),
               Stream!Fine \/ Stream!Fails,
               session' \in {"none", "new", "live", "deaf", "closed", "dead"},
               frames' \in Seq(Stream!Topic)
        PROVE  Stream!TypeOK'
    BY <1>1, <2>1 DEF Stream!Goes
  <2>2. CASE Stream!Prepare \/ Stream!PrepareFails \/ Stream!ConnectFails \/ Stream!Waited
    BY <1>2, <2>1, <2>2
       DEF Stream!Prepare, Stream!PrepareFails, Stream!ConnectFails, Stream!Waited
  <2>3. CASE Stream!Connect
    BY <2>1, <2>3 DEF Stream!Connect
  <2>4. CASE Stream!Shake
    BY <2>1, <2>4 DEF Stream!Shake
  <2>5. CASE Stream!ShakeFails
    BY <1>2, <2>1, <2>5 DEF Stream!ShakeFails
  <2>6. CASE Stream!KeepAlive \/ Stream!PingFails \/ Stream!ReadClose
    BY <1>2, <2>1, <2>6
       DEF Stream!KeepAlive, Stream!PingFails, Stream!ReadClose, Stream!AfterClose
  <2> QED BY <1>8, <2>2, <2>3, <2>4, <2>5, <2>6 DEF Stream!Supervise
<1>9. CASE Stream!Admit \/ Stream!Reject \/ Stream!KeyExpires \/ Stream!Noticed
  <2> USE DEF Stream!Admit, Stream!Reject, Stream!KeyExpires, Stream!Noticed
  <2>1. outages' \in 0..MaxOutages
    BY <1>1, <1>9
  <2> QED BY <1>9, <2>1 DEF Stream!Becomes
<1>10. CASE Stream!Close \/ Stream!HalfOpen
  <2> USE DEF Stream!Close, Stream!HalfOpen, Stream!Breaks
  <2>1. outages' \in 0..MaxOutages
    BY <1>1, <1>10
  <2>2. frames' \in Seq(Stream!Topic)
    <3>1. CASE frames' = frames
      BY <3>1
    <3>2. CASE frames' = <<>>
      BY <3>2, EmptySeq
    <3> QED BY <1>10, <3>1, <3>2
  <2> QED BY <1>10, <2>1, <2>2
<1>11. CASE UNCHANGED Stream!vars
  BY <1>11 DEF Stream!vars
<1> QED BY <1>4, <1>5, <1>6, <1>7, <1>8, <1>9, <1>10, <1>11 DEF Stream!Next

LEMMA StreamTypeCorrect == Stream!Spec => []Stream!TypeOK
<1>1. ASSUME Stream!Init PROVE Stream!TypeOK
  <2>1. frames \in Seq(Stream!Topic)
    BY <1>1, EmptySeq DEF Stream!Init
  <2>2. reports \in [Stream!Topic -> 0..Places] /\ outages \in 0..MaxOutages
    <3>0. Places \in Nat \ {0} /\ MaxOutages \in Nat
      BY StreamAssumption DEF Stream!UserDataStreamAssumption
    <3>1. 0 \in 0..Places /\ 0 \in 0..MaxOutages
      BY <3>0
    <3>2. reports = [t \in Stream!Topic |-> 0] /\ outages = 0
      BY <1>1 DEF Stream!Init
    <3>3. reports \in [Stream!Topic -> 0..Places]
      BY <3>1, <3>2
    <3> QED BY <3>1, <3>2, <3>3
  <2>3. /\ step \in {"off", "prepare", "connect", "handshake", "open", "wait", "ended"}
        /\ session \in {"none", "new", "live", "deaf", "closed"}
    BY <1>1 DEF Stream!Init
  <2> QED BY <1>1, <2>1, <2>2, <2>3 DEF Stream!Init, Stream!TypeOK
<1> QED BY <1>1, StreamTyped, PTL DEF Stream!Spec

-----------------------------------------------------------------------------
(* The composition: whichever part moves, every part behaves. *)
LEMMA PartsFollow == AnyPart => Spec /\ Position!Spec /\ Stream!Spec /\ Depth!Spec
<1>1. InitPart => Init /\ Position!Init /\ Stream!Init /\ Depth!Init
  BY DEF InitPart
<1>2. [NextPart]_all => [Next]_vars
  BY DEF NextPart, Rest, all
<1>3. [NextPart]_all => [Position!Next]_(Position!vars)
  BY DEF NextPart, Rest, all, positionVars, Position!vars
<1>4. [NextPart]_all => [Stream!Next]_(Stream!vars)
  BY DEF NextPart, Rest, all, streamVars, Stream!vars
<1>5. [NextPart]_all => [Depth!Next]_(Depth!vars)
  BY DEF NextPart, Rest, all, depthVars, Depth!vars
<1> QED BY <1>1, <1>2, <1>3, <1>4, <1>5, PTL
        DEF AnyPart, Spec, Position!Spec, Stream!Spec, Depth!Spec

(* Every part keeps its types: the waiting calls and tasks of the price       *)
(* manager (price.rs 52-186), what the position manager stores and publishes  *)
(* (position.rs 97-229), the reports that wait for a relay                    *)
(* (ws/supervisor.rs) and the book of a depth stream (bybit/ws.rs).           *)
THEOREM TypesCorrect == AnyPart => []AllTypesOK
<1>1. IInv => TypeOK
  BY DEF IInv
<1> QED BY <1>1, PartsFollow, AlwaysIInv, PositionTypeCorrect, StreamTypeCorrect,
           DepthTypeCorrect, PTL DEF AllTypesOK
=============================================================================

---------------------------- MODULE PriceManager ----------------------------
(***************************************************************************)
(* The price manager actor of one exchange process                         *)
(* (core/src/manager/price.rs): a cache of order books fed by a WebSocket  *)
(* stream and by REST fetches that callers cause, at most one per          *)
(* instrument at a time.  Callers the cache cannot serve wait for whatever *)
(* book comes first.  A book is abstracted to its version at the exchange. *)
(***************************************************************************)
EXTENDS Integers, Sequences

CONSTANTS
  Keys,        \* instruments
  Callers,     \* tasks that use the PriceManagerHandle, one call at a time
  MaxVersion,  \* bound: changes of a book
  MaxWs,       \* bound: updates waiting in the stream
  NoCall

ASSUME PriceManagerAssumption ==
  /\ MaxVersion \in Nat \ {0}
  /\ MaxWs \in Nat
  /\ NoCall \notin [key : Keys, owed : 1..MaxVersion]

VARIABLES
  book,      \* version of each order book at the exchange
  ws,        \* the stream and the channel behind it
  task,      \* the REST task of each key, and the result it posts
  cache,     \* version cached for each key, 0 when there is none
  pending,   \* callers waiting for a book of each key
  fetching,  \* keys the actor believes a REST fetch is in flight for
  call,      \* what each caller is waiting for
  answer     \* what each caller was last given

vars == <<book, ws, task, cache, pending, fetching, call, answer>>

Version == 1..MaxVersion
\* owed: the oldest book that answers the call
Call == [key : Keys, owed : Version]
Update == [key : Keys, version : Version]
NoTask == [stage |-> "none", version |-> 0]
\* version 0 is the error result
Task == [stage : {"none", "asked", "answered"}, version : 0..MaxVersion]

TypeOK ==
  /\ book \in [Keys -> Version]
  /\ ws \in Seq(Update)
  /\ task \in [Keys -> Task]
  /\ cache \in [Keys -> 0..MaxVersion]
  /\ pending \in [Keys -> SUBSET Callers]
  /\ fetching \subseteq Keys
  /\ call \in [Callers -> Call \cup {NoCall}]
  /\ answer \in [Callers -> 0..MaxVersion]

Init ==
  /\ book = [k \in Keys |-> 1]
  /\ ws = <<>>
  /\ task = [k \in Keys |-> NoTask]
  /\ cache = [k \in Keys |-> 0]
  /\ pending = [k \in Keys |-> {}]
  /\ fetching = {}
  /\ call = [c \in Callers |-> NoCall]
  /\ answer = [c \in Callers |-> 0]

-----------------------------------------------------------------------------
(* The actor *)
StartRestFetch(k) ==
  IF k \in fetching
  THEN UNCHANGED <<fetching, task>>
  ELSE /\ fetching' = fetching \cup {k}
       /\ task' = [task EXCEPT ![k] = [stage |-> "asked", version |-> 0]]

(* A caller that waits is owed a book no older than its call, unless it joins *)
(* a fetch in flight or an update of the stream is there before it: then any *)
(* book will do.                                                             *)
Owed(k) ==
  IF k \in fetching \/ \E i \in 1..Len(ws) : ws[i].key = k THEN 1 ELSE book[k]

Wait(c, k) ==
  /\ pending' = [pending EXCEPT ![k] = @ \cup {c}]
  /\ call' = [call EXCEPT ![c] = [key |-> k, owed |-> Owed(k)]]

GetCached(c, k) ==
  /\ call[c] = NoCall
  /\ cache[k] # 0
  /\ answer' = [answer EXCEPT ![c] = cache[k]]
  /\ UNCHANGED <<book, ws, task, cache, pending, fetching, call>>

GetMissing(c, k) ==
  /\ call[c] = NoCall
  /\ cache[k] = 0
  /\ Wait(c, k)
  /\ StartRestFetch(k)
  /\ UNCHANGED <<book, ws, cache, answer>>

RefreshSnapshot(c, k) ==
  /\ call[c] = NoCall
  /\ Wait(c, k)
  /\ StartRestFetch(k)
  /\ UNCHANGED <<book, ws, cache, answer>>

(* Everyone waiting for a book of the key is given this one (or the error).  *)
DeliverKeepsWaiters(k, v) ==
  /\ answer' = [c \in Callers |-> IF c \in pending[k] THEN v ELSE answer[c]]
  /\ call' = [c \in Callers |-> IF c \in pending[k] THEN NoCall ELSE call[c]]
  /\ UNCHANGED pending
DeliverCached(k, v) ==
  /\ answer' = [c \in Callers |-> IF c \notin pending[k] THEN answer[c]
                                ELSE IF v = 0 THEN 0 ELSE cache[k]]
  /\ call' = [c \in Callers |-> IF c \in pending[k] THEN NoCall ELSE call[c]]
  /\ pending' = [pending EXCEPT ![k] = {}]
Deliver(k, v) ==
  /\ answer' = [c \in Callers |-> IF c \in pending[k] THEN v ELSE answer[c]]
  /\ call' = [c \in Callers |-> IF c \in pending[k] THEN NoCall ELSE call[c]]
  /\ pending' = [pending EXCEPT ![k] = {}]

HandleWsUpdate ==
  /\ ws # <<>>
  /\ ws' = Tail(ws)
  /\ cache' = [cache EXCEPT ![Head(ws).key] = Head(ws).version]
  /\ Deliver(Head(ws).key, Head(ws).version)
  /\ UNCHANGED <<book, task, fetching>>

ClearFetching(k) == fetching' = fetching \ {k}

(* A failed fetch is passed on to the waiting callers, the cache kept. *)
DeliverResult(k) == Deliver(k, task[k].version)

HandleRestResult(k) ==
  /\ task[k].stage = "answered"
  /\ task' = [task EXCEPT ![k] = NoTask]
  /\ ClearFetching(k)
  /\ cache' = IF task[k].version = 0 THEN cache
              ELSE [cache EXCEPT ![k] = task[k].version]
  /\ DeliverResult(k)
  /\ UNCHANGED <<book, ws>>

(* The time to live of an entry is over. *)
NeverExpires(k) == FALSE
Expires(k) == cache[k] # 0
Expire(k) ==
  /\ Expires(k)
  /\ cache' = [cache EXCEPT ![k] = 0]
  /\ UNCHANGED <<book, ws, task, pending, fetching, call, answer>>

-----------------------------------------------------------------------------
(* The exchange *)
Move(k) ==
  /\ book[k] < MaxVersion
  /\ book' = [book EXCEPT ![k] = @ + 1]
  /\ \/ /\ Len(ws) < MaxWs
        /\ ws' = Append(ws, [key |-> k, version |-> book[k] + 1])
     \/ UNCHANGED ws
  /\ UNCHANGED <<task, cache, pending, fetching, call, answer>>

RestAnswers(k) ==
  /\ task[k].stage = "asked"
  /\ \E v \in {0, book[k]} :
       task' = [task EXCEPT ![k] = [stage |-> "answered", version |-> v]]
  /\ UNCHANGED <<book, ws, cache, pending, fetching, call, answer>>

Next ==
  \/ \E k \in Keys : \/ HandleRestResult(k) \/ Expire(k)
                     \/ Move(k) \/ RestAnswers(k)
                     \/ \E c \in Callers : \/ GetCached(c, k) \/ GetMissing(c, k)
                                           \/ RefreshSnapshot(c, k)
  \/ HandleWsUpdate

Spec == Init /\ [][Next]_vars

(* The HTTP client's time-out ends every fetch; select! takes every source   *)
(* again and again; entries live for 60 s.                                   *)
Fairness ==
  /\ WF_vars(HandleWsUpdate)
  /\ \A k \in Keys : /\ WF_vars(RestAnswers(k))
                     /\ WF_vars(HandleRestResult(k))
                     /\ WF_vars(Expire(k))

FairSpec == Spec /\ Fairness

-----------------------------------------------------------------------------
(* A key is marked as being fetched exactly while its task or its result is  *)
(* on its way, whoever else served its waiters in the meantime (price.rs     *)
(* 287-289, 324-343): a stale mark would stop the key from being fetched for *)
(* good, a missing one would fetch it twice.                                 *)
FetchingIsTrue == \A k \in Keys : k \in fetching <=> task[k].stage # "none"

(* Each waiting caller sits in the waiting list of its key, of no other, and *)
(* only while it waits, with a fetch in flight to answer it (price.rs        *)
(* 233-249, 275-281, 300-320).                                               *)
WaitersWillBeServed ==
  \A k \in Keys, c \in Callers :
    /\ c \in pending[k] <=> call[c] # NoCall /\ call[c].key = k
    /\ c \in pending[k] => k \in fetching

(* When a book stands still, the cache does not keep an older one, although  *)
(* a REST result may overwrite a newer update of the stream and the stream   *)
(* may have lost the last update: the entry's time to live ends it.          *)
CacheSettles ==
  \A k \in Keys, v \in Version : <>[](book[k] = v) => <>[](cache[k] \in {0, v})

(* A caller that waits, for want of a cached book or to refresh it, gets a   *)
(* book no older than its call, except from a fetch or a stream update that  *)
(* was there before it: a refresh forces a fresh fetch (price.rs 245-248),   *)
(* or else joins one.                                                        *)
WaitersGetFreshBooks ==
  [][\A c \in Callers :
       call[c] # NoCall /\ call'[c] = NoCall /\ answer'[c] # 0
       => answer'[c] >= call[c].owed]_vars
=============================================================================

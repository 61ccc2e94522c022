--------------------------- MODULE AccountManager ---------------------------
(***************************************************************************)
(* The account manager actor (core/src/manager/account.rs): one snapshot   *)
(* per exchange, fetched when a command needs it.  Queries are served from *)
(* the snapshot, even from a stale one, which a fetch then replaces;       *)
(* reconciliations wait for a fetch.  The seven kinds of command differ in *)
(* nothing else, so there are queries and reconciliations here.  A         *)
(* snapshot is abstracted to its version at the exchange.                  *)
(***************************************************************************)
EXTENDS Integers

CONSTANTS
  Exchanges,   \* accounts: the key of every map of the actor
  Callers,     \* tasks that use the AccountManagerHandle, one call at a time
  MaxVersion,  \* bound: changes of an account
  NoCall

ASSUME AccountManagerAssumption ==
  /\ MaxVersion \in Nat \ {0}
  /\ NoCall \notin [exchange : Exchanges, kind : {"query", "reconcile"},
                    owed : 1..MaxVersion]

VARIABLES
  account,    \* version of each account at the exchange
  task,       \* the fetch task of each exchange, and the result it posts
  snapshots,  \* version of the snapshot kept, 0 when there is none
  stale,      \* exchanges whose snapshot is older than snapshot_max_age
  pending,    \* callers whose command waits for a fetch of each exchange
  fetching,   \* exchanges the actor believes a fetch is in flight for
  announced,  \* version and kind of the last event of each exchange
  call,       \* what each caller is waiting for
  answer      \* version each caller was last given, 0 for an error

vars == <<account, task, snapshots, stale, pending, fetching, announced, call, answer>>

Version == 1..MaxVersion
\* owed: the oldest snapshot that answers the command
Call == [exchange : Exchanges, kind : {"query", "reconcile"}, owed : Version]
NoTask == [stage |-> "none", version |-> 0]
\* version 0 is the error result
Task == [stage : {"none", "asked", "answered"}, version : 0..MaxVersion]
NoEvent == [kind |-> "none", version |-> 0]
Event == [kind : {"none", "updated", "reconciled"}, version : 0..MaxVersion]

TypeOK ==
  /\ account \in [Exchanges -> Version]
  /\ task \in [Exchanges -> Task]
  /\ snapshots \in [Exchanges -> 0..MaxVersion]
  /\ stale \subseteq Exchanges
  /\ pending \in [Exchanges -> SUBSET Callers]
  /\ fetching \subseteq Exchanges
  /\ announced \in [Exchanges -> Event]
  /\ call \in [Callers -> Call \cup {NoCall}]
  /\ answer \in [Callers -> 0..MaxVersion]

Init ==
  /\ account = [e \in Exchanges |-> 1]
  /\ task = [e \in Exchanges |-> NoTask]
  /\ snapshots = [e \in Exchanges |-> 0]
  /\ stale = {}
  /\ pending = [e \in Exchanges |-> {}]
  /\ fetching = {}
  /\ announced = [e \in Exchanges |-> NoEvent]
  /\ call = [c \in Callers |-> NoCall]
  /\ answer = [c \in Callers |-> 0]

-----------------------------------------------------------------------------
(* The actor *)
StartFetch(e) ==
  IF e \in fetching
  THEN UNCHANGED <<fetching, task>>
  ELSE /\ fetching' = fetching \cup {e}
       /\ task' = [task EXCEPT ![e] = [stage |-> "asked", version |-> 0]]

(* A command that waits is owed the account as of its call or later, unless  *)
(* it joins a fetch in flight: then any snapshot will do.                    *)
Owed(e) == IF e \in fetching THEN 1 ELSE account[e]

Queue(c, e, kind) ==
  /\ pending' = [pending EXCEPT ![e] = @ \cup {c}]
  /\ call' = [call EXCEPT ![c] = [exchange |-> e, kind |-> kind, owed |-> Owed(e)]]

ReconcileSnapshot(c, e) ==
  /\ call[c] = NoCall
  /\ Queue(c, e, "reconcile")
  /\ StartFetch(e)
  /\ UNCHANGED <<account, snapshots, stale, announced, answer>>

QueryMissing(c, e) ==
  /\ call[c] = NoCall
  /\ snapshots[e] = 0
  /\ Queue(c, e, "query")
  /\ StartFetch(e)
  /\ UNCHANGED <<account, snapshots, stale, announced, answer>>

RefreshNever(e) == UNCHANGED <<fetching, task>>
RefreshIfStale(e) ==
  IF e \in stale THEN StartFetch(e) ELSE UNCHANGED <<fetching, task>>

QueryCached(c, e) ==
  /\ call[c] = NoCall
  /\ snapshots[e] # 0
  /\ answer' = [answer EXCEPT ![c] = snapshots[e]]
  /\ RefreshIfStale(e)
  /\ UNCHANGED <<account, snapshots, stale, pending, announced, call>>

ClearFetching(e) == fetching' = fetching \ {e}

(* The event of a new snapshot: SnapshotReconciled from the dispatch of a    *)
(* waiting ReconcileSnapshot, SnapshotUpdated when none is waiting.          *)
AnnounceToIdle(e, v) ==
  announced' = IF pending[e] = {}
               THEN [announced EXCEPT ![e] = [kind |-> "updated", version |-> v]]
               ELSE IF \E c \in pending[e] : call[c].kind = "reconcile"
               THEN [announced EXCEPT ![e] = [kind |-> "reconciled", version |-> v]]
               ELSE announced
Announce(e, v) ==
  announced' = [announced EXCEPT ![e] =
    [kind |-> IF \E c \in pending[e] : call[c].kind = "reconcile"
              THEN "reconciled" ELSE "updated",
     version |-> v]]

AnswerFromOld(e, v) ==
  /\ answer' = [c \in Callers |-> IF c \notin pending[e] THEN answer[c]
                                ELSE IF v = 0 THEN 0 ELSE snapshots[e]]
  /\ call' = [c \in Callers |-> IF c \in pending[e] THEN NoCall ELSE call[c]]
  /\ pending' = [pending EXCEPT ![e] = {}]
AnswerWaiting(e, v) ==
  /\ answer' = [c \in Callers |-> IF c \in pending[e] THEN v ELSE answer[c]]
  /\ call' = [c \in Callers |-> IF c \in pending[e] THEN NoCall ELSE call[c]]
  /\ pending' = [pending EXCEPT ![e] = {}]

(* A failed fetch fails the waiting commands and keeps the old snapshot. *)
ErrorsKept(e) == UNCHANGED <<answer, call, pending>>
ReplyWithErrors(e) == AnswerWaiting(e, 0)

HandleFetchOk(e) ==
  /\ task[e].stage = "answered" /\ task[e].version # 0
  /\ task' = [task EXCEPT ![e] = NoTask]
  /\ ClearFetching(e)
  /\ snapshots' = [snapshots EXCEPT ![e] = task[e].version]
  /\ stale' = stale \ {e}
  /\ Announce(e, task[e].version)
  /\ AnswerWaiting(e, task[e].version)
  /\ UNCHANGED account

HandleFetchError(e) ==
  /\ task[e].stage = "answered" /\ task[e].version = 0
  /\ task' = [task EXCEPT ![e] = NoTask]
  /\ ClearFetching(e)
  /\ ReplyWithErrors(e)
  /\ UNCHANGED <<account, snapshots, stale, announced>>

(* Time passes: is_stale becomes true of the snapshot. *)
Age(e) ==
  /\ snapshots[e] # 0 /\ e \notin stale
  /\ stale' = stale \cup {e}
  /\ UNCHANGED <<account, task, snapshots, pending, fetching, announced, call, answer>>

-----------------------------------------------------------------------------
(* The exchange *)
Change(e) ==
  /\ account[e] < MaxVersion
  /\ account' = [account EXCEPT ![e] = @ + 1]
  /\ UNCHANGED <<task, snapshots, stale, pending, fetching, announced, call, answer>>

Answered(e, v) ==
  /\ task[e].stage = "asked"
  /\ task' = [task EXCEPT ![e] = [stage |-> "answered", version |-> v]]
  /\ UNCHANGED <<account, snapshots, stale, pending, fetching, announced, call, answer>>

FetchSucceeds(e) == Answered(e, account[e])
FetchFails(e) == Answered(e, 0)

Next ==
  \E e \in Exchanges :
    \/ HandleFetchOk(e) \/ HandleFetchError(e) \/ Age(e)
    \/ Change(e) \/ FetchSucceeds(e) \/ FetchFails(e)
    \/ \E c \in Callers :
         \/ ReconcileSnapshot(c, e) \/ QueryMissing(c, e) \/ QueryCached(c, e)

Spec == Init /\ [][Next]_vars

(* The HTTP client's time-out ends every fetch and select! takes every       *)
(* result; time passes.                                                      *)
Fairness ==
  \A e \in Exchanges : /\ WF_vars(FetchSucceeds(e) \/ FetchFails(e))
                       /\ WF_vars(HandleFetchOk(e)) /\ WF_vars(HandleFetchError(e))
                       /\ WF_vars(Age(e))

(* Besides: each exchange is asked again and again (the strategies read the  *)
(* account before they size a trade), and does not fail every fetch.         *)
PolledFairness ==
  \A e \in Exchanges : /\ WF_vars(\E c \in Callers : QueryCached(c, e) /\ e \in stale)
                       /\ SF_vars(FetchSucceeds(e))

FairSpec == Spec /\ Fairness
PolledSpec == FairSpec /\ PolledFairness

-----------------------------------------------------------------------------
(* An exchange is marked as being fetched exactly while its task or its      *)
(* result is on its way (account.rs 298-300, 340-349): a mark left behind    *)
(* would make every later reconciliation wait for ever.                      *)
FetchingIsTrue == \A e \in Exchanges : e \in fetching <=> task[e].stage # "none"

(* Each waiting command is queued under its exchange, under no other, with a *)
(* fetch in flight to answer it (account.rs 264-283, 307, 331).              *)
CommandsWillBeAnswered ==
  \A e \in Exchanges, c \in Callers :
    /\ c \in pending[e] <=> call[c] # NoCall /\ call[c].exchange = e
    /\ c \in pending[e] => e \in fetching

(* Subscribers have heard of the snapshot the actor keeps, be it by a        *)
(* SnapshotUpdated or, when that one is held back, by the SnapshotReconciled *)
(* of a waiting command (account.rs 309-325, 607-611).                       *)
SnapshotAnnounced == \A e \in Exchanges : announced[e].version = snapshots[e]

(* An account that stands still, and that is read again and again, ends up   *)
(* in the snapshot though queries are always served from the cache: a stale  *)
(* one is refreshed in passing (account.rs 285-293).                         *)
SnapshotSettles ==
  \A e \in Exchanges, v \in Version :
    <>[](account[e] = v /\ snapshots[e] # 0) => <>[](snapshots[e] = v)

(* A command that waits is answered with the account as it was at its call   *)
(* or later, except by a fetch it found in flight: ReconcileSnapshot forces  *)
(* a fresh fetch (account.rs 268), or else joins one.                        *)
AnswersAreFresh ==
  [][\A c \in Callers :
       call[c] # NoCall /\ call'[c] = NoCall /\ answer'[c] # 0
       => answer'[c] >= call[c].owed]_vars
=============================================================================

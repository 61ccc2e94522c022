--------------------------- MODULE PerpPerpPoller ---------------------------
(***************************************************************************)
(* The perp/perp strategy (strategies/src/arbitrage/perp_perp): a loop     *)
(* that polls, handles the events of its two exchanges and takes operator  *)
(* commands.  A poll asks the exchanges for the positions, and acts on the *)
(* answers after the awaits: the exchanges go on in between, the events    *)
(* wait.  Prices and funding rates move freely, so what the decider and    *)
(* the economics of a recovery make of them is open.                       *)
(***************************************************************************)
EXTENDS TwoLegs, Sequences

CONSTANT
  MaxNews     \* bound: position updates waiting, per leg

ASSUME PerpPerpPollerAssumption == MaxNews \in Nat \ {0}

VARIABLES
  news,     \* PositionUpdate events on their way, per leg
  phase,    \* "synced" while a poll has its positions and has not acted
  paused,
  clock     \* recovery_started: unset, running, or long ago

legs == <<position, orders, size, tracked, forced, status, schedule>>
vars == <<legs, news, phase, paused, clock>>

TypeOK ==
  /\ LegsTypeOK
  /\ news \in [Leg -> Seq(Sizes(MaxSize))]
  /\ phase \in {"idle", "synced"}
  /\ paused \in BOOLEAN
  /\ clock \in {"unset", "running", "overdue"}

Init ==
  /\ LegsInit
  /\ news = [l \in Leg |-> <<>>]
  /\ phase = "idle"
  /\ paused = FALSE
  /\ clock = "unset"

-----------------------------------------------------------------------------
(* Actions of the execution engine, from the orders os, the tracker trk and  *)
(* the status base *)
Enter(os, trk, base, want) == Dispatch(os, trk, base, "limit", want, "Entering")
Recover(os, trk, base, want) == Dispatch(os, trk, base, "limit", want, "Recovering")
ExitUnreduced(os, trk, base) ==
  Dispatch(os, trk, base, "market", CloseSizes(size), "Exiting")
Exit(os, trk, base) == Dispatch(os, trk, base, "close", CloseSizes(size), "Exiting")
Unwind(os, trk, base) == DispatchChunk(os, trk, base, size, UnwindSizes(size))

NoAction(os, trk, base) == orders' = os /\ tracked' = trk /\ status' = base

Active(s) == IF status \in {"Inactive", "Entering"} /\ Entered(s) THEN "Active" ELSE status

(* check_tracker_transitions, with what is pending after the event, and ended *)
(* what it ended                                                             *)
CheckTransitions(os, trk, ended) ==
  \/ /\ trk # {} \/ status \notin Transitional
     /\ NoAction(os, trk, status)
     /\ UNCHANGED <<schedule, clock>>
     /\ forced' = forced \ ended
  \/ /\ trk = {} /\ status \in {"Entering", "Recovering"}
     /\ IF Entered(size)
        THEN NoAction(os, trk, "Active")
        ELSE IF OneLegged(size)
        THEN Recover(os, trk, "Recovering", RecoverySizes(size))
        ELSE NoAction(os, trk, "Recovering")
     /\ clock' = IF status = "Recovering" /\ Entered(size) THEN "unset" ELSE clock
     /\ forced' = {}
     /\ UNCHANGED schedule
  \/ /\ trk = {} /\ status = "Exiting"
     /\ IF Exited(size) THEN NoAction(os, trk, "Inactive")
        ELSE Exit(os, trk, "Exiting")
     /\ forced' = {}
     /\ UNCHANGED <<schedule, clock>>
  \/ /\ trk = {} /\ status = "Unwinding"
     /\ IF Exited(size)
        THEN NoAction(os, trk, "Inactive") /\ schedule' = NoSchedule
        ELSE Unwind(os, trk, "Unwinding") /\ schedule' = Advance(schedule)
     /\ forced' = {}
     /\ UNCHANGED clock

(* Events *)
TrackerMissesUpdate(l, i) == tracked
TrackerAfter(l, i) == tracked \ {<<l, i>>}

(* The end of an order; an event before it may be missing, because the stream *)
(* lost it or a cancel's reply or the reconciliation overtook it.             *)
HandleOrderUpdate(l, i) ==
  /\ phase = "idle"
  /\ orders[l][i].state = "over"
  /\ CheckTransitions([orders EXCEPT ![l][i] = NoOrder], TrackerAfter(l, i), {<<l, i>>})
  /\ UNCHANGED <<position, size, news, phase, paused>>

(* An event that does not end the order makes a tracked one pending, though  *)
(* it had been made to call it cancelled.                                    *)
HandleOrderProgress(l, i) ==
  /\ phase = "idle"
  /\ ~orders[l][i].told
  /\ LET again == forced \cap {<<l, i>>}
     IN CheckTransitions([orders EXCEPT ![l][i].told = TRUE], tracked \cup again, again)
  /\ UNCHANGED <<position, size, news, phase, paused>>

HandlePositionUpdate(l) ==
  /\ phase = "idle"
  /\ news[l] # <<>>
  /\ news' = [news EXCEPT ![l] = Tail(@)]
  /\ size' = [size EXCEPT ![l] = Head(news[l])]
  /\ status' = Active([size EXCEPT ![l] = Head(news[l])])
  /\ UNCHANGED <<position, orders, tracked, forced, schedule, phase, paused, clock>>

-----------------------------------------------------------------------------
(* The poll: sync_positions.  A call may fail; a position of 0 is no answer. *)
SyncedOrZero(l, answered) == IF l \in answered THEN position[l] ELSE 0
Synced(l, answered) == IF l \in answered /\ position[l] # 0 THEN position[l] ELSE size[l]

PollSync(answered) ==
  /\ phase = "idle" /\ ~paused
  /\ phase' = "synced"
  /\ size' = [l \in Leg |-> Synced(l, answered)]
  /\ status' = Active([l \in Leg |-> Synced(l, answered)])
  /\ UNCHANGED <<position, orders, tracked, forced, schedule, news, paused, clock>>

(* The rest of the poll begins by cancelling stale orders, of which only the *)
(* exchange's events tell the tracker.                                       *)
Acts(s) ==
  /\ phase = "synced" /\ status = s
  /\ phase' = "idle"
  /\ UNCHANGED <<position, size, news>>

StaleCancelled == {Cancelled(orders, gone) : gone \in SUBSET tracked}

ContinueUnwind ==
  /\ Acts("Unwinding")
  /\ \E os \in StaleCancelled :
       IF Exited(size)
       THEN NoAction(os, tracked, "Inactive") /\ schedule' = NoSchedule
       ELSE IF tracked # {}
       THEN NoAction(os, tracked, status) /\ UNCHANGED schedule
       ELSE Unwind(os, tracked, status) /\ schedule' = Advance(schedule)
  /\ forced' = IF ~Exited(size) /\ tracked = {} THEN {} ELSE forced
  /\ UNCHANGED <<paused, clock>>

ContinueExit ==
  /\ Acts("Exiting")
  /\ \E os \in StaleCancelled :
       IF Exited(size) THEN NoAction(os, tracked, "Inactive")
       ELSE IF tracked # {} THEN NoAction(os, tracked, status)
       ELSE Exit(os, tracked, status)
  /\ forced' = IF ~Exited(size) /\ tracked # {} THEN forced ELSE {}
  /\ UNCHANGED <<schedule, paused, clock>>

(* Recovery *)
RecoveryIsOver ==
  /\ Acts("Recovering")
  /\ ~OneLegged(size)
  /\ NoAction(orders, tracked, IF Entered(size) THEN "Active" ELSE "Inactive")
  /\ forced' = {}
  /\ clock' = "unset"
  /\ UNCHANGED <<schedule, paused>>

Recovers(c) ==
  /\ Acts("Recovering")
  /\ OneLegged(size)
  /\ clock' = c
  /\ UNCHANGED <<schedule, paused>>

NeverRuns == "unset"
Running == "running"
InTime == clock # "overdue"

HasResting == \E s \in tracked : size[s[1]] = 0

RecoveryRests ==
  /\ Recovers(Running) /\ InTime /\ HasResting
  /\ NoAction(orders, tracked, status)
  /\ UNCHANGED forced

RecoveryReprices ==
  /\ Recovers(Running) /\ InTime
  /\ \E gone \in Cancellations(tracked) :
       Recover(Cancelled(orders, gone), {}, status, RecoverySizes(size))
  /\ forced' = {}

RecoveryChases ==
  /\ Recovers(Running) /\ InTime
  /\ \E gone \in Cancellations(tracked) :
       Dispatch(Cancelled(orders, gone), {}, status, "market", RecoverySizes(size), status)
  /\ forced' = {}

RecoveryAborts ==
  /\ Recovers("unset")
  /\ \E gone \in Cancellations(tracked) : Exit(Cancelled(orders, gone), {}, status)
  /\ forced' = IF tracked = {} THEN forced ELSE {}

(* A position near liquidation, while Active or Entering *)
EmergencyExit ==
  /\ "Emergency" \in Commands
  /\ status \in {"Active", "Entering"} /\ Acts(status)
  /\ ~Exited(size)
  /\ \E gone \in Cancellations(tracked) :
       Exit(Cancelled(orders, gone), {}, status)
  /\ forced' = forced \cup tracked
  /\ paused' = TRUE
  /\ UNCHANGED <<schedule, clock>>

(* The decider.  Nothing is done, too, for want of a spread, a price or      *)
(* depth, and at a violated margin gate.                                     *)
DoNothing(s) ==
  /\ Acts(s)
  /\ \E os \in IF s = "Entering" THEN {orders} ELSE StaleCancelled :
       NoAction(os, tracked, status)
  /\ UNCHANGED <<forced, schedule, paused, clock>>

EnterWanted == IF Exited(size) THEN [l \in Leg |-> Target] ELSE RecoverySizes(size)
DecideEnter ==
  /\ Acts("Inactive")
  /\ ~Entered(size)
  /\ \E os \in StaleCancelled : Enter(os, tracked, status, EnterWanted)
  /\ UNCHANGED <<forced, schedule, paused, clock>>

DecideExit ==
  /\ Acts("Active")
  /\ \E os \in StaleCancelled : Exit(os, tracked, status)
  /\ UNCHANGED <<forced, schedule, paused, clock>>

(* A unit of drift moves from one leg to the other; half the delta is less   *)
(* than half the leg it reduces.                                             *)
DecideRebalance ==
  /\ Acts("Active")
  /\ \E l \in Leg :
       /\ size[l] >= 2
       /\ \E gone \in Cancellations(tracked) :
            Dispatch(Cancelled(orders, gone), {}, status, "limit",
                     [k \in Leg |-> IF k = l THEN -1 ELSE 1], status)
  /\ forced' = forced \cup tracked
  /\ UNCHANGED <<schedule, paused, clock>>

-----------------------------------------------------------------------------
(* Commands *)
GracefulExit ==
  /\ "GracefulExit" \in Commands /\ phase = "idle"
  /\ status = "Active"
  /\ schedule' = Chunks - 1
  /\ DispatchChunk(orders, tracked, status, size, ChunkOf(Chunks, size))
  /\ UNCHANGED <<position, size, forced, news, phase, paused, clock>>

ForceExit ==
  /\ "ForceExit" \in Commands /\ phase = "idle"
  /\ ~Exited(size)
  /\ Exit(orders, tracked, status)
  /\ UNCHANGED <<position, size, forced, schedule, news, phase, paused, clock>>

PauseOrResume ==
  /\ "Pause" \in Commands /\ phase = "idle"
  /\ paused' = ~paused
  /\ UNCHANGED <<legs, news, phase, clock>>

(* The clock of a recovery runs for MAX_RECOVERY_SECS. *)
TimePasses ==
  /\ clock = "running"
  /\ clock' = "overdue"
  /\ UNCHANGED <<legs, news, phase, paused>>

(* The exchanges *)
Fill(l, i) ==
  /\ Len(news[l]) < MaxNews
  /\ \E n \in Sizes(MaxSize) :
       /\ Fills(l, i, n)
       /\ \/ news' = [news EXCEPT ![l] = Append(@, position[l] + n)]
          \/ LostNews /\ UNCHANGED news
  /\ UNCHANGED <<size, tracked, forced, status, schedule, phase, paused, clock>>

Drop(l, i) ==
  /\ Drops(l, i)
  /\ UNCHANGED <<position, size, tracked, forced, status, schedule, news, phase, paused, clock>>

Poll ==
  \/ ContinueUnwind \/ ContinueExit
  \/ RecoveryIsOver \/ RecoveryRests \/ RecoveryReprices \/ RecoveryChases
  \/ RecoveryAborts
  \/ EmergencyExit \/ DecideEnter \/ DecideExit \/ DecideRebalance
  \/ \E s \in {"Inactive", "Active", "Entering"} : DoNothing(s)

Next ==
  /\ UNCHANGED setting
  /\ \/ \E answered \in SUBSET Leg : PollSync(answered)
     \/ Poll
     \/ \E l \in Leg : HandlePositionUpdate(l)
     \/ \E l \in Leg, i \in 1..MaxOrders : \/ HandleOrderUpdate(l, i)
                                           \/ HandleOrderProgress(l, i)
                                           \/ Fill(l, i) \/ Drop(l, i)
     \/ GracefulExit \/ ForceExit \/ PauseOrResume
     \/ TimePasses

Spec == Init /\ [][Next]_<<setting, vars>>

(* The interval ticks, select! takes every source, and time passes: orders   *)
(* get stale, a recovery overdue.  Orders to close are neither refused nor   *)
(* ended unfilled for ever.                                                  *)
Closing == ContinueExit \/ ContinueUnwind
Stale == tracked # {} /\ orders' = Cancelled(orders, tracked)
Accepted == tracked = {} /\ tracked' # {}

Fairness ==
  /\ WF_vars(Poll \/ \E answered \in SUBSET Leg : PollSync(answered))
  /\ WF_vars(TimePasses)
  /\ SF_vars(Closing /\ Stale)
  /\ SF_vars(Closing /\ Accepted)
  /\ SF_vars(~InTime /\ RecoveryAborts /\ status' = "Exiting")
  /\ \A l \in Leg : SF_vars(HandlePositionUpdate(l))
  /\ \A s \in Slot : SF_vars(HandleOrderUpdate(s[1], s[2]))
  /\ SF_vars(\E s \in Slot : orders[s[1]][s[2]].type = "close" /\ Fill(s[1], s[2]))

FairSpec == Spec /\ Fairness

-----------------------------------------------------------------------------
(* A tracked order can still end in an event that the tracker will take:     *)
(* has_pending is never true for ever because of an order that nobody will   *)
(* tell of (poller.rs 464-478; types.rs 412-424).                            *)
TrackedWillReport == \A s \in tracked : orders[s[1]][s[2]].state # "free"

IsNew(l, i) == orders'[l][i].state = "open" /\ orders[l][i].state # "open"

(* Once every update of a position is handled, the strategy knows it, though *)
(* polls and updates come in any order, unless one may be lost               *)
(* (poller.rs 394-428, 454-456).                                             *)
SizesCatchUpUnlessLost ==
  ~LostNews => \A l \in Leg : news[l] = <<>> => size[l] = position[l]

(* Until a pair that exits or unwinds is closed, every order it places is to *)
(* close it (types.rs 97-98), whatever retries and events come in between.   *)
NoNewRiskWhileClosing ==
  [][\A l \in Leg, i \in 1..MaxOrders :
       status \in {"Exiting", "Unwinding"} /\ IsNew(l, i)
         => orders'[l][i].type = "close"]_vars

(* Retries bring an exit, an unwind and a recovery to an end (poller.rs      *)
(* 580-672, 778-847).                                                        *)
Ends(s) == (status = s /\ ~paused) ~> (status # s \/ paused)
ClosingEnds == Ends("Exiting") /\ Ends("Unwinding")
RecoveryEnds == Ends("Recovering")

(* What some line of the documentation or a comment says, and the code does  *)
(* not do.                                                                   *)

(* While the strategy is paused after an emergency it does not re-enter      *)
(* (README.md 157).                                                          *)
NoReentryWhilePaused ==
  [][\A l \in Leg, i \in 1..MaxOrders :
       paused /\ IsNew(l, i) => orders'[l][i].type = "close"]_vars

(* An Inactive pair that has handled every event has no position (types.rs   *)
(* 82).                                                                      *)
InactiveIsFlat ==
  /\ status = "Inactive" /\ phase = "idle"
  /\ \A l \in Leg : news[l] = <<>> /\ \A i \in 1..MaxOrders : orders[l][i].state # "over"
  => \A l \in Leg : position[l] = 0
=============================================================================

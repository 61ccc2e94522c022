--------------------------- MODULE PositionManager ---------------------------
(***************************************************************************)
(* The position manager actor of one exchange process                      *)
(* (core/src/manager/position.rs).  It learns of positions from two        *)
(* sources: the patches of a WebSocket stream, which own the size of a     *)
(* position, and a REST task that fetches all positions periodically,      *)
(* which owns the margin data (liquidation price and leverage) and decides *)
(* which positions exist.  A fetched snapshot waits in the mailbox while   *)
(* the positions move on.                                                  *)
(***************************************************************************)
EXTENDS Integers, Sequences

CONSTANTS
  Keys,         \* instruments
  Sizes,        \* sizes of open positions
  MaxVersion,   \* bound: changes of a position at the exchange
  MaxPatches,   \* bound: patches waiting in the stream
  MaxSyncs,     \* bound: snapshots waiting in the mailbox
  MaxRestarts   \* bound: restarts of the process

PositionManagerAssumption ==
  /\ Sizes \subseteq Int \ {0}
  /\ MaxVersion \in Nat /\ MaxPatches \in Nat /\ MaxSyncs \in Nat
  /\ MaxRestarts \in Nat

VARIABLES
  pos,       \* the positions at the exchange, with the number of changes so far
  patches,   \* the stream of WsPositionPatches and the channel behind it
  syncs,     \* REST snapshots on their way to the actor
  store,     \* PositionStore: size, and the change the margin data is of
  published, \* the size last broadcast for each key
  missed,    \* keys of which the stream lost a patch: all, for an exchange
             \* without a position stream
  restarts

vars == <<pos, patches, syncs, store, published, missed, restarts>>

ASize == Sizes \cup {0}
Position == [size : ASize, version : 0..MaxVersion]
Patch == [key : Keys, size : ASize]
\* margin 0: the defaults (leverage one, no liquidation price)
Stored == [size : ASize, margin : 0..MaxVersion]
Absent == [size |-> 0, margin |-> 0]

TypeOK ==
  /\ pos \in [Keys -> Position]
  /\ patches \in Seq(Patch)
  /\ syncs \in Seq([Keys -> Position])
  /\ store \in [Keys -> Stored]
  /\ \A k \in Keys : store[k].size = 0 => store[k] = Absent
  /\ published \in [Keys -> ASize]
  /\ missed \subseteq Keys
  /\ restarts \in 0..MaxRestarts

Init ==
  /\ pos = [k \in Keys |-> [size |-> 0, version |-> 0]]
  /\ patches = <<>> /\ syncs = <<>>
  /\ store = [k \in Keys |-> Absent]
  /\ published = [k \in Keys |-> 0]
  /\ missed = {}
  /\ restarts = 0

-----------------------------------------------------------------------------
(* A fill, a liquidation or a funding change: the size and with it the       *)
(* liquidation price move.                                                   *)
Trade(k) ==
  /\ pos[k].version < MaxVersion
  /\ \E s \in ASize \ {pos[k].size} :
       /\ pos' = [pos EXCEPT ![k] = [size |-> s, version |-> @.version + 1]]
       /\ \/ /\ Len(patches) < MaxPatches
             /\ patches' = Append(patches, [key |-> k, size |-> s])
             /\ UNCHANGED missed
          \/ missed' = missed \cup {k} /\ UNCHANGED patches
  /\ UNCHANGED <<syncs, store, published, restarts>>

(* The REST task reads every open position.  (A failed fetch is logged.) *)
FetchPositions ==
  /\ Len(syncs) < MaxSyncs
  /\ syncs' = Append(syncs, pos)
  /\ UNCHANGED <<pos, patches, store, published, missed, restarts>>

(* The stream owns the size and keeps the margin data it finds. *)
IgnoresTracked(patch) ==
  IF patch.size = 0 \/ store[patch.key].size # 0 THEN Absent
  ELSE [size |-> patch.size, margin |-> 0]
PatchedKeepsClosed(patch) ==
  [size |-> patch.size, margin |-> store[patch.key].margin]
Patched(patch) ==
  IF patch.size = 0 THEN Absent
  ELSE [size |-> patch.size, margin |-> store[patch.key].margin]

ApplyWsPatch ==
  /\ patches # <<>>
  /\ patches' = Tail(patches)
  /\ store' = [store EXCEPT ![Head(patches).key] = Patched(Head(patches))]
  /\ published' = [published EXCEPT ![Head(patches).key] = Head(patches).size]
  /\ UNCHANGED <<pos, syncs, missed, restarts>>

(* A snapshot evicts what it lacks, updates the margin data of what is       *)
(* tracked and bootstraps the rest; subscribers are told of none of it.      *)
SyncedNeverEvicts(k, fetched) ==
  IF fetched.size = 0 THEN store[k]
  ELSE IF store[k].size # 0
  THEN [size |-> store[k].size, margin |-> fetched.version]
  ELSE [size |-> fetched.size, margin |-> fetched.version]
SyncedKeepsTracked(k, fetched) ==
  IF fetched.size = 0 THEN Absent
  ELSE IF store[k].size # 0 THEN store[k]
  ELSE [size |-> fetched.size, margin |-> fetched.version]
Synced(k, fetched) ==
  IF fetched.size = 0 THEN Absent
  ELSE IF store[k].size # 0
  THEN [size |-> store[k].size, margin |-> fetched.version]
  ELSE [size |-> fetched.size, margin |-> fetched.version]

SyncPositions ==
  /\ syncs # <<>>
  /\ syncs' = Tail(syncs)
  /\ store' = [k \in Keys |-> Synced(k, Head(syncs)[k])]
  /\ UNCHANGED <<pos, patches, published, missed, restarts>>

Restart ==
  /\ restarts < MaxRestarts
  /\ restarts' = restarts + 1
  /\ store' = [k \in Keys |-> Absent]
  /\ patches' = <<>> /\ syncs' = <<>>
  /\ missed' = {}
  /\ UNCHANGED <<pos, published>>

Next ==
  \/ \E k \in Keys : Trade(k)
  \/ FetchPositions
  \/ ApplyWsPatch
  \/ SyncPositions
  \/ Restart

Spec == Init /\ [][Next]_vars

(* The actor's select! takes both sources again and again, and the exchange  *)
(* is assumed to answer the endless periodic fetches every now and then.     *)
ActorFairness == WF_vars(ApplyWsPatch) /\ WF_vars(SyncPositions)

Fairness == ActorFairness /\ WF_vars(FetchPositions)

FairSpec == Spec /\ Fairness

-----------------------------------------------------------------------------
(* Once a position stays put at the exchange, the store agrees with it on    *)
(* whether it is open, whatever the stream lost and however old a snapshot   *)
(* was applied: a ghost left by an old snapshot is evicted by the next, a    *)
(* position evicted by one is bootstrapped again (position.rs 239-258).      *)
OpennessConverges ==
  \A k \in Keys :
    /\ <>[](pos[k].size = 0) => <>[](store[k].size = 0)
    /\ <>[](pos[k].size # 0) => <>[](store[k].size # 0)

(* The liquidation price and leverage of a position that stays put end up    *)
(* being its own, not the defaults of a stream patch nor those of an earlier *)
(* position (position.rs 251-254, 313-318).                                  *)
MarginConverges ==
  \A k \in Keys, v \in 1..MaxVersion :
    <>[](pos[k].version = v /\ pos[k].size # 0) => <>[](store[k].margin = v)

(* Once a position stays put whose every patch was delivered since the       *)
(* process began, so does its size in the store, and it is the true one; and *)
(* unless the process restarted, subscribers were last told of that size     *)
(* (position.rs 88-89, 321-338).                                             *)
SizeConverges ==
  \A k \in Keys, s \in ASize :
    <>[](pos[k].size = s /\ k \notin missed) =>
      <>[](store[k].size = s /\ (restarts = 0 => published[k] = s))
=============================================================================

--------------------------- MODULE ExchangeUpdates ---------------------------
(***************************************************************************)
(* What keeps a process up to date with its exchange: PriceManager,        *)
(* PositionManager, UserDataStream and DepthBook.  They share nothing, so  *)
(* a behaviour is one of any of them, with the others at rest.             *)
(***************************************************************************)
EXTENDS PriceManager

CONSTANTS
  Instruments, Sizes, MaxChanges, MaxPatches, MaxSyncs, MaxRestarts, \* of PositionManager
  Policies, Refusals, Places, MaxOutages,                            \* of UserDataStream
  Feeds, Prices, MaxQty, MaxWire, Room                               \* of DepthBook

VARIABLES
  part,
  pos, patches, syncs, store, published, missed, restarts,
  policy, refusal, step, session, frames, reports, taken, outages,
  feed, market, socket, wire, local, channel, cached, dropped

positionVars == <<pos, patches, syncs, store, published, missed, restarts>>
streamVars == <<policy, refusal, step, session, frames, reports, taken, outages>>
depthVars == <<feed, market, socket, wire, local, channel, cached, dropped>>

Position == INSTANCE PositionManager WITH Keys <- Instruments, MaxVersion <- MaxChanges
Stream == INSTANCE UserDataStream WITH wire <- frames, channel <- reports, Room <- Places
Depth == INSTANCE DepthBook

ASSUME PositionAssumption == Position!PositionManagerAssumption
ASSUME StreamAssumption == Stream!UserDataStreamAssumption
ASSUME DepthAssumption == Depth!DepthBookAssumption

all == <<part, vars, positionVars, streamVars, depthVars>>

InitPart ==
  /\ part \in {"price", "position", "stream", "depth"}
  /\ Init /\ Position!Init /\ Stream!Init /\ Depth!Init
  /\ part # "stream" => policy = "auth" /\ refusal = "gone"
  /\ part # "depth" => feed = "changes"

Rest(p) ==
  /\ part = p /\ UNCHANGED part
  /\ p # "price" => UNCHANGED vars
  /\ p # "position" => UNCHANGED positionVars
  /\ p # "stream" => UNCHANGED streamVars
  /\ p # "depth" => UNCHANGED depthVars

NextPart ==
  \/ Rest("price") /\ Next
  \/ Rest("position") /\ Position!Next
  \/ Rest("stream") /\ Stream!Next
  \/ Rest("depth") /\ Depth!Next

AnyPart == InitPart /\ [][NextPart]_all

(* Nothing that is fair of a part is enabled while it is at rest, but for    *)
(* the fetch of the positions.                                               *)
FairPart ==
  /\ AnyPart /\ Fairness /\ Stream!Fairness
  /\ Position!ActorFairness /\ WF_all(Rest("position") /\ Position!FetchPositions)

(* What the modules state, here. *)
AllTypesOK == TypeOK /\ Position!TypeOK /\ Stream!TypeOK /\ Depth!TypeOK
SizeConverges == Position!SizeConverges
StoreConverges == Position!OpennessConverges /\ Position!MarginConverges
ReportsKeepComing == Stream!ReportsKeepComing
BookIsTheMarkets == Depth!BookIsTheMarkets
=============================================================================

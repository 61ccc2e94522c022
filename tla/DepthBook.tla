------------------------------ MODULE DepthBook ------------------------------
(***************************************************************************)
(* The order books that the depth streams of the exchange clients hand to  *)
(* the price manager (exchanges/src/bybit/ws.rs, binance/ws.rs,            *)
(* aster/ws.rs).  Bybit sends a book once per subscription and then its    *)
(* changes, which a LocalBook that outlives the connections collects;      *)
(* Binance and Aster send whole books, and their policies keep none:       *)
(* What these hand on is called their local book all the same.             *)
(*                                                                         *)
(* One instrument.  A book gives the quantity at each price that has one;  *)
(* a price stands for a price and a side.                                  *)
(***************************************************************************)
EXTENDS Naturals, Sequences, Functions

CONSTANTS
  Feeds,   \* "changes": Bybit; "books": Binance, Aster
  Prices,
  MaxQty,  \* bound: quantity at a price
  MaxWire, \* bound: messages in the socket
  Room     \* places in the price manager's channel

DepthBookAssumption ==
  /\ Feeds \subseteq {"changes", "books"}
  /\ MaxQty \in Nat \ {0}
  /\ MaxWire \in Nat \ {0}
  /\ Room \in Nat \ {0}

VARIABLES
  feed,
  market,   \* the book at the exchange
  socket,   \* "down", "up" and "subscribed"
  wire,     \* messages in the socket
  local,    \* the policy's own book
  channel,  \* books the price manager has not taken
  cached,   \* the book the price manager was last given
  dropped   \* whether the last book found no room in the channel

vars == <<feed, market, socket, wire, local, channel, cached, dropped>>

Book == UNION {[Q -> 1..MaxQty] : Q \in SUBSET Prices}
Empty == <<>>

\* a quantity of 0 in a change removes the price
Message == [snapshot : BOOLEAN, levels : UNION {[Q -> 0..MaxQty] : Q \in SUBSET Prices}]

TypeOK ==
  /\ feed \in Feeds
  /\ market \in Book /\ local \in Book /\ cached \in Book
  /\ socket \in {"down", "up", "subscribed"}
  /\ wire \in Seq(Message)
  /\ channel \in Seq(Book) /\ Len(channel) <= Room
  /\ dropped \in BOOLEAN

Init ==
  /\ feed \in Feeds
  /\ market = Empty /\ local = Empty /\ cached = Empty
  /\ socket = "down"
  /\ wire = <<>>
  /\ channel = <<>>
  /\ dropped = FALSE

-----------------------------------------------------------------------------
(* LocalBook *)
SnapshotMerged(book, levels) ==
  [p \in DOMAIN book \cup DOMAIN levels |->
     IF p \in DOMAIN levels THEN levels[p] ELSE book[p]]
Snapshot(book, levels) == levels

Delta(book, levels) ==
  Restrict([p \in DOMAIN book \cup DOMAIN levels |->
              IF p \in DOMAIN levels THEN levels[p] ELSE book[p]],
           {p \in DOMAIN book \cup DOMAIN levels : p \in DOMAIN levels => levels[p] # 0})

Applied(book, message) ==
  IF message.snapshot THEN Snapshot(book, message.levels)
                      ELSE Delta(book, message.levels)

-----------------------------------------------------------------------------
(* The supervisor's loop, and the price manager *)
Connect ==
  /\ socket = "down"
  /\ socket' = "up"
  /\ UNCHANGED <<feed, market, wire, local, channel, cached, dropped>>

(* Bybit subscribes in on_connected, the others with their URL.  The first   *)
(* message is the book as it is.                                             *)
Subscribe ==
  /\ socket = "up"
  /\ socket' = "subscribed"
  /\ wire' = <<[snapshot |-> TRUE, levels |-> market]>>
  /\ UNCHANGED <<feed, market, local, channel, cached, dropped>>

(* parse_message: the whole book goes to the price manager, if there is room. *)
ParseMessage ==
  /\ wire # <<>>
  /\ wire' = Tail(wire)
  /\ LET book == Applied(local, Head(wire)) IN
       /\ local' = book
       /\ dropped' = (Len(channel) = Room)
       /\ channel' = IF Len(channel) < Room THEN Append(channel, book) ELSE channel
  /\ UNCHANGED <<feed, market, socket, cached>>

Disconnect ==
  /\ socket # "down"
  /\ socket' = "down"
  /\ wire' = <<>>
  /\ UNCHANGED <<feed, market, local, channel, cached, dropped>>

HandleWsUpdate ==
  /\ channel # <<>>
  /\ channel' = Tail(channel)
  /\ cached' = Head(channel)
  /\ UNCHANGED <<feed, market, socket, wire, local, dropped>>

(* The exchange: its book changes, and it tells its subscribers how, or what *)
(* it is now.                                                                *)
Move(change) ==
  LET book == Delta(market, change) IN
  /\ book # market
  /\ socket = "subscribed" => Len(wire) < MaxWire
  /\ market' = book
  /\ wire' = IF socket # "subscribed" THEN wire
             ELSE Append(wire,
               IF feed = "books" THEN [snapshot |-> TRUE, levels |-> book]
               ELSE [snapshot |-> FALSE, levels |-> change])
  /\ UNCHANGED <<feed, socket, local, channel, cached, dropped>>

Next ==
  \/ Connect \/ Subscribe \/ ParseMessage \/ Disconnect \/ HandleWsUpdate
  \/ \E p \in Prices, q \in 0..MaxQty : Move([r \in {p} |-> q])

Spec == Init /\ [][Next]_vars
-----------------------------------------------------------------------------
(* Through every reconnection, and whatever changed in the meantime, the     *)
(* price manager's book is the exchange's once all messages are taken,       *)
(* unless its channel had no room for the last one: no level outlives the    *)
(* connection it came over, none is missed (bybit/ws.rs 96-148, 202-267).    *)
BookIsTheMarkets ==
  socket = "subscribed" /\ wire = <<>> /\ channel = <<>> /\ ~dropped => cached = market
=============================================================================

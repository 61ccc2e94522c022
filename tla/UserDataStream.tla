--------------------------- MODULE UserDataStream ---------------------------
(***************************************************************************)
(* The private stream of an exchange client (core/src/ws/supervisor.rs and *)
(* the policies of the exchanges' ws.rs): a supervisor that prepares,      *)
(* connects, shakes hands and reads, and begins again when it knows that   *)
(* something is wrong; and the tasks that relay its reports of orders and  *)
(* positions to the managers.                                              *)
(*                                                                         *)
(* A report is its topic alone.  Times (back-off, intervals) are left out. *)
(***************************************************************************)
EXTENDS Naturals, Sequences

CONSTANTS
  Policies,  \* "listen key": Binance futures, Aster; "signature": Binance
             \* spot; "auth": Bybit
  Refusals,  \* what a keep-alive of an expired listen key may be answered
             \* with: "gone" (410), "unauthorized" (401), "invalid" (400)
  Room,      \* places in the channel of a topic
  MaxOutages \* bound: connections and requests that fail

UserDataStreamAssumption ==
  /\ Policies \subseteq {"listen key", "signature", "auth"}
  /\ Refusals \subseteq {"gone", "unauthorized", "invalid"}
  /\ Room \in Nat \ {0}
  /\ MaxOutages \in Nat

VARIABLES
  policy,
  refusal,  \* of keep-alives, at this exchange
  step,     \* what run_supervisor is about to do
  session,  \* what the exchange does with the connection: "none" when there
            \* is none, "new" before it was asked for reports, "live" while it
            \* sends them, "deaf" when it does not and never will, "closed",
            \* and "dead" when it broke and neither side has been told
  wire,     \* frames in the socket
  channel,  \* reports of each topic that the relay has not taken
  taken,    \* topics whose receiver has been taken by a relay
  outages   \* ghost: how many there were

vars == <<policy, refusal, step, session, wire, channel, taken, outages>>

Topic == {"order", "position"}

\* Spot has no positions.
Topics == IF policy = "signature" THEN {"order"} ELSE Topic

TypeOK ==
  /\ policy \in Policies
  /\ refusal \in Refusals
  /\ step \in {"off", "prepare", "connect", "handshake", "open", "wait", "ended"}
  /\ session \in {"none", "new", "live", "deaf", "closed", "dead"}
  /\ wire \in Seq(Topic)
  /\ channel \in [Topic -> 0..Room]
  /\ taken \subseteq Topic
  /\ outages \in 0..MaxOutages

Init ==
  /\ policy \in Policies
  /\ refusal \in Refusals
  /\ step = "off"
  /\ session = "none"
  /\ wire = <<>>
  /\ channel = [t \in Topic |-> 0]
  /\ taken = {}
  /\ outages = 0

-----------------------------------------------------------------------------
(* stream_executions and stream_position_updates: whoever comes first starts *)
(* the supervisor, and each takes its receiver.                              *)
ensure_user_data == step' = IF step = "off" THEN "prepare" ELSE step

Listen(t) ==
  /\ t \in Topics \ taken
  /\ taken' = taken \cup {t}
  /\ ensure_user_data
  /\ UNCHANGED <<policy, refusal, session, wire, channel, outages>>

Relay(t) ==
  /\ t \in taken /\ channel[t] > 0
  /\ channel' = [channel EXCEPT ![t] = @ - 1]
  /\ UNCHANGED <<policy, refusal, step, session, wire, taken, outages>>

-----------------------------------------------------------------------------
(* The supervisor *)
Goes(s) == step' = s /\ UNCHANGED <<policy, refusal, channel, taken>>
Fine == UNCHANGED outages
Fails == outages < MaxOutages /\ outages' = outages + 1
Keeps == UNCHANGED <<session, wire>>
Hangs == session' = "none" /\ wire' = <<>>

(* A listen key is asked for over REST; the other policies have a fixed URL. *)
Prepare == step = "prepare" /\ Goes("connect") /\ Keeps /\ Fine
PrepareFails ==
  step = "prepare" /\ policy = "listen key" /\ Goes("wait") /\ Keeps /\ Fails

(* The key is all that the exchange wants to know. *)
Connect ==
  /\ step = "connect"
  /\ session' = IF policy = "listen key" THEN "live" ELSE "new"
  /\ UNCHANGED wire
  /\ Goes("handshake") /\ Fine
ConnectFails == step = "connect" /\ Goes("wait") /\ Keeps /\ Fails

Waited == step = "wait" /\ Goes("prepare") /\ Keeps /\ Fine

(* on_connected: the spot policy reads the answer to its subscription,       *)
(* Bybit's does not wait for the answers to its own.                         *)
Shake ==
  /\ step = "handshake"
  /\ policy = "signature" => session = "new"
  /\ session' = IF policy = "signature" THEN "live" ELSE session
  /\ UNCHANGED wire
  /\ Goes("open") /\ Fine

(* It is tried again at once. *)
ShakeFails ==
  /\ step = "handshake"
  /\ \/ policy # "listen key" /\ session = "closed" /\ Fine
     \/ policy = "signature" /\ session = "new" /\ Fails
  /\ Hangs
  /\ Goes("prepare")

(* send_heartbeat: a listen key that is kept alive, a ping.  Any other       *)
(* failure of a keep-alive is not fatal.                                     *)
NeverFatal(answer) == FALSE
Fatal(answer) == answer = "gone"

KeepAlive ==
  /\ step = "open" /\ policy = "listen key"
  /\ session = "deaf" /\ Fatal(refusal)
  /\ Hangs
  /\ Goes("wait") /\ Fine

PingFails ==
  /\ step = "open" /\ policy = "auth"
  /\ session = "closed"
  /\ Hangs
  /\ Goes("wait") /\ Fine

(* parse_message: the shared policies drop a report when its channel is      *)
(* full, the spot policy waits for room.  A frame that cannot be parsed is   *)
(* logged, and so is the news that a login failed.                           *)
try_send(t) == channel' = [channel EXCEPT ![t] = IF @ < Room THEN @ + 1 ELSE @]
send(t) == channel[t] < Room /\ try_send(t)

Read(t) ==
  /\ step = "open"
  /\ wire # <<>> /\ Head(wire) = t
  /\ wire' = Tail(wire)
  /\ IF policy = "signature" THEN send(t) ELSE try_send(t)
  /\ UNCHANGED <<policy, refusal, step, session, taken, outages>>

AfterClose == "wait"
ReadClose ==
  /\ step = "open"
  /\ session = "closed" /\ wire = <<>>
  /\ Hangs
  /\ Goes(AfterClose) /\ Fine

-----------------------------------------------------------------------------
(* The exchange *)
Asked == step = "open" /\ policy = "auth" /\ session = "new"
Becomes(s) == session' = s /\ UNCHANGED <<policy, refusal, step, wire, channel, taken>>

Admit == Asked /\ Becomes("live") /\ Fine
Reject == Asked /\ Becomes("deaf") /\ Fine

(* Its keep-alives failed for an hour, or another client deleted it. *)
KeyExpires ==
  policy = "listen key" /\ session \in {"live", "dead"} /\ Becomes("deaf") /\ Fails

(* One report of a topic in a socket is enough. *)
Report(t) ==
  /\ session = "live" /\ t \in Topics
  /\ \A i \in 1..Len(wire) : wire[i] # t
  /\ wire' = Append(wire, t)
  /\ UNCHANGED <<policy, refusal, step, session, channel, taken, outages>>

(* The connection breaks, and the client's side learns of it (closed) or not *)
(* (dead): run_supervisor waits for the next frame without a time-out.  What *)
(* is in the socket may be lost.                                             *)
Breaks(s) ==
  /\ session \in {"new", "live", "deaf"}
  /\ session' = s
  /\ wire' \in {wire, <<>>}
  /\ Fails
  /\ UNCHANGED <<policy, refusal, step, channel, taken>>

Close == Breaks("closed")
HalfOpen == Breaks("dead")

(* A reset gets through after all, or the kernel gives up on what was        *)
(* written to the socket.                                                    *)
Noticed == session = "dead" /\ Becomes("closed") /\ Fine

Supervise ==
  \/ Prepare \/ PrepareFails \/ Connect \/ ConnectFails \/ Waited
  \/ Shake \/ ShakeFails \/ KeepAlive \/ PingFails
  \/ ReadClose

Next ==
  \/ \E t \in Topic : Listen(t) \/ Relay(t) \/ Read(t) \/ Report(t)
  \/ Supervise
  \/ Admit \/ Reject \/ KeyExpires \/ Close \/ HalfOpen \/ Noticed

Spec == Init /\ [][Next]_vars

(* Bybit's policy writes a ping every 20 seconds; the others write nothing   *)
(* to an open connection, and nobody has to notice that one is dead.         *)
PingNotices == policy = "auth" /\ Noticed

(* Supervisor, relays and managers are tasks that run; an exchange that is   *)
(* asked for reports goes on to have some.  It may leave a connection open   *)
(* for ever, though.                                                         *)
Fairness ==
  /\ WF_vars(PingNotices)
  /\ WF_vars(Supervise)
  /\ WF_vars(Admit \/ Reject)
  /\ WF_vars(\E t \in Topic : Read(t))
  /\ \A t \in Topic : WF_vars(Relay(t)) /\ WF_vars(Report(t))

FairSpec == Spec /\ Fairness
-----------------------------------------------------------------------------
(* Reports of every topic that somebody listens to keep coming once the      *)
(* outages are over, whatever they closed, lost or refused, unless the       *)
(* stream falls silent in a way that its policy does not look for: on a      *)
(* connection that the exchange leaves open after a login that failed, or    *)
(* after a listen key expired whose keep-alives are refused in another way   *)
(* than by a 410; or on a dead connection to which the policy writes nothing *)
(* (supervisor.rs 60-180, binance/ws.rs 216-245, bybit/ws.rs 372-387).       *)
Silent ==
  \/ session = "deaf" /\ (policy = "auth" \/ refusal # "gone")
  \/ session = "dead" /\ policy # "auth"
ReportsKeepComing ==
  \A t \in Topic :
    []<><<Relay(t)>>_vars \/ <>[]Silent \/ [](t \notin taken)
=============================================================================

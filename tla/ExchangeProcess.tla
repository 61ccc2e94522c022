--------------------------- MODULE ExchangeProcess ---------------------------
(***************************************************************************)
(* The life of the processes and how they find each other                  *)
(* (src/main.rs, src/runner.rs, src/strategy.rs,                           *)
(* core/src/zmq/discovery.rs): an exchange process registers the endpoints *)
(* of its sockets in Redis, under keys that expire unless a heartbeat      *)
(* renews them; a strategy process looks them up, connects and registers   *)
(* its own command endpoint.                                               *)
(*                                                                         *)
(* A socket has a new port in every process, so an endpoint is the number  *)
(* of the process that bound it.  Redis keys are atomic; every call to     *)
(* Redis may fail.  Time goes by the second.                               *)
(***************************************************************************)
EXTENDS Integers

CONSTANTS
  Ttls,     \* values of zmq_ttl_secs that may be configured
  Others,   \* TRUE when other exchanges keep the process up
  Swaps,    \* TRUE when a swap is among the tracked instruments
  Modes,    \* --mode: "all", or "split" for a process each
  MaxTries, \* MAX_CONNECT_RETRIES
  MaxGen    \* bound: processes started

ExchangeProcessAssumption ==
  /\ Ttls \subseteq Nat \ {0}
  /\ Others \in BOOLEAN /\ Swaps \in BOOLEAN
  /\ Modes \subseteq {"all", "split"}
  /\ MaxTries \in Nat \ {0}
  /\ MaxGen \in Nat

VARIABLES
  ttl, mode, \* configuration
  gen,       \* number of each process, 0 before the first one
  up,        \* TRUE for a process that runs
  runner,    \* what ExchangeRunner::run is about to do
  server,    \* what ZmqServer::run is about to do
  lease,     \* the keys in Redis: endpoint and seconds left
  beat,      \* the heartbeat tasks: seconds until their next beat
  strategy,  \* what the strategy's start is about to do, and what it found
  misses     \* ghost: beats of a task that failed in a row

redis == <<lease, beat, misses>>
vars == <<ttl, mode, gen, up, runner, server, strategy, redis>>

Process == {"exchange", "strategy"}
Service == {"pub", "router", "command"}
Owner(s) == IF s = "command" THEN "strategy" ELSE "exchange"

NoLease == [at |-> 0, left |-> 0]
NoBeat == -1

Idle == [step |-> "off", tries |-> 0, router |-> 0, pub |-> 0, cmd |-> 0, sub |-> 0]

Init ==
  /\ ttl \in Ttls
  /\ mode \in Modes
  /\ gen = [p \in Process |-> 0]
  /\ up = [p \in Process |-> FALSE]
  /\ runner = "off"
  /\ server = "off"
  /\ lease = [s \in Service |-> NoLease]
  /\ beat = [s \in Service |-> NoBeat]
  /\ strategy = Idle
  /\ misses = [s \in Service |-> 0]

-----------------------------------------------------------------------------
(* Redis and the heartbeats *)
Interval == ttl \div 3

SetExpiring(s) == [at |-> gen[Owner(s)], left |-> ttl]

(* register_and_heartbeat and register_strategy: tokio's interval beats at   *)
(* once and panics on a period of zero, which ends the task.                 *)
FirstBeat == IF Interval = 0 THEN NoBeat ELSE 0
Register(s) ==
  /\ lease' = [lease EXCEPT ![s] = SetExpiring(s)]
  /\ beat' = [beat EXCEPT ![s] = FirstBeat]
  /\ misses' = [misses EXCEPT ![s] = 0]

NextBeatDoubled == 2 * Interval
NextBeat == Interval
Beat(s) ==
  /\ beat[s] = 0
  /\ beat' = [beat EXCEPT ![s] = NextBeat]
  /\ \/ /\ lease' = [lease EXCEPT ![s] = SetExpiring(s)]
        /\ misses' = [misses EXCEPT ![s] = 0]
     \/ /\ misses' = [misses EXCEPT ![s] = IF @ < ttl THEN @ + 1 ELSE @]
        /\ UNCHANGED lease
  /\ UNCHANGED <<ttl, mode, gen, up, runner, server, strategy>>

(* A beat that is due comes before another second passes. *)
Tick ==
  /\ \A s \in Service : beat[s] # 0
  /\ \E s \in Service : lease[s] # NoLease \/ beat[s] # NoBeat
  /\ lease' = [s \in Service |-> IF lease[s].left > 1 THEN [lease[s] EXCEPT !.left = @ - 1]
                                 ELSE NoLease]
  /\ beat' = [s \in Service |-> IF beat[s] = NoBeat THEN NoBeat ELSE beat[s] - 1]
  /\ UNCHANGED <<ttl, mode, gen, up, runner, server, strategy, misses>>

(* What discover_service may return: the endpoint, or 0 for none or a call   *)
(* that failed                                                               *)
Looked(s) == {0, lease[s].at}

-----------------------------------------------------------------------------
(* The exchange process.  In --mode all, main goes on to wait for the        *)
(* services at once.                                                         *)
StartExchange ==
  /\ ~up["exchange"] /\ gen["exchange"] < MaxGen
  /\ gen' = [gen EXCEPT !["exchange"] = @ + 1, !["strategy"] = IF mode = "all" THEN @ + 1 ELSE @]
  /\ up' = [p \in Process |-> up[p] \/ p = "exchange" \/ mode = "all"]
  /\ runner' = "clear pub"
  /\ strategy' = IF mode = "all" THEN [Idle EXCEPT !.step = "poll pub"] ELSE strategy
  /\ UNCHANGED <<ttl, mode, server, redis>>

(* deregister_all, given up at the first error *)
ClearStale(s) ==
  /\ up["exchange"]
  /\ runner = IF s = "pub" THEN "clear pub" ELSE "clear router"
  /\ \/ /\ lease' = [lease EXCEPT ![s] = NoLease]
        /\ runner' = IF s = "pub" THEN "clear router" ELSE "load"
     \/ runner' = "load" /\ UNCHANGED lease
  /\ UNCHANGED <<ttl, mode, gen, up, server, strategy, beat, misses>>

LoadInstruments ==
  /\ up["exchange"] /\ runner = "load"
  /\ \/ runner' = "run" /\ server' = "pub"
     \/ runner' = "ended" /\ UNCHANGED server
  /\ UNCHANGED <<ttl, mode, gen, up, strategy, redis>>

(* ZmqServer::run binds a socket and registers it; its heartbeat stays when  *)
(* the second registration fails.                                            *)
RegisterSocket(s) ==
  /\ up["exchange"] /\ server = s
  /\ \/ Register(s) /\ server' = IF s = "pub" THEN "router" ELSE "serve"
     \/ server' = "failed" /\ UNCHANGED redis
  /\ UNCHANGED <<ttl, mode, gen, up, runner, strategy>>

(* The select of the tasks ends with the first one; what was spawned goes on *)
(* as long as the process.  On Ctrl-C the runner ends too, and its process   *)
(* does not if main is still busy with the start of the strategy.            *)
FundingEnds == ~Swaps
MainWaits ==
  mode = "all" => strategy.step \in {"run", "controlled", "uncontrolled", "failed"}
RunnerEnds ==
  /\ up["exchange"] /\ runner = "run"
  /\ server = "failed" \/ FundingEnds \/ ~MainWaits
  /\ runner' = "ended"
  /\ UNCHANGED <<ttl, mode, gen, up, server, strategy, redis>>

Down(P) ==
  /\ up' = [p \in Process |-> up[p] /\ p \notin P]
  /\ beat' = [s \in Service |-> IF Owner(s) \in P THEN NoBeat ELSE beat[s]]
  /\ misses' = [s \in Service |-> IF Owner(s) \in P THEN 0 ELSE misses[s]]
  /\ IF "exchange" \in P THEN runner' = "off" /\ server' = "off" ELSE UNCHANGED <<runner, server>>
  /\ strategy' = IF "strategy" \in P THEN Idle ELSE strategy
  /\ UNCHANGED <<ttl, mode, gen, lease>>

With(p) == IF mode = "all" THEN Process ELSE {p}

(* Ctrl-C or a crash: nothing is deregistered. *)
Stop(p) == up[p] /\ Down(With(p))

(* main ends once all of its runners have. *)
ExchangesEnd ==
  /\ up["exchange"] /\ runner = "ended"
  /\ ~Others /\ MainWaits
  /\ Down(With("exchange"))

-----------------------------------------------------------------------------
(* The strategy process *)
At(step) == up["strategy"] /\ strategy.step = step

StartStrategy ==
  /\ mode = "split"
  /\ ~up["strategy"] /\ gen["strategy"] < MaxGen
  /\ gen' = [gen EXCEPT !["strategy"] = @ + 1]
  /\ up' = [up EXCEPT !["strategy"] = TRUE]
  /\ strategy' = [Idle EXCEPT !.step = "cmd lookup"]
  /\ UNCHANGED <<ttl, mode, runner, server, redis>>

(* poll_until_ready *)
PollPub ==
  /\ At("poll pub")
  /\ \E found \in Looked("pub") :
       strategy' = [strategy EXCEPT !.step = "poll router", !.pub = found]
  /\ UNCHANGED <<ttl, mode, gen, up, runner, server, redis>>

PollRouter ==
  /\ At("poll router")
  /\ \E found \in Looked("router") :
       strategy' = IF strategy.pub # 0 /\ found # 0
                   THEN [Idle EXCEPT !.step = "ready"]
                   ELSE [Idle EXCEPT !.step = "poll pub"]
  /\ UNCHANGED <<ttl, mode, gen, up, runner, server, redis>>

PollEnds ==
  /\ At("ready") \/ At("poll pub")
  /\ strategy' = [Idle EXCEPT !.step = "cmd lookup"]
  /\ UNCHANGED <<ttl, mode, gen, up, runner, server, redis>>

(* ZmqClient::connect under retry_connect, first for the commands, then for  *)
(* the events: the router's endpoint, the publisher's, and the two sockets   *)
(* in turn.                                                                  *)
Part == {"cmd", "sub"}
LookupStep(part) == IF part = "cmd" THEN "cmd lookup" ELSE "sub lookup"
LookupPubStep(part) == IF part = "cmd" THEN "cmd lookup pub" ELSE "sub lookup pub"
DealerStep(part) == IF part = "cmd" THEN "cmd dealer" ELSE "sub dealer"
SubscribeStep(part) == IF part = "cmd" THEN "cmd subscribe" ELSE "sub subscribe"

Bound(s, at) ==
  /\ up["exchange"] /\ at = gen["exchange"]
  /\ server \in IF s = "pub" THEN {"router", "serve"} ELSE {"serve"}

Retry(part) ==
  IF strategy.tries + 1 = MaxTries THEN [Idle EXCEPT !.step = "failed"]
  ELSE [strategy EXCEPT !.step = LookupStep(part), !.tries = @ + 1]

Connected(part) ==
  IF part = "cmd"
  THEN [strategy EXCEPT !.step = LookupStep("sub"), !.tries = 0, !.cmd = strategy.router]
  ELSE [strategy EXCEPT !.step = "leverage", !.tries = 0, !.sub = strategy.pub]

Lookup(part) ==
  /\ At(LookupStep(part))
  /\ \E found \in Looked("router") :
       strategy' = IF found = 0 THEN Retry(part)
                   ELSE [strategy EXCEPT !.step = LookupPubStep(part), !.router = found]
  /\ UNCHANGED <<ttl, mode, gen, up, runner, server, redis>>

LookupPub(part) ==
  /\ At(LookupPubStep(part))
  /\ \E found \in Looked("pub") :
       strategy' = IF found = 0 THEN Retry(part)
                   ELSE [strategy EXCEPT !.step = DealerStep(part), !.pub = found]
  /\ UNCHANGED <<ttl, mode, gen, up, runner, server, redis>>

ConnectDealer(part) ==
  /\ At(DealerStep(part))
  /\ strategy' = IF Bound("router", strategy.router)
                 THEN [strategy EXCEPT !.step = SubscribeStep(part)]
                 ELSE Retry(part)
  /\ UNCHANGED <<ttl, mode, gen, up, runner, server, redis>>

Subscribe(part) ==
  /\ At(SubscribeStep(part))
  /\ strategy' = IF Bound("pub", strategy.pub) THEN Connected(part) ELSE Retry(part)
  /\ UNCHANGED <<ttl, mode, gen, up, runner, server, redis>>

(* set_leverage and get_funding_rate are answered by a server that is up, or *)
(* the start fails.                                                          *)
AnsweredAlways == TRUE
Answered == Bound("router", strategy.cmd)
SetLeverage ==
  /\ At("leverage")
  /\ \/ Answered /\ strategy' = [strategy EXCEPT !.step = "funding"]
     \/ strategy' = [Idle EXCEPT !.step = "failed"]
  /\ UNCHANGED <<ttl, mode, gen, up, runner, server, redis>>

(* The engine and the command server are spawned.                            *)
GetFundingRate ==
  /\ At("funding")
  /\ \/ Answered /\ strategy' = [strategy EXCEPT !.step = "run"]
     \/ strategy' = [Idle EXCEPT !.step = "failed"]
  /\ UNCHANGED <<ttl, mode, gen, up, runner, server, redis>>

(* StrategyCommandServer::run, whose error nobody looks at *)
RegisterStrategy ==
  /\ At("run")
  /\ \/ Register("command") /\ strategy' = [strategy EXCEPT !.step = "controlled"]
     \/ strategy' = [strategy EXCEPT !.step = "uncontrolled"] /\ UNCHANGED redis
  /\ UNCHANGED <<ttl, mode, gen, up, runner, server>>

(* A strategy that failed to start: alone, its process ends; with the        *)
(* exchanges, they go on.                                                    *)
StrategyFails ==
  /\ At("failed") /\ mode = "split"
  /\ Down({"strategy"})

StartStep ==
  \/ PollPub \/ PollRouter \/ PollEnds
  \/ \E part \in Part : Lookup(part) \/ LookupPub(part) \/ ConnectDealer(part) \/ Subscribe(part)
  \/ SetLeverage \/ GetFundingRate \/ RegisterStrategy \/ StrategyFails

Next ==
  \/ Tick
  \/ \E s \in Service : Beat(s)
  \/ StartExchange \/ LoadInstruments \/ RunnerEnds \/ ExchangesEnd
  \/ \E s \in {"pub", "router"} : ClearStale(s) \/ RegisterSocket(s)
  \/ StartStrategy \/ StartStep
  \/ \E p \in Process : Stop(p)

Spec == Init /\ [][Next]_vars
-----------------------------------------------------------------------------
TypeOK ==
  /\ ttl \in Ttls /\ mode \in Modes
  /\ gen \in [Process -> 0..MaxGen]
  /\ up \in [Process -> BOOLEAN]
  /\ lease \in [Service -> [at : 0..MaxGen, left : 0..ttl]]
  /\ beat \in [Service -> NoBeat..ttl]

(* A service that runs *)
Serves(s) ==
  IF s = "command" THEN At("controlled")
  ELSE up["exchange"] /\ server = "serve"

(* Whoever looks for a service that runs finds it and no other, unless so    *)
(* many of its heartbeats failed in a row that its time ran out; that takes  *)
(* one at least if the time is three seconds or more (discovery.rs 73-104).  *)
FoundWhileItServes ==
  \A s \in Service :
    Serves(s) /\ Interval > 0 /\ lease[s].at # gen[Owner(s)]
      => lease[s] = NoLease /\ (misses[s] + 1) * Interval >= ttl

(* A strategy that starts to trade sends its commands to the process whose   *)
(* events it follows, though it connects twice and processes may be replaced *)
(* meanwhile (strategy.rs 140-193).                                          *)
StartsOnOneProcess ==
  [][strategy'.step = "run" /\ strategy.step # "run" => strategy'.cmd = strategy'.sub]_vars
=============================================================================

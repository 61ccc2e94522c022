------------------------------ MODULE RestClient ------------------------------
(***************************************************************************)
(* A private REST call of an exchange client that places or cancels an     *)
(* order (core/src/http/client.rs; place_order and cancel_order of the     *)
(* exchanges): an attempt that fails in a way that may pass is repeated    *)
(* with the same client order id and a new signature.  A signature carries *)
(* the time, and the exchange refuses it when the receive window is over.  *)
(*                                                                         *)
(* What the code relies on is assumed of the exchange: it accepts a client *)
(* order id once, and cancels an order once.                               *)
(***************************************************************************)
EXTENDS Naturals

CONSTANTS
  MaxRetries,
  Window,   \* receive window
  MaxTime   \* bound: the clock

RestClientAssumption == MaxRetries \in Nat /\ Window \in Nat /\ MaxTime \in Nat

VARIABLES
  now,
  begun,    \* when the call was made
  step,     \* "idle", "send" (the next attempt), "wait" (for its response)
            \* and "done"
  tries,    \* attempts made
  network,  \* attempts on their way to the exchange
  done,     \* client order ids that the exchange has carried out
  reply,    \* the response to the last attempt, if it is on its way
  answer,   \* what the caller is told
  late      \* ghost: an attempt was longer on its way than the window

vars == <<now, begun, step, tries, network, done, reply, answer, late>>

Try == 1..(MaxRetries + 1)
Attempt == [try : Try, sent : 0..MaxTime, signed : 0..MaxTime]

\* "unavailable": 408, 429 and 5xx; "garbled": success with a body that cannot
\* be parsed
Response == {"ok", "stale", "duplicate", "refused", "unavailable", "garbled"}

TypeOK ==
  /\ now \in 0..MaxTime /\ begun \in 0..MaxTime
  /\ step \in {"idle", "send", "wait", "done"}
  /\ tries \in 0..(MaxRetries + 1)
  /\ network \subseteq Attempt
  /\ done \subseteq Try
  /\ reply \in Response \cup {"none"}
  /\ answer \in Response \cup {"none", "failed"}
  /\ late \in BOOLEAN

Init ==
  /\ now = 0 /\ begun = 0
  /\ step = "idle"
  /\ tries = 0
  /\ network = {}
  /\ done = {}
  /\ reply = "none" /\ answer = "none"
  /\ late = FALSE

-----------------------------------------------------------------------------
(* The client *)
Call ==
  /\ step = "idle"
  /\ step' = "send"
  /\ begun' = now
  /\ UNCHANGED <<now, tries, network, done, reply, answer, late>>

(* AuthMiddleware runs inside the retry middleware, once for every attempt. *)
SignedAtCall == begun
Signed == now

Send ==
  /\ step = "send"
  /\ step' = "wait"
  /\ tries' = tries + 1
  /\ network' = network \cup {[try |-> tries + 1, sent |-> now, signed |-> Signed]}
  /\ UNCHANGED <<now, begun, done, reply, answer, late>>

Answer(a) == step' = "done" /\ answer' = a
RetryOnceMore == tries <= MaxRetries + 1 /\ step' = "send" /\ UNCHANGED answer
Retry == tries <= MaxRetries /\ step' = "send" /\ UNCHANGED answer

(* What a body says of errors, and whether it can be parsed, is looked at    *)
(* after the retries.                                                        *)
Receive ==
  /\ step = "wait" /\ reply # "none"
  /\ reply' = "none"
  /\ IF reply # "unavailable" THEN Answer(reply)
     ELSE Retry \/ (tries > MaxRetries /\ Answer("failed"))
  /\ UNCHANGED <<now, begun, tries, network, done, late>>

(* The attempt times out or its connection breaks, in a way that is thought  *)
(* to pass or not.  A response that is late is not read.                     *)
Fail ==
  /\ step = "wait"
  /\ reply' = "none"
  /\ Retry \/ Answer("failed")
  /\ UNCHANGED <<now, begun, tries, network, done, late>>

-----------------------------------------------------------------------------
(* The exchange, the network and time *)
FreshId(attempt) == attempt.try
ClientOrderId(attempt) == 1

Responses(attempt) ==
  {"unavailable"} \cup
    IF now > attempt.signed + Window THEN {"stale"}
    ELSE IF ClientOrderId(attempt) \in done THEN {"duplicate"}
    ELSE {"ok", "garbled", "refused"}

(* A server that reports itself unavailable may have done its work before. *)
Arrive(attempt) ==
  /\ network' = network \ {attempt}
  /\ late' = (late \/ now > attempt.sent + Window)
  /\ \E response \in Responses(attempt) :
       /\ done' \in
            (CASE response \in {"ok", "garbled"} -> {done \cup {ClientOrderId(attempt)}}
               [] response = "unavailable" /\ "ok" \in Responses(attempt)
                    -> {done, done \cup {ClientOrderId(attempt)}}
               [] OTHER -> {done})
       /\ reply' = IF attempt.try = tries /\ step = "wait" THEN response ELSE reply
  /\ UNCHANGED <<now, begun, step, tries, answer>>

Tick ==
  /\ now < MaxTime
  /\ now' = now + 1
  /\ UNCHANGED <<begun, step, tries, network, done, reply, answer, late>>

Next ==
  \/ Call \/ Send \/ Receive \/ Fail \/ Tick
  \/ \E attempt \in network : Arrive(attempt)

Spec == Init /\ [][Next]_vars
-----------------------------------------------------------------------------
(* However often an attempt is repeated, and however late the ones that were *)
(* given up arrive, the exchange carries the call out once; "ok" and         *)
(* "duplicate" say that it has, and a refusal of the first attempt that it   *)
(* has not and never will (http/client.rs 66-87, 195-232).                   *)
AnswersAreTrue ==
  /\ \A a, b \in done : a = b
  /\ answer \in {"ok", "duplicate"} => done # {}
  /\ answer = "refused" /\ tries = 1 => done = {} /\ network = {}

(* A call is refused as stale only when one of its attempts was longer on    *)
(* its way than the receive window, not because the attempts before it took  *)
(* their time (http/client.rs 71-77).                                        *)
StaleOnlyWhenLate == answer = "stale" => late
=============================================================================

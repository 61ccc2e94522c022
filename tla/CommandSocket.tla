---------------------------- MODULE CommandSocket ----------------------------
(***************************************************************************)
(* The commands of a strategy process to one exchange process              *)
(* (core/src/zmq/client.rs, router.rs and server.rs).  The tasks of a      *)
(* strategy share one DEALER socket, whose mutex a call holds until it has *)
(* an answer or has waited for too long; the server takes one command at a *)
(* time.  Neither commands nor answers carry an id of the call: an answer  *)
(* that comes too late stays in the socket for the next call.              *)
(***************************************************************************)
EXTENDS Integers, Sequences

CONSTANTS
  Callers,   \* tasks and clones of the router that share the socket
  Commands,  \* kinds of command they send
  MaxCalls   \* bound: calls made over the connection

\* Commands whose handler has no error to report
Infallible == {"GetPosition", "GetAllPositions", "GetInstrument", "GetAllInstruments"}
AllKinds == Infallible \cup {"SubmitOrder", "CancelOrder", "GetAccountSnapshot",
                             "GetReferencePrice", "SetLeverage", "GetFundingRate"}

ASSUME CommandSocketAssumption ==
  /\ Commands \subseteq AllKinds
  /\ MaxCalls \in Nat

VARIABLES
  call,     \* what each caller is doing; id 0 until its command is sent
  lock,     \* callers at the mutex in the order they came; the first holds it
  sent,     \* commands sent so far, the ids of which are 1..sent
  requests, \* commands on their way to the server
  serving,  \* the command it works on
  replies,  \* answers on their way to the socket, or in it
  up,       \* FALSE once the server is gone: a new one has another address
  timeouts, \* calls that gave up waiting
  answer    \* the last answer a caller accepted, and the command it was for

vars == <<call, lock, sent, requests, serving, replies, up, timeouts, answer>>

Idle == [kind |-> "none", id |-> 0]
Command == [id : Nat, kind : Commands]
Reply == [of : Nat, kind : Commands \cup {"error"}]
Nothing == [id |-> 0, kind |-> "none"]

TypesOK ==
  /\ call \in [Callers -> [kind : Commands \cup {"none"}, id : Nat]]
  /\ lock \in Seq(Callers)
  /\ sent \in Nat
  /\ requests \in Seq(Command)
  /\ serving \in Command \cup {Nothing}
  /\ replies \in Seq(Reply)
  /\ up \in BOOLEAN
  /\ timeouts \in Nat
  /\ answer \in [own : Nat, of : Nat]

(* The types, and that a caller is at the mutex exactly while it has a call  *)
(* under way (client.rs 80-88).                                              *)
TypeOK ==
  /\ TypesOK
  /\ \A c \in Callers : (call[c] # Idle) <=> (\E i \in 1..Len(lock) : lock[i] = c)

Init ==
  /\ call = [c \in Callers |-> Idle]
  /\ lock = <<>>
  /\ sent = 0
  /\ requests = <<>> /\ serving = Nothing /\ replies = <<>>
  /\ up = TRUE
  /\ timeouts = 0
  /\ answer = [own |-> 0, of |-> 0]

-----------------------------------------------------------------------------
(* The client *)

HoldsUntilSent(c) == \E i \in 1..Len(lock) : lock[i] = c
Holds(c) == lock # <<>> /\ c = Head(lock)

Begin(c, k) ==
  /\ call[c] = Idle
  /\ sent + Len(lock) < MaxCalls
  /\ call' = [call EXCEPT ![c] = [kind |-> k, id |-> 0]]
  /\ lock' = Append(lock, c)
  /\ UNCHANGED <<sent, requests, serving, replies, up, timeouts, answer>>

ReleasedNever == lock
Released == Tail(lock)

Return(c) ==
  /\ call' = [call EXCEPT ![c] = Idle]
  /\ lock' = Released

(* What is sent to a server that is gone may get lost without an error. *)
Send(c) ==
  /\ Holds(c) /\ call[c].id = 0
  /\ call' = [call EXCEPT ![c] = [kind |-> call[c].kind, id |-> sent + 1]]
  /\ sent' = sent + 1
  /\ requests' = IF up THEN Append(requests, [id |-> sent + 1, kind |-> call[c].kind])
                 ELSE requests
  /\ UNCHANGED <<lock, serving, replies, up, timeouts, answer>>

SendFails(c) ==
  /\ Holds(c) /\ call[c].id = 0
  /\ ~up
  /\ Return(c)
  /\ UNCHANGED <<sent, requests, serving, replies, up, timeouts, answer>>

\* The only check on an answer is its kind.
Accepts(c, reply) == reply.kind = call[c].kind

(* Whatever comes first is taken for the answer. *)
Receive(c) ==
  /\ Holds(c) /\ call[c].id # 0
  /\ replies # <<>>
  /\ replies' = Tail(replies)
  /\ answer' = IF Accepts(c, Head(replies))
               THEN [own |-> call[c].id, of |-> Head(replies).of]
               ELSE answer
  /\ Return(c)
  /\ UNCHANGED <<sent, requests, serving, up, timeouts>>

WaitsForEver == FALSE
GivesUp == replies = <<>>

GiveUp(c) ==
  /\ Holds(c) /\ call[c].id # 0
  /\ GivesUp
  /\ timeouts' = timeouts + 1
  /\ Return(c)
  /\ UNCHANGED <<sent, requests, serving, replies, up, answer>>

-----------------------------------------------------------------------------
(* The server *)

TakeCommand ==
  /\ serving = Nothing /\ requests # <<>>
  /\ serving' = Head(requests)
  /\ requests' = Tail(requests)
  /\ UNCHANGED <<call, lock, sent, replies, up, timeouts, answer>>

\* What the dispatcher may answer
Answers(command) ==
  {command.kind} \cup IF command.kind \in Infallible THEN {} ELSE {"error"}

(* The handler is awaited for as long as it takes.  An answer that cannot be *)
(* sent is logged.                                                           *)
Answer ==
  /\ serving # Nothing
  /\ serving' = Nothing
  /\ \/ \E k \in Answers(serving) :
          replies' = Append(replies, [of |-> serving.id, kind |-> k])
     \/ UNCHANGED replies
  /\ UNCHANGED <<call, lock, sent, requests, up, timeouts, answer>>

(* The process ends; answers that have reached the socket stay there. *)
ServerEnds ==
  /\ up /\ up' = FALSE
  /\ requests' = <<>> /\ serving' = Nothing
  /\ UNCHANGED <<call, lock, sent, replies, timeouts, answer>>

-----------------------------------------------------------------------------
Next ==
  \/ \E c \in Callers :
       \/ \E k \in Commands : Begin(c, k)
       \/ Send(c) \/ SendFails(c) \/ Receive(c) \/ GiveUp(c)
  \/ TakeCommand
  \/ Answer
  \/ ServerEnds

Spec == Init /\ [][Next]_vars

(* A call is awaited by a task that runs.  Nothing is asked of the server.   *)
Fairness ==
  \A c \in Callers : WF_vars(Send(c) \/ SendFails(c) \/ Receive(c) \/ GiveUp(c))

FairSpec == Spec /\ Fairness

-----------------------------------------------------------------------------
(* The answer a call accepts is its own as long as no call over the          *)
(* connection has timed out, and else at most as many commands old as calls  *)
(* have timed out: that is what holding the mutex across the wait is worth   *)
(* (client.rs 80-88).                                                        *)
AnswersLagBehindTimeouts ==
  /\ answer.of <= answer.own
  /\ answer.own - answer.of <= timeouts

(* Every call returns, in its turn, whatever the server does or does not do  *)
(* (client.rs 84-88).                                                        *)
CallsReturn == \A c \in Callers : call[c] # Idle ~> call[c] = Idle
=============================================================================

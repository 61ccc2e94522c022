------------------------- MODULE CommandSocketProofs -------------------------
(***************************************************************************)
(* What runs between the processes, proved for every number of callers,    *)
(* calls, processes and events, every time to live and channel capacity.   *)
(*                                                                         *)
(* First how old an accepted answer can be.  The commands in flight are in *)
(* the order they were sent, and as each call but those that timed out has *)
(* taken an answer away, the oldest of them is at most as many commands    *)
(* old as calls have timed out.                                            *)
(***************************************************************************)
EXTENDS Processes, TLAPS

Awaited == \E c \in Callers : call[c].id # 0

\* What the oldest command in flight is at least
Oldest == IF Awaited THEN sent - timeouts ELSE sent - timeouts + 1
InFlight(id) == Oldest <= id /\ id <= sent
InFlightNext(id) == Oldest' <= id /\ id <= sent'

(* Nobody comes to the mutex twice at a time. *)
QueueInv == \A i, j \in 1..Len(lock) : lock[i] = lock[j] => i = j

(* Only the caller that holds the mutex awaits an answer, that of the last   *)
(* command sent.                                                             *)
HolderInv ==
  \A c \in Callers : call[c].id # 0 => Holds(c) /\ call[c].id = sent

BoundInv ==
  /\ \A i \in 1..Len(replies) : InFlight(replies[i].of)
  /\ \A i \in 1..Len(requests) : InFlight(requests[i].id)
  /\ serving # Nothing => InFlight(serving.id)

OrderInv ==
  /\ \A i, j \in 1..Len(replies) : i < j => replies[i].of < replies[j].of
  /\ \A i, j \in 1..Len(requests) : i < j => requests[i].id < requests[j].id
  /\ \A i \in 1..Len(replies), j \in 1..Len(requests) : replies[i].of < requests[j].id
  /\ serving # Nothing =>
       /\ \A i \in 1..Len(replies) : replies[i].of < serving.id
       /\ \A j \in 1..Len(requests) : serving.id < requests[j].id

IInv ==
  /\ TypeOK /\ QueueInv
  /\ HolderInv /\ BoundInv /\ OrderInv
  /\ AnswersLagBehindTimeouts

LEMMA InitIInv == Init => IInv
BY DEF Init, IInv, TypeOK, TypesOK, QueueInv, HolderInv, BoundInv, OrderInv,
   AnswersLagBehindTimeouts, Idle, Nothing

-----------------------------------------------------------------------------
(* The mutex *)

(* A call that returns leaves the queue, and nobody else does. *)
LEMMA ReturnKeepsQueue ==
  ASSUME TypeOK, QueueInv, NEW c \in Callers, Holds(c), Return(c)
  PROVE  /\ call' \in [Callers -> [kind : Commands \cup {"none"}, id : Nat]]
         /\ lock' \in Seq(Callers)
         /\ \A d \in Callers : (call'[d] # Idle) <=> (\E i \in 1..Len(lock') : lock'[i] = d)
         /\ QueueInv'
<1> USE DEF TypeOK, TypesOK, Return, Holds, Released, Idle
<1>1. /\ lock' \in Seq(Callers)
      /\ Len(lock') = Len(lock) - 1
      /\ \A i \in 1..Len(lock') : lock'[i] = lock[i + 1]
  OBVIOUS
<1>2. QueueInv'
  BY <1>1 DEF QueueInv
<1>3. ASSUME NEW d \in Callers
      PROVE  (call'[d] # Idle) <=> (\E i \in 1..Len(lock') : lock'[i] = d)
  <2>1. CASE d = c
    <3>1. ASSUME NEW i \in 1..Len(lock'), lock'[i] = c PROVE FALSE
      <4>1. lock[i + 1] = lock[1] /\ i + 1 \in 1..Len(lock) /\ 1 \in 1..Len(lock)
        BY <1>1, <3>1
      <4> QED BY <4>1 DEF QueueInv
    <3> QED BY <2>1, <3>1
  <2>2. CASE d # c
    <3>1. call'[d] = call[d]
      BY <2>2
    <3>2. ASSUME NEW i \in 1..Len(lock), lock[i] = d
          PROVE  \E j \in 1..Len(lock') : lock'[j] = d
      <4>1. i # 1
        BY <2>2, <3>2
      <4>2. i - 1 \in 1..Len(lock') /\ lock'[i - 1] = d
        BY <1>1, <3>2, <4>1
      <4> QED BY <4>2
    <3>3. ASSUME NEW j \in 1..Len(lock'), lock'[j] = d
          PROVE  \E i \in 1..Len(lock) : lock[i] = d
      <4>1. j + 1 \in 1..Len(lock) /\ lock[j + 1] = d
        BY <1>1, <3>3
      <4> QED BY <4>1
    <3> QED BY <3>1, <3>2, <3>3
  <2> QED BY <2>1, <2>2
<1> QED BY <1>1, <1>2, <1>3

LEMMA BeginKeepsQueue ==
  ASSUME TypeOK, QueueInv, NEW c \in Callers, NEW k \in Commands, Begin(c, k)
  PROVE  TypeOK' /\ QueueInv'
<1> USE DEF TypeOK, TypesOK, Begin
<1>1. /\ lock' \in Seq(Callers)
      /\ Len(lock') = Len(lock) + 1
      /\ \A i \in 1..Len(lock) : lock'[i] = lock[i]
      /\ lock'[Len(lock) + 1] = c
  OBVIOUS
<1>2. \A i \in 1..Len(lock) : lock[i] # c
  OBVIOUS
<1>3. QueueInv'
  BY <1>1, <1>2 DEF QueueInv
<1>4. call' \in [Callers -> [kind : Commands \cup {"none"}, id : Nat]]
  OBVIOUS
<1>5. k # "none"
  BY CommandSocketAssumption DEF AllKinds, Infallible
<1>6. ASSUME NEW d \in Callers
      PROVE  (call'[d] # Idle) <=> (\E i \in 1..Len(lock') : lock'[i] = d)
  <2>1. CASE d = c
    <3>1. call'[d].kind = k
      BY <2>1
    <3>2. call'[d] # Idle
      BY <1>5, <3>1 DEF Idle
    <3>3. Len(lock) + 1 \in 1..Len(lock')
      BY <1>1
    <3> QED BY <1>1, <2>1, <3>2, <3>3
  <2>2. CASE d # c
    <3>1. call'[d] = call[d]
      BY <2>2
    <3>2. (\E i \in 1..Len(lock') : lock'[i] = d) <=> (\E i \in 1..Len(lock) : lock[i] = d)
      BY <1>1, <2>2
    <3> QED BY <3>1, <3>2
  <2> QED BY <2>1, <2>2
<1> QED BY <1>1, <1>3, <1>4, <1>6

(* A call that holds the mutex is of some kind. *)
LEMMA HolderCalls ==
  ASSUME TypeOK, NEW c \in Callers, Holds(c)
  PROVE  call[c] # Idle
<1>1. 1 \in 1..Len(lock) /\ lock[1] = c
  BY DEF TypeOK, TypesOK, Holds
<1> QED BY <1>1 DEF TypeOK

-----------------------------------------------------------------------------
(* Every step keeps the types and the queue at the mutex. *)
LEMMA NextTypeOK == TypeOK /\ QueueInv /\ [Next]_vars => TypeOK' /\ QueueInv'
<1> SUFFICES ASSUME TypeOK, QueueInv, [Next]_vars PROVE TypeOK' /\ QueueInv'
  OBVIOUS
<1>1. ASSUME NEW c \in Callers, NEW k \in Commands, Begin(c, k)
      PROVE  TypeOK' /\ QueueInv'
  BY <1>1, BeginKeepsQueue
<1>2. ASSUME NEW c \in Callers, Send(c) PROVE TypeOK' /\ QueueInv'
  <2>1. Holds(c) /\ call[c].id = 0 /\ sent \in Nat
    BY <1>2 DEF Send, TypeOK, TypesOK
  <2>2. call[c] # Idle /\ call[c] \in [kind : Commands \cup {"none"}, id : Nat]
    BY <2>1, HolderCalls DEF TypeOK, TypesOK
  <2>3. call[c].kind \in Commands
    BY <2>1, <2>2 DEF Idle
  <2>4. requests' \in Seq(Command)
    <3>1. [id |-> sent + 1, kind |-> call[c].kind] \in Command
      BY <2>1, <2>3 DEF Command
    <3>2. requests \in Seq(Command)
      BY DEF TypeOK, TypesOK
    <3>3. \/ requests' = Append(requests, [id |-> sent + 1, kind |-> call[c].kind])
          \/ requests' = requests
      BY <1>2 DEF Send
    <3> QED BY <3>1, <3>2, <3>3
  <2>5. /\ call' \in [Callers -> [kind : Commands \cup {"none"}, id : Nat]]
        /\ call'[c].id # 0
        /\ \A d \in Callers \ {c} : call'[d] = call[d]
    BY <1>2, <2>1, <2>2 DEF Send, TypeOK, TypesOK
  <2>6. \A d \in Callers : (call'[d] # Idle) <=> (call[d] # Idle)
    BY <2>2, <2>5 DEF Idle
  <2>7. UNCHANGED <<lock, serving, replies, up, timeouts, answer>> /\ sent' \in Nat
    BY <1>2, <2>1 DEF Send
  <2>8. TypesOK'
    BY <2>4, <2>5, <2>7 DEF TypeOK, TypesOK
  <2> QED BY <2>6, <2>7, <2>8 DEF TypeOK, QueueInv
<1>3. ASSUME NEW c \in Callers, SendFails(c) PROVE TypeOK' /\ QueueInv'
  BY <1>3, ReturnKeepsQueue DEF TypeOK, TypesOK, SendFails
<1>4. ASSUME NEW c \in Callers, Receive(c) PROVE TypeOK' /\ QueueInv'
  <2>1. Head(replies) \in Reply /\ Tail(replies) \in Seq(Reply)
    BY <1>4 DEF TypeOK, TypesOK, Receive
  <2>2. call[c].id \in Nat /\ Head(replies).of \in Nat
    BY <2>1 DEF TypeOK, TypesOK, Reply
  <2>3. answer' \in [own : Nat, of : Nat]
    BY <1>4, <2>2 DEF TypeOK, TypesOK, Receive
  <2>4. Holds(c) /\ Return(c) /\ replies' = Tail(replies)
        /\ UNCHANGED <<sent, requests, serving, up, timeouts>>
    BY <1>4 DEF Receive
  <2> QED BY <2>1, <2>3, <2>4, ReturnKeepsQueue DEF TypeOK, TypesOK
<1>5. ASSUME NEW c \in Callers, GiveUp(c) PROVE TypeOK' /\ QueueInv'
  BY <1>5, ReturnKeepsQueue DEF TypeOK, TypesOK, GiveUp
<1>6. CASE TakeCommand
  BY <1>6 DEF TypeOK, TypesOK, QueueInv, TakeCommand
<1>7. CASE Answer
  <2>1. serving \in Command
    BY <1>7 DEF TypeOK, TypesOK, Answer
  <2>2. \A k \in Answers(serving) : [of |-> serving.id, kind |-> k] \in Reply
    BY <2>1 DEF Answers, Command, Reply
  <2>3. replies' \in Seq(Reply)
    <3>1. replies \in Seq(Reply)
      BY DEF TypeOK, TypesOK
    <3>2. CASE UNCHANGED replies
      BY <3>1, <3>2
    <3>3. ASSUME NEW k \in Answers(serving),
                 replies' = Append(replies, [of |-> serving.id, kind |-> k])
          PROVE  replies' \in Seq(Reply)
      BY <2>2, <3>1, <3>3
    <3> QED BY <1>7, <3>2, <3>3 DEF Answer
  <2> QED BY <1>7, <2>3 DEF TypeOK, TypesOK, QueueInv, Answer
<1>8. CASE ServerEnds
  <2>1. up' \in BOOLEAN
    BY <1>8 DEF ServerEnds
  <2>2. requests' \in Seq(Command) /\ serving' \in Command \cup {Nothing}
    BY <1>8 DEF ServerEnds
  <2>3. UNCHANGED <<call, lock, sent, replies, timeouts, answer>>
    BY <1>8 DEF ServerEnds
  <2> QED BY <2>1, <2>2, <2>3 DEF TypeOK, TypesOK, QueueInv
<1>9. CASE UNCHANGED vars
  BY <1>9 DEF TypeOK, TypesOK, QueueInv, vars
<1> QED BY <1>1, <1>2, <1>3, <1>4, <1>5, <1>6, <1>7, <1>8, <1>9 DEF Next

-----------------------------------------------------------------------------
(* Nobody awaits an answer when the holder of the mutex has yet to send, nor *)
(* once a call has returned.                                                 *)
LEMMA OneAwaits ==
  ASSUME TypeOK, HolderInv, NEW c \in Callers, Holds(c)
  PROVE  /\ call[c].id = 0 => ~Awaited
         /\ Return(c) => ~Awaited'
<1>1. \A d \in Callers : d # c => call[d].id = 0
  BY DEF HolderInv, Holds
<1>2. call \in [Callers -> [kind : Commands \cup {"none"}, id : Nat]]
  BY DEF TypeOK, TypesOK
<1>3. ASSUME Return(c) PROVE \A d \in Callers : call'[d].id = 0
  BY <1>1, <1>2, <1>3 DEF Return, Idle
<1> QED BY <1>1, <1>3 DEF Awaited

LEMMA NextHolderInv ==
  ASSUME TypeOK, HolderInv, [Next]_vars
  PROVE  HolderInv'
<1>1. ASSUME NEW c \in Callers, NEW k \in Commands, Begin(c, k) PROVE HolderInv'
  <2>1. lock \in Seq(Callers) /\ lock' = Append(lock, c) /\ sent' = sent
    BY <1>1 DEF TypeOK, TypesOK, Begin
  <2>2. \A d \in Callers : call'[d].id # 0 => call'[d] = call[d]
    BY <1>1 DEF TypeOK, TypesOK, Begin
  <2>3. \A d \in Callers : Holds(d) => Holds(d)'
    BY <2>1 DEF Holds
  <2> QED BY <2>1, <2>2, <2>3 DEF HolderInv
<1>2. ASSUME NEW c \in Callers, Send(c) PROVE HolderInv'
  <2>1. \A d \in Callers : d # c => call[d].id = 0
    BY <1>2 DEF HolderInv, Holds, Send
  <2>2. /\ call'[c].id = sent + 1 /\ sent' = sent + 1 /\ lock' = lock
        /\ \A d \in Callers : d # c => call'[d] = call[d]
    BY <1>2 DEF TypeOK, TypesOK, Send
  <2> QED BY <1>2, <2>1, <2>2 DEF HolderInv, Holds, Send
<1>3. ASSUME NEW c \in Callers, Holds(c), Return(c) PROVE HolderInv'
  BY <1>3, OneAwaits DEF HolderInv, Awaited
<1>4. CASE UNCHANGED <<call, lock, sent>>
  BY <1>4 DEF HolderInv, Holds
<1> QED BY <1>1, <1>2, <1>3, <1>4
        DEF Next, SendFails, Receive, GiveUp, TakeCommand, Answer, ServerEnds, vars

-----------------------------------------------------------------------------
(* How far the oldest command in flight may be behind: an answer that is     *)
(* taken away moves it on, a call that times out does not.                   *)
LEMMA OldestMoves ==
  ASSUME TypeOK, HolderInv
  PROVE  /\ Oldest \in Int
         /\ \A c \in Callers, k \in Commands : Begin(c, k) => Oldest' = Oldest
         /\ \A c \in Callers :
              /\ Send(c) => Oldest' = Oldest /\ Oldest <= sent + 1
              /\ SendFails(c) \/ GiveUp(c) => Oldest' = Oldest
              /\ Receive(c) => Oldest' = Oldest + 1 /\ Oldest = sent - timeouts
         /\ UNCHANGED <<call, sent, timeouts>> => Oldest' = Oldest
<1> USE DEF TypeOK, TypesOK
<1>1. Oldest \in Int
  BY DEF Oldest
<1>2. ASSUME NEW c \in Callers, NEW k \in Commands, Begin(c, k) PROVE Oldest' = Oldest
  <2>1. \A d \in Callers : call'[d].id = call[d].id
    BY <1>2 DEF Begin, Idle
  <2> QED BY <1>2, <2>1 DEF Oldest, Awaited, Begin
<1>3. ASSUME NEW c \in Callers, Send(c) PROVE Oldest' = Oldest /\ Oldest <= sent + 1
  <2>1. ~Awaited
    BY <1>3, OneAwaits DEF Send
  <2>2. call'[c].id = sent + 1
    BY <1>3 DEF Send
  <2>3. Awaited'
    BY <2>2 DEF Awaited
  <2>4. sent' = sent + 1 /\ timeouts' = timeouts
    BY <1>3 DEF Send
  <2> QED BY <2>1, <2>3, <2>4 DEF Oldest
<1>4. ASSUME NEW c \in Callers, SendFails(c) PROVE Oldest' = Oldest
  <2>1. ~Awaited /\ ~Awaited'
    BY <1>4, OneAwaits DEF SendFails
  <2> QED BY <1>4, <2>1 DEF Oldest, SendFails
<1>5. ASSUME NEW c \in Callers, GiveUp(c) PROVE Oldest' = Oldest
  <2>1. Awaited /\ ~Awaited'
    BY <1>5, OneAwaits DEF GiveUp, Awaited
  <2>2. sent' = sent /\ timeouts' = timeouts + 1
    BY <1>5 DEF GiveUp
  <2> QED BY <2>1, <2>2 DEF Oldest
<1>6. ASSUME NEW c \in Callers, Receive(c)
      PROVE  Oldest' = Oldest + 1 /\ Oldest = sent - timeouts
  <2>1. Awaited /\ ~Awaited'
    BY <1>6, OneAwaits DEF Receive, Awaited
  <2>2. sent' = sent /\ timeouts' = timeouts
    BY <1>6 DEF Receive
  <2> QED BY <2>1, <2>2 DEF Oldest
<1>7. ASSUME UNCHANGED <<call, sent, timeouts>> PROVE Oldest' = Oldest
  BY <1>7 DEF Oldest, Awaited
<1> QED BY <1>1, <1>2, <1>3, <1>4, <1>5, <1>6, <1>7

-----------------------------------------------------------------------------
(* What is in flight stays in order and in bounds. *)
FlightInv == BoundInv /\ OrderInv

LEMMA FlightFrame ==
  ASSUME FlightInv, UNCHANGED <<sent, requests, serving, replies>>, Oldest' = Oldest
  PROVE  FlightInv'
BY DEF FlightInv, BoundInv, OrderInv, InFlight

LEMMA FlightTyped ==
  ASSUME TypeOK
  PROVE  /\ \A i \in 1..Len(requests) : requests[i].id \in Nat
         /\ \A i \in 1..Len(replies) : replies[i].of \in Nat
         /\ serving # Nothing => serving.id \in Nat
<1>1. /\ requests \in Seq(Command) /\ replies \in Seq(Reply)
      /\ serving \in Command \cup {Nothing}
  BY DEF TypeOK, TypesOK
<1>2. \A i \in 1..Len(requests) : requests[i] \in Command
  BY <1>1
<1>3. \A i \in 1..Len(replies) : replies[i] \in Reply
  BY <1>1
<1> QED BY <1>1, <1>2, <1>3 DEF Command, Reply

LEMMA SendKeepsFlight ==
  ASSUME TypeOK, HolderInv, FlightInv, NEW c \in Callers, Send(c)
  PROVE  FlightInv'
<1> DEFINE cmd == [id |-> sent + 1, kind |-> call[c].kind]
<1>1. /\ Oldest' = Oldest /\ Oldest <= sent + 1 /\ Oldest \in Int
      /\ sent' = sent + 1 /\ sent \in Nat
      /\ UNCHANGED <<serving, replies>>
  BY OldestMoves DEF Send, TypeOK, TypesOK
<1>2. /\ requests \in Seq(Command) /\ replies \in Seq(Reply)
      /\ serving \in Command \cup {Nothing}
  BY DEF TypeOK, TypesOK
<1>3. \A id \in Nat : InFlight(id) => InFlightNext(id) /\ id < sent + 1
  BY <1>1 DEF InFlight, InFlightNext
<1>4. InFlightNext(sent + 1)
  BY <1>1 DEF InFlight, InFlightNext
<1>5. CASE requests' = requests
  BY <1>1, <1>3, <1>5, FlightTyped
     DEF FlightInv, BoundInv, OrderInv, InFlight, InFlightNext
<1>6. CASE requests' = Append(requests, cmd)
  <2>1. /\ Len(requests') = Len(requests) + 1
        /\ \A i \in 1..Len(requests) : requests'[i] = requests[i]
        /\ requests'[Len(requests) + 1].id = sent + 1
    BY <1>2, <1>6
  <2>2. /\ \A i \in 1..Len(requests) : requests[i].id \in Nat
        /\ \A i \in 1..Len(replies) : replies[i].of \in Nat
        /\ serving # Nothing => serving.id \in Nat
    BY FlightTyped
  <2>3. BoundInv'
    <3>1. \A i \in 1..Len(requests') : InFlightNext(requests'[i].id)
      BY <1>2, <1>3, <1>4, <2>1, <2>2 DEF FlightInv, BoundInv
    <3>2. \A i \in 1..Len(replies) : InFlightNext(replies[i].of)
      BY <1>3, <2>2 DEF FlightInv, BoundInv
    <3>3. serving # Nothing => InFlightNext(serving.id)
      BY <1>3, <2>2 DEF FlightInv, BoundInv
    <3> QED BY <1>1, <3>1, <3>2, <3>3 DEF BoundInv, InFlight, InFlightNext
  <2>4. /\ \A i \in 1..Len(requests) : requests[i].id < sent + 1
        /\ \A i \in 1..Len(replies) : replies[i].of < sent + 1
        /\ serving # Nothing => serving.id < sent + 1
    BY <1>3, <2>2 DEF FlightInv, BoundInv
  <2>5. Len(requests) \in Nat
    BY <1>2
  <2>6. \A i, j \in 1..Len(requests') : i < j => requests'[i].id < requests'[j].id
    BY <2>1, <2>4, <2>5 DEF FlightInv, OrderInv
  <2>7. \A i \in 1..Len(replies), j \in 1..Len(requests') : replies[i].of < requests'[j].id
    BY <2>1, <2>4, <2>5 DEF FlightInv, OrderInv
  <2>8. serving # Nothing => \A j \in 1..Len(requests') : serving.id < requests'[j].id
    BY <2>1, <2>4, <2>5 DEF FlightInv, OrderInv
  <2>9. OrderInv'
    BY <1>1, <2>6, <2>7, <2>8 DEF FlightInv, OrderInv
  <2> QED BY <2>3, <2>9 DEF FlightInv
<1> QED BY <1>5, <1>6 DEF Send

(* The first answer in the socket is of the oldest command. *)
LEMMA ReceiveKeepsFlight ==
  ASSUME TypeOK, HolderInv, FlightInv, NEW c \in Callers, Receive(c)
  PROVE  FlightInv'
<1>1. /\ Oldest' = Oldest + 1 /\ Oldest \in Int
      /\ UNCHANGED <<sent, requests, serving>> /\ sent \in Nat
  BY OldestMoves DEF Receive, TypeOK, TypesOK
<1>2. /\ requests \in Seq(Command) /\ replies \in Seq(Reply)
      /\ serving \in Command \cup {Nothing}
  BY DEF TypeOK, TypesOK
<1>3. /\ 1 \in 1..Len(replies)
      /\ Len(replies') = Len(replies) - 1
      /\ \A i \in 1..Len(replies') : i + 1 \in 1..Len(replies) /\ replies'[i] = replies[i + 1]
  BY <1>2 DEF Receive
<1>4. /\ \A i \in 1..Len(requests) : requests[i].id \in Nat
      /\ \A i \in 1..Len(replies) : replies[i].of \in Nat
      /\ serving # Nothing => serving.id \in Nat
  BY FlightTyped
<1>5. \A id \in Nat : InFlight(id) /\ replies[1].of < id => InFlightNext(id)
  <2>1. InFlight(replies[1].of) /\ replies[1].of \in Nat
    BY <1>3, <1>4 DEF FlightInv, BoundInv
  <2> QED BY <1>1, <2>1 DEF InFlight, InFlightNext
<1>6. BoundInv'
  <2>1. ASSUME NEW i \in 1..Len(replies') PROVE InFlightNext(replies'[i].of)
    <3>1. /\ i + 1 \in 1..Len(replies) /\ 1 < i + 1
          /\ replies'[i] = replies[i + 1]
      BY <1>3
    <3>2. replies[1].of < replies[i + 1].of /\ InFlight(replies[i + 1].of)
      BY <1>3, <3>1 DEF FlightInv, BoundInv, OrderInv
    <3> QED BY <1>4, <1>5, <3>1, <3>2
  <2>2. \A i \in 1..Len(requests) : InFlightNext(requests[i].id)
    BY <1>3, <1>4, <1>5 DEF FlightInv, BoundInv, OrderInv
  <2>3. serving # Nothing => InFlightNext(serving.id)
    BY <1>3, <1>4, <1>5 DEF FlightInv, BoundInv, OrderInv
  <2> QED BY <1>1, <2>1, <2>2, <2>3 DEF BoundInv, InFlight, InFlightNext
<1>7. OrderInv'
  <2>1. ASSUME NEW i \in 1..Len(replies'), NEW j \in 1..Len(replies'), i < j
        PROVE  replies'[i].of < replies'[j].of
    <3>1. i + 1 < j + 1
      BY <2>1
    <3> QED BY <1>3, <3>1 DEF FlightInv, OrderInv
  <2>2. \A i \in 1..Len(replies'), j \in 1..Len(requests) : replies'[i].of < requests[j].id
    BY <1>3 DEF FlightInv, OrderInv
  <2>3. serving # Nothing => \A i \in 1..Len(replies') : replies'[i].of < serving.id
    BY <1>3 DEF FlightInv, OrderInv
  <2> QED BY <1>1, <2>1, <2>2, <2>3 DEF FlightInv, OrderInv
<1> QED BY <1>6, <1>7 DEF FlightInv

LEMMA TakeKeepsFlight ==
  ASSUME TypeOK, FlightInv, TakeCommand
  PROVE  FlightInv'
<1>1. UNCHANGED <<call, sent, timeouts, replies>> /\ serving' = Head(requests)
  BY DEF TakeCommand
<1>2. Oldest' = Oldest
  BY <1>1 DEF Oldest, Awaited
<1>3. requests \in Seq(Command)
  BY DEF TypeOK, TypesOK
<1>4. /\ 1 \in 1..Len(requests) /\ serving' = requests[1]
      /\ Len(requests') = Len(requests) - 1
      /\ \A i \in 1..Len(requests') : /\ i + 1 \in 1..Len(requests) /\ 1 < i + 1
                                      /\ requests'[i] = requests[i + 1]
  BY <1>3 DEF TakeCommand
<1>5. BoundInv'
  <2>1. \A i \in 1..Len(requests') : InFlight(requests'[i].id)
    BY <1>4 DEF FlightInv, BoundInv
  <2>2. InFlight(serving'.id)
    BY <1>4 DEF FlightInv, BoundInv
  <2> QED BY <1>1, <1>2, <2>1, <2>2 DEF FlightInv, BoundInv, InFlight
<1>6. OrderInv'
  <2>1. ASSUME NEW i \in 1..Len(requests'), NEW j \in 1..Len(requests'), i < j
        PROVE  requests'[i].id < requests'[j].id
    <3>1. i + 1 < j + 1
      BY <2>1
    <3> QED BY <1>4, <3>1 DEF FlightInv, OrderInv
  <2>2. \A i \in 1..Len(replies), j \in 1..Len(requests') : replies[i].of < requests'[j].id
    BY <1>4 DEF FlightInv, OrderInv
  <2>3. \A i \in 1..Len(replies) : replies[i].of < serving'.id
    BY <1>4 DEF FlightInv, OrderInv
  <2>4. \A j \in 1..Len(requests') : serving'.id < requests'[j].id
    BY <1>4 DEF FlightInv, OrderInv
  <2> QED BY <1>1, <2>1, <2>2, <2>3, <2>4 DEF FlightInv, OrderInv
<1> QED BY <1>5, <1>6 DEF FlightInv

LEMMA AnswerKeepsFlight ==
  ASSUME TypeOK, FlightInv, Answer
  PROVE  FlightInv'
<1>1. /\ UNCHANGED <<call, sent, timeouts, requests>>
      /\ serving # Nothing /\ serving' = Nothing
  BY DEF Answer
<1>2. Oldest' = Oldest
  BY <1>1 DEF Oldest, Awaited
<1>3. CASE UNCHANGED replies
  BY <1>1, <1>2, <1>3 DEF FlightInv, BoundInv, OrderInv, InFlight
<1>4. ASSUME NEW k \in Answers(serving),
             replies' = Append(replies, [of |-> serving.id, kind |-> k])
      PROVE  FlightInv'
  <2>1. replies \in Seq(Reply)
    BY DEF TypeOK, TypesOK
  <2>2. /\ Len(replies) \in Nat /\ Len(replies') = Len(replies) + 1
        /\ \A i \in 1..Len(replies) : replies'[i] = replies[i]
        /\ replies'[Len(replies) + 1].of = serving.id
    BY <1>4, <2>1
  <2>3. \A i \in 1..Len(replies') : InFlight(replies'[i].of)
    BY <1>1, <2>2 DEF FlightInv, BoundInv
  <2>4. \A i, j \in 1..Len(replies') : i < j => replies'[i].of < replies'[j].of
    BY <1>1, <2>2 DEF FlightInv, OrderInv
  <2>5. \A i \in 1..Len(replies'), j \in 1..Len(requests) : replies'[i].of < requests[j].id
    BY <1>1, <2>2 DEF FlightInv, OrderInv
  <2>6. BoundInv'
    BY <1>1, <1>2, <2>3 DEF FlightInv, BoundInv, InFlight
  <2>7. OrderInv'
    BY <1>1, <2>4, <2>5 DEF FlightInv, OrderInv
  <2> QED BY <2>6, <2>7 DEF FlightInv
<1> QED BY <1>3, <1>4 DEF Answer

LEMMA EndKeepsFlight ==
  ASSUME FlightInv, ServerEnds
  PROVE  FlightInv'
<1>1. Oldest' = Oldest
  BY DEF ServerEnds, Oldest, Awaited
<1>2. /\ UNCHANGED <<sent, replies>> /\ serving' = Nothing
      /\ Len(requests') = 0
  BY DEF ServerEnds
<1> QED BY <1>1, <1>2 DEF FlightInv, BoundInv, OrderInv, InFlight

LEMMA NextFlightInv ==
  ASSUME TypeOK, HolderInv, FlightInv, [Next]_vars
  PROVE  FlightInv'
<1>1. ASSUME NEW c \in Callers, NEW k \in Commands, Begin(c, k) PROVE FlightInv'
  BY <1>1, OldestMoves, FlightFrame DEF Begin
<1>2. ASSUME NEW c \in Callers, Send(c) PROVE FlightInv'
  BY <1>2, SendKeepsFlight
<1>3. ASSUME NEW c \in Callers, SendFails(c) \/ GiveUp(c) PROVE FlightInv'
  <2>1. UNCHANGED <<sent, requests, serving, replies>>
    BY <1>3 DEF SendFails, GiveUp
  <2> QED BY <1>3, <2>1, OldestMoves, FlightFrame
<1>4. ASSUME NEW c \in Callers, Receive(c) PROVE FlightInv'
  BY <1>4, ReceiveKeepsFlight
<1>5. CASE UNCHANGED vars
  BY <1>5, OldestMoves, FlightFrame DEF vars
<1> QED BY <1>1, <1>2, <1>3, <1>4, <1>5, TakeKeepsFlight, AnswerKeepsFlight, EndKeepsFlight
        DEF Next

-----------------------------------------------------------------------------
(* The answer accepted is the first in the socket, for the last command sent. *)
LEMMA NextAnswers ==
  ASSUME TypeOK, HolderInv, FlightInv, AnswersLagBehindTimeouts, [Next]_vars
  PROVE  AnswersLagBehindTimeouts'
<1>1. ASSUME NEW c \in Callers, Receive(c) PROVE AnswersLagBehindTimeouts'
  <2>1. call[c].id = sent /\ Oldest = sent - timeouts /\ timeouts' = timeouts
    BY <1>1, OldestMoves DEF Receive, HolderInv
  <2>2. 1 \in 1..Len(replies) /\ Head(replies) = replies[1]
    BY <1>1 DEF Receive, TypeOK, TypesOK
  <2>3. InFlight(Head(replies).of) /\ Head(replies).of \in Nat
    BY <2>2, FlightTyped DEF FlightInv, BoundInv
  <2>4. sent \in Nat /\ timeouts \in Nat
    BY DEF TypeOK, TypesOK
  <2>5. \/ answer' = [own |-> sent, of |-> Head(replies).of]
        \/ answer' = answer
    BY <1>1, <2>1 DEF Receive
  <2> QED BY <2>1, <2>3, <2>4, <2>5 DEF AnswersLagBehindTimeouts, InFlight
<1>2. ASSUME NEW c \in Callers, GiveUp(c) PROVE AnswersLagBehindTimeouts'
  BY <1>2 DEF GiveUp, AnswersLagBehindTimeouts, TypeOK, TypesOK
<1>3. CASE UNCHANGED <<answer, timeouts>>
  BY <1>3 DEF AnswersLagBehindTimeouts
<1> QED BY <1>1, <1>2, <1>3
        DEF Next, Begin, Send, SendFails, TakeCommand, Answer, ServerEnds, vars

(* An accepted answer is the call's own as long as no call over the          *)
(* connection has timed out, and at most as many commands old as have: a     *)
(* call holds the mutex of the socket until it has an answer or has given up *)
(* (client.rs 80-88).                                                        *)
THEOREM AnswersAlwaysLagBehindTimeouts == Spec => []AnswersLagBehindTimeouts
<1>1. IInv /\ [Next]_vars => IInv'
  BY NextTypeOK, NextHolderInv, NextFlightInv, NextAnswers DEF IInv, FlightInv
<1>2. IInv => AnswersLagBehindTimeouts
  BY DEF IInv
<1> QED BY InitIInv, <1>1, <1>2, PTL DEF Spec

(* A caller is at the mutex exactly while it has a call under way, and       *)
(* everything has its type (client.rs 80-88).                                *)
THEOREM TypeCorrect == Spec => []TypeOK
<1>1. Init => TypeOK /\ QueueInv
  BY InitIInv DEF IInv
<1>2. TypeOK /\ QueueInv /\ [Next]_vars => (TypeOK /\ QueueInv)'
  BY NextTypeOK
<1> QED BY <1>1, <1>2, PTL DEF Spec

-----------------------------------------------------------------------------
(* The life of the processes *)

RunnerSteps == {"off", "clear pub", "clear router", "load", "run", "ended"}
StartSteps ==
  {"off", "poll pub", "poll router", "ready", "cmd lookup", "cmd lookup pub", "cmd dealer",
   "cmd subscribe", "sub lookup", "sub lookup pub", "sub dealer", "sub subscribe",
   "leverage", "funding", "run", "controlled", "uncontrolled", "failed"}
Start ==
  [step : StartSteps, tries : Nat, router : Nat, pub : Nat, cmd : Nat, sub : Nat]

LifeTypes ==
  /\ Life!TypeOK
  /\ misses \in [Life!Service -> Nat]
  /\ runner \in RunnerSteps
  /\ server \in {"off", "pub", "router", "serve", "failed"}
  /\ strategy \in Start

Together ==
  mode = "all" => gen["exchange"] = gen["strategy"] /\ running["exchange"] = running["strategy"]

ServerLater ==
  /\ ~running["exchange"] => server = "off"
  /\ server # "off" => runner \in {"run", "ended"}

(* A heartbeat runs for what is registered and for nothing else; with a      *)
(* period of zero for nothing at all.                                        *)
BeatsServe ==
  /\ beat["pub"] # Life!NoBeat => server \in {"router", "serve", "failed"}
  /\ beat["router"] # Life!NoBeat => server = "serve"
  /\ beat["command"] # Life!NoBeat => Life!At("controlled")

ServicesBeat ==
  Life!Interval > 0 =>
    /\ server \in {"router", "serve"} => beat["pub"] # Life!NoBeat
    /\ server = "serve" => beat["router"] # Life!NoBeat
    /\ Life!At("controlled") => beat["command"] # Life!NoBeat

(* Seconds since the last beat that succeeded, as far as they are counted *)
Waited(s) == (misses[s] + 1) * Life!Interval - beat[s]

LeaseLives(s) ==
  \/ /\ lease[s].at = gen[Life!Owner(s)] /\ lease[s].left >= 1
     /\ lease[s].left + Waited(s) >= ttl
  \/ lease[s] = Life!NoLease /\ Waited(s) >= ttl

BeatsRenew ==
  \A s \in Life!Service :
    beat[s] # Life!NoBeat =>
      Life!Interval > 0 /\ beat[s] <= Life!Interval /\ LeaseLives(s)

LifeInv ==
  /\ LifeTypes /\ Together /\ ServerLater
  /\ BeatsServe /\ ServicesBeat /\ BeatsRenew

LEMMA IntervalIsAThird ==
  ASSUME ttl \in Nat \ {0}
  PROVE  /\ Life!Interval \in Nat /\ Life!Interval <= ttl
         /\ Life!FirstBeat \in {Life!NoBeat, 0}
         /\ Life!FirstBeat = 0 <=> Life!Interval > 0
BY DEF Life!Interval, Life!FirstBeat, Life!NoBeat

LEMMA LifeConstants ==
  LifeTypes => ttl \in Nat \ {0} /\ MaxGen \in Nat /\ MaxTries \in Nat \ {0}
BY LifeAssumption DEF Life!ExchangeProcessAssumption, LifeTypes, Life!TypeOK

LEMMA Services ==
  /\ Life!Service = {"pub", "router", "command"}
  /\ Life!Process = {"exchange", "strategy"}
  /\ Life!Owner("pub") = "exchange" /\ Life!Owner("router") = "exchange"
  /\ Life!Owner("command") = "strategy"
  /\ Life!NoBeat = -1 /\ Life!NoLease = [at |-> 0, left |-> 0]
BY DEF Life!Service, Life!Process, Life!Owner, Life!NoBeat, Life!NoLease

LEMMA InitLifeInv == Life!Init => LifeInv
<1> SUFFICES ASSUME Life!Init PROVE LifeInv
  OBVIOUS
<1> USE DEF Life!Init
<1>1. LifeTypes
  <2>1. ttl \in Nat \ {0} /\ MaxGen \in Nat
    BY LifeAssumption DEF Life!ExchangeProcessAssumption
  <2>2. Life!NoLease \in [at : 0..MaxGen, left : 0..ttl]
    BY <2>1, Services
  <2>3. Life!NoBeat \in Life!NoBeat..ttl /\ 0 \in 0..MaxGen
    BY <2>1, Services
  <2>4. Life!TypeOK
    <3>1. gen \in [Life!Process -> 0..MaxGen] /\ running \in [Life!Process -> BOOLEAN]
      BY <2>3
    <3>2. lease \in [Life!Service -> [at : 0..MaxGen, left : 0..ttl]]
      BY <2>2
    <3>3. beat \in [Life!Service -> Life!NoBeat..ttl]
      BY <2>3
    <3> QED BY <3>1, <3>2, <3>3 DEF Life!TypeOK
  <2>5. strategy \in Start
    BY DEF Life!Idle, Start, StartSteps
  <2> QED BY <2>4, <2>5 DEF LifeTypes, RunnerSteps
<1>2. Together /\ ServerLater
  BY Services DEF Together, ServerLater
<1>3. BeatsServe /\ ServicesBeat /\ BeatsRenew
  BY Services DEF BeatsServe, ServicesBeat, BeatsRenew, Life!At, Life!Idle
<1> QED BY <1>1, <1>2, <1>3 DEF LifeInv

(* Multiples of the interval *)
LEMMA OneMoreMiss ==
  ASSUME NEW m \in Nat, NEW i \in Nat
  PROVE  /\ (m + 1) * i \in Nat
         /\ (m + 1 + 1) * i = (m + 1) * i + i
         /\ (m + 1) * i = m * i + i
         /\ i > 0 => m * i >= m
         /\ (0 + 1) * i = i
OBVIOUS

-----------------------------------------------------------------------------
LEMMA TickKeepsLife == ASSUME LifeInv, Life!Tick PROVE LifeInv'
<1> USE DEF LifeInv, LifeTypes, Life!TypeOK, Life!Tick
<1>0. ttl \in Nat \ {0} /\ MaxGen \in Nat
  BY LifeConstants
<1>1. ASSUME NEW s \in Life!Service
      PROVE  /\ lease'[s] \in [at : 0..MaxGen, left : 0..ttl]
             /\ beat'[s] \in Life!NoBeat..ttl
             /\ beat[s] = Life!NoBeat <=> beat'[s] = Life!NoBeat
             /\ beat'[s] <= beat[s]
             /\ beat[s] # Life!NoBeat => beat[s] \in Nat /\ beat'[s] = beat[s] - 1
             /\ lease[s].left > 1 => lease'[s] = [at |-> lease[s].at, left |-> lease[s].left - 1]
             /\ lease[s].left <= 1 => lease'[s] = Life!NoLease
  <2>1. lease[s] \in [at : 0..MaxGen, left : 0..ttl] /\ beat[s] \in Life!NoBeat..ttl /\ beat[s] # 0
    OBVIOUS
  <2>2. /\ beat'[s] \in Life!NoBeat..ttl
        /\ beat[s] = Life!NoBeat <=> beat'[s] = Life!NoBeat
        /\ beat'[s] <= beat[s]
        /\ beat[s] # Life!NoBeat => beat[s] \in Nat /\ beat'[s] = beat[s] - 1
    BY <1>0, <2>1 DEF Life!NoBeat
  <2>3. CASE lease[s].left > 1
    <3>1. lease'[s] = [at |-> lease[s].at, left |-> lease[s].left - 1]
      BY <2>1, <2>3
    <3> QED BY <1>0, <2>1, <2>2, <2>3, <3>1
  <2>4. CASE lease[s].left <= 1
    <3>1. lease'[s] = Life!NoLease
      BY <1>0, <2>1, <2>4
    <3>2. Life!NoLease \in [at : 0..MaxGen, left : 0..ttl]
      BY <1>0 DEF Life!NoLease
    <3> QED BY <1>0, <2>1, <2>2, <2>4, <3>1, <3>2
  <2> QED BY <1>0, <2>1, <2>3, <2>4
<1>2. LifeTypes'
  <2>1. /\ lease' = [s \in Life!Service |-> lease'[s]]
        /\ beat' = [s \in Life!Service |-> beat'[s]]
    OBVIOUS
  <2>2. lease' \in [Life!Service -> [at : 0..MaxGen, left : 0..ttl]]
    BY <1>1, <2>1
  <2>3. beat' \in [Life!Service -> Life!NoBeat..ttl]
    BY <1>1, <2>1
  <2> QED BY <2>2, <2>3
<1>3. Together' /\ ServerLater'
  BY DEF Together, ServerLater
<1>4. BeatsServe' /\ ServicesBeat'
  <2>1. \A s \in {"pub", "router", "command"} : beat[s] = Life!NoBeat <=> beat'[s] = Life!NoBeat
    BY <1>1, Services
  <2> QED BY <2>1 DEF BeatsServe, ServicesBeat, Life!At, Life!Interval
<1>5. ASSUME NEW s \in Life!Service, beat'[s] # Life!NoBeat
      PROVE  Life!Interval > 0 /\ beat'[s] <= Life!Interval /\ LeaseLives(s)'
  <2>1. beat[s] # Life!NoBeat /\ beat'[s] = beat[s] - 1 /\ beat[s] \in Nat
    BY <1>1, <1>5
  <2>2. Life!Interval > 0 /\ beat[s] <= Life!Interval /\ LeaseLives(s)
    BY <2>1 DEF BeatsRenew
  <2>3. (misses[s] + 1) * Life!Interval \in Nat /\ Life!Interval \in Nat
    BY <1>0, OneMoreMiss, IntervalIsAThird
  <2>4. Waited(s)' = Waited(s) + 1 /\ Waited(s) \in Int
    <3> DEFINE W == (misses[s] + 1) * Life!Interval
    <3>1. Waited(s) = W - beat[s] /\ Waited(s)' = W - (beat[s] - 1) /\ W \in Nat
      BY <2>1, <2>3 DEF Waited, Life!Interval
    <3> HIDE DEF W
    <3> QED BY <2>1, <3>1
  <2>5. lease[s] \in [at : 0..MaxGen, left : 0..ttl]
    OBVIOUS
  <2>6. LeaseLives(s)'
    <3>1. CASE lease[s] = Life!NoLease /\ Waited(s) >= ttl
      <4>1. lease[s].left = 0 /\ lease'[s] = Life!NoLease
        BY <1>1, <3>1 DEF Life!NoLease
      <4>2. Waited(s)' >= ttl'
        BY <1>0, <2>4, <3>1
      <4> QED BY <4>1, <4>2 DEF LeaseLives
    <3>2. CASE /\ lease[s].at = gen[Life!Owner(s)] /\ lease[s].left >= 1
               /\ lease[s].left + Waited(s) >= ttl
      <4>1. CASE lease[s].left = 1
        <5>1. lease'[s] = Life!NoLease /\ Waited(s)' >= ttl'
          BY <1>0, <1>1, <2>4, <2>5, <3>2, <4>1
        <5> QED BY <5>1 DEF LeaseLives
      <4>2. CASE lease[s].left > 1
        <5>1. lease'[s] = [at |-> lease[s].at, left |-> lease[s].left - 1]
          BY <1>1, <4>2
        <5>2. lease'[s].at = gen'[Life!Owner(s)]
          BY <3>2, <5>1
        <5>3. lease'[s].left >= 1 /\ lease'[s].left + Waited(s)' >= ttl'
          BY <1>0, <2>4, <2>5, <3>2, <4>2, <5>1
        <5> QED BY <5>2, <5>3 DEF LeaseLives
      <4> QED BY <1>0, <2>5, <3>2, <4>1, <4>2
    <3> QED BY <2>2, <3>1, <3>2 DEF LeaseLives
  <2>7. beat'[s] <= Life!Interval
    BY <2>1, <2>2, <2>3
  <2> QED BY <2>2, <2>6, <2>7
<1>6. BeatsRenew'
  <2>1. UNCHANGED Life!Interval
    BY DEF Life!Interval
  <2> QED BY <1>5, <2>1 DEF BeatsRenew
<1> QED BY <1>2, <1>3, <1>4, <1>6

(* A key that is written is a lease for as long as one can be. *)
LEMMA SetExpiringTyped ==
  ASSUME LifeTypes, NEW s \in Life!Service
  PROVE  /\ Life!SetExpiring(s) \in [at : 0..MaxGen, left : 0..ttl]
         /\ Life!SetExpiring(s).at = gen[Life!Owner(s)]
         /\ Life!SetExpiring(s).left = ttl
<1>1. ttl \in Nat /\ MaxGen \in Nat
  BY LifeConstants
<1>2. Life!Owner(s) \in Life!Process
  BY Services
<1>3. gen[Life!Owner(s)] \in 0..MaxGen
  BY <1>2 DEF LifeTypes, Life!TypeOK
<1> QED BY <1>1, <1>3 DEF Life!SetExpiring

LEMMA NoLeaseTyped == LifeTypes => Life!NoLease \in [at : 0..MaxGen, left : 0..ttl]
BY LifeConstants DEF Life!NoLease

LEMMA BeatKeepsLife == ASSUME LifeInv, NEW s \in Life!Service, Life!Beat(s) PROVE LifeInv'
<1> USE DEF LifeInv, LifeTypes, Life!TypeOK, Life!Beat
<1>0. ttl \in Nat \ {0} /\ MaxGen \in Nat
  BY LifeConstants
<1>1. Life!Interval \in Nat /\ Life!Interval <= ttl /\ Life!NextBeat = Life!Interval
  BY <1>0, IntervalIsAThird DEF Life!NextBeat
<1>2. beat[s] # Life!NoBeat /\ Life!Interval > 0 /\ LeaseLives(s)
  BY DEF Life!NoBeat, BeatsRenew
<1>3. beat' = [beat EXCEPT ![s] = Life!Interval]
  BY <1>1
<1>4. Life!Interval \in Life!NoBeat..ttl /\ Life!Interval # Life!NoBeat
  BY <1>0, <1>1 DEF Life!NoBeat
<1>5. \A t \in Life!Service : beat'[t] = Life!NoBeat <=> beat[t] = Life!NoBeat
  BY <1>2, <1>3, <1>4
<1>6. UNCHANGED Life!Interval
  BY DEF Life!Interval
<1>7. LifeTypes'
  <2>1. beat' \in [Life!Service -> Life!NoBeat..ttl]
    BY <1>3, <1>4
  <2>2. lease' \in [Life!Service -> [at : 0..MaxGen, left : 0..ttl]]
    BY SetExpiringTyped
  <2>3. misses' \in [Life!Service -> Nat]
    BY <1>0
  <2> QED BY <2>1, <2>2, <2>3
<1>8. Together' /\ ServerLater'
  BY DEF Together, ServerLater
<1>9. BeatsServe' /\ ServicesBeat'
  <2>1. \A t \in {"pub", "router", "command"} : beat[t] = Life!NoBeat <=> beat'[t] = Life!NoBeat
    BY <1>5, Services
  <2> QED BY <1>6, <2>1 DEF BeatsServe, ServicesBeat, Life!At
<1>10. LeaseLives(s)'
  <2>1. CASE /\ lease' = [lease EXCEPT ![s] = Life!SetExpiring(s)]
             /\ misses' = [misses EXCEPT ![s] = 0]
    <3>1. lease'[s] = Life!SetExpiring(s) /\ misses'[s] = 0 /\ beat'[s] = Life!Interval
      BY <1>3, <2>1
    <3>2. Waited(s)' = 0
      BY <1>1, <1>6, <3>1, OneMoreMiss DEF Waited
    <3>3. lease'[s].at = gen'[Life!Owner(s)] /\ lease'[s].left = ttl'
      BY <3>1, SetExpiringTyped
    <3> QED BY <1>0, <3>2, <3>3 DEF LeaseLives
  <2>2. CASE /\ misses' = [misses EXCEPT ![s] = IF @ < ttl THEN @ + 1 ELSE @]
             /\ UNCHANGED lease
    <3> DEFINE m == misses[s]
    <3>1. m \in Nat /\ beat[s] = 0 /\ beat'[s] = Life!Interval
      BY <1>3
    <3>2. CASE m < ttl
      <4>1. misses'[s] = m + 1
        BY <2>2, <3>2
      <4>2. Waited(s)' = (m + 1 + 1) * Life!Interval - Life!Interval
        BY <1>6, <3>1, <4>1 DEF Waited
      <4>3. Waited(s) = (m + 1) * Life!Interval - 0
        BY <3>1 DEF Waited
      <4>4. (m + 1 + 1) * Life!Interval = (m + 1) * Life!Interval + Life!Interval
        BY <1>1, <3>1, OneMoreMiss
      <4>5. (m + 1) * Life!Interval \in Nat
        BY <1>1, <3>1, OneMoreMiss
      <4>6. Waited(s)' = Waited(s)
        <5> DEFINE W == (m + 1) * Life!Interval
        <5>1. Waited(s)' = (W + Life!Interval) - Life!Interval /\ Waited(s) = W - 0 /\ W \in Nat
          BY <4>2, <4>3, <4>4, <4>5
        <5> HIDE DEF W
        <5> QED BY <1>1, <5>1
      <4> QED BY <1>2, <2>2, <4>6 DEF LeaseLives
    <3>3. CASE ~(m < ttl)
      <4>1. misses'[s] = m
        BY <2>2, <3>3
      <4>2. Waited(s)' = (m + 1) * Life!Interval - Life!Interval
        BY <1>6, <3>1, <4>1 DEF Waited
      <4>3. (m + 1) * Life!Interval = m * Life!Interval + Life!Interval /\ m * Life!Interval >= m
        BY <1>1, <1>2, <3>1, OneMoreMiss
      <4>4. m * Life!Interval \in Int
        BY <1>1, <3>1
      <4>5. Waited(s)' >= ttl
        <5> DEFINE W == m * Life!Interval
        <5>1. Waited(s)' = (W + Life!Interval) - Life!Interval /\ W >= m /\ W \in Int
          BY <4>2, <4>3, <4>4
        <5> HIDE DEF W
        <5> QED BY <1>0, <1>1, <3>1, <3>3, <5>1
      <4>6. lease[s] \in [at : 0..MaxGen, left : 0..ttl]
        OBVIOUS
      <4>7. ttl' = ttl /\ lease' = lease /\ gen' = gen
        BY <2>2
      <4>8. Waited(s)' \in Int
        BY <1>1, <4>2, <4>3, <4>4
      <4>9. lease[s].left + Waited(s)' >= ttl
        BY <1>0, <4>5, <4>6, <4>8
      <4> QED BY <1>2, <4>5, <4>7, <4>9 DEF LeaseLives
    <3> QED BY <3>2, <3>3
  <2> QED BY <2>1, <2>2
<1>11. ASSUME NEW t \in Life!Service, t # s, LeaseLives(t) PROVE LeaseLives(t)'
  <2>1. lease'[t] = lease[t] /\ misses'[t] = misses[t] /\ beat'[t] = beat[t]
    BY <1>11
  <2>2. UNCHANGED <<ttl, gen>>
    OBVIOUS
  <2> QED BY <1>6, <1>11, <2>1, <2>2 DEF LeaseLives, Waited
<1>12. ASSUME NEW t \in Life!Service, beat'[t] # Life!NoBeat
       PROVE  Life!Interval > 0 /\ beat'[t] <= Life!Interval /\ LeaseLives(t)'
  <2>1. CASE t = s
    BY <1>1, <1>2, <1>3, <1>10, <2>1
  <2>2. CASE t # s
    BY <1>11, <1>12, <2>2 DEF BeatsRenew
  <2> QED BY <2>1, <2>2
<1> QED BY <1>6, <1>7, <1>8, <1>9, <1>12 DEF BeatsRenew

(* A registration starts the heartbeat, unless its period is zero. *)
LEMMA RegisterKeepsBeats ==
  ASSUME LifeInv, NEW s \in Life!Service, Life!Register(s), UNCHANGED <<ttl, mode, gen>>
  PROVE  /\ lease' \in [Life!Service -> [at : 0..MaxGen, left : 0..ttl]]
         /\ beat' \in [Life!Service -> Life!NoBeat..ttl]
         /\ misses' \in [Life!Service -> Nat]
         /\ Life!Interval > 0 <=> beat'[s] # Life!NoBeat
         /\ \A t \in Life!Service : t # s => beat'[t] = beat[t]
         /\ BeatsRenew'
         /\ UNCHANGED Life!Interval
<1> USE DEF LifeInv, LifeTypes, Life!TypeOK, Life!Register
<1>0. ttl \in Nat \ {0} /\ MaxGen \in Nat
  BY LifeConstants
<1>1. Life!Interval \in Nat /\ Life!Interval <= ttl /\ Life!NoBeat \notin Nat
  BY <1>0, IntervalIsAThird DEF Life!NoBeat
<1>2. /\ Life!FirstBeat \in Life!NoBeat..ttl
      /\ Life!FirstBeat = 0 <=> Life!Interval > 0
      /\ Life!FirstBeat \in {Life!NoBeat, 0}
  BY <1>0, IntervalIsAThird DEF Life!NoBeat
<1>3. UNCHANGED Life!Interval
  BY DEF Life!Interval
<1>4. beat' \in [Life!Service -> Life!NoBeat..ttl] /\ beat'[s] = Life!FirstBeat
  BY <1>2
<1>5. /\ lease' \in [Life!Service -> [at : 0..MaxGen, left : 0..ttl]]
      /\ lease'[s] = Life!SetExpiring(s)
  BY SetExpiringTyped
<1>6. misses' \in [Life!Service -> Nat] /\ misses'[s] = 0
  OBVIOUS
<1>7. ASSUME beat'[s] # Life!NoBeat
      PROVE  Life!Interval > 0 /\ beat'[s] <= Life!Interval /\ LeaseLives(s)'
  <2>1. beat'[s] = 0 /\ Life!Interval > 0
    BY <1>2, <1>4, <1>7
  <2>2. Waited(s)' = (0 + 1) * Life!Interval - 0
    BY <1>3, <1>6, <2>1 DEF Waited
  <2>3. (0 + 1) * Life!Interval = Life!Interval
    BY <1>1, OneMoreMiss
  <2>4. Waited(s)' = Life!Interval
    BY <1>1, <2>2, <2>3
  <2>5. lease'[s].at = gen'[Life!Owner(s)] /\ lease'[s].left = ttl'
    BY <1>5, SetExpiringTyped
  <2>6. lease'[s].left >= 1 /\ lease'[s].left + Waited(s)' >= ttl'
    BY <1>0, <1>1, <2>4, <2>5
  <2>7. LeaseLives(s)'
    BY <2>5, <2>6 DEF LeaseLives
  <2> QED BY <1>1, <2>1, <2>7
<1>8. ASSUME NEW t \in Life!Service, t # s, LeaseLives(t) PROVE LeaseLives(t)'
  <2>1. lease'[t] = lease[t] /\ misses'[t] = misses[t] /\ beat'[t] = beat[t]
    BY <1>8
  <2> QED BY <1>3, <1>8, <2>1 DEF LeaseLives, Waited
<1>9. BeatsRenew'
  <2>1. ASSUME NEW t \in Life!Service, beat'[t] # Life!NoBeat
        PROVE  Life!Interval > 0 /\ beat'[t] <= Life!Interval /\ LeaseLives(t)'
    <3>1. CASE t = s
      BY <1>7, <2>1, <3>1
    <3>2. CASE t # s
      BY <1>8, <2>1, <3>2 DEF BeatsRenew
    <3> QED BY <3>1, <3>2
  <2> QED BY <1>3, <2>1 DEF BeatsRenew
<1>10. Life!Interval > 0 <=> beat'[s] # Life!NoBeat
  BY <1>1, <1>2, <1>4
<1> QED BY <1>3, <1>4, <1>5, <1>6, <1>9, <1>10

(* What leaves the heartbeats alone leaves the leases alive. *)
LEMMA BeatsFrame ==
  ASSUME BeatsRenew, UNCHANGED <<ttl, gen, lease, beat, misses>>
  PROVE  BeatsRenew' /\ UNCHANGED Life!Interval
BY DEF BeatsRenew, LeaseLives, Waited, Life!Interval

LEMMA StartFrame ==
  ASSUME LifeInv, UNCHANGED <<ttl, mode, gen, running, runner, server, lease, beat, misses>>,
         strategy' \in Start, ~Life!At("controlled"), ~Life!At("controlled")'
  PROVE  LifeInv'
<1>1. LifeTypes' /\ Together' /\ ServerLater'
  BY DEF LifeInv, LifeTypes, Life!TypeOK, Together, ServerLater
<1>2. BeatsRenew' /\ UNCHANGED Life!Interval
  BY BeatsFrame DEF LifeInv
<1>3. BeatsServe' /\ ServicesBeat'
  BY <1>2 DEF LifeInv, BeatsServe, ServicesBeat
<1> QED BY <1>1, <1>2, <1>3 DEF LifeInv

LEMMA FoundTyped ==
  ASSUME LifeTypes, NEW s \in Life!Service, NEW found \in Life!Looked(s)
  PROVE  found \in Nat
<1>1. lease[s].at \in 0..MaxGen /\ MaxGen \in Nat
  BY LifeConstants DEF LifeTypes, Life!TypeOK
<1> QED BY <1>1 DEF Life!Looked

LEMMA IdleTyped ==
  ASSUME NEW step \in StartSteps
  PROVE  [Life!Idle EXCEPT !.step = step] \in Start /\ Life!Idle \in Start
BY DEF Life!Idle, Start, StartSteps

LEMMA RetryTyped ==
  ASSUME strategy \in Start, NEW p \in Life!Part, strategy.step # "controlled"
  PROVE  Life!Retry(p) \in Start /\ Life!Retry(p).step # "controlled"
<1>1. Life!LookupStep(p) \in StartSteps /\ Life!LookupStep(p) # "controlled"
  BY DEF Life!LookupStep, StartSteps, Life!Part
<1>2. "failed" \in StartSteps
  BY DEF StartSteps
<1>3. [Life!Idle EXCEPT !.step = "failed"] \in Start
  BY <1>2, IdleTyped
<1>4. [Life!Idle EXCEPT !.step = "failed"].step = "failed"
  BY DEF Life!Idle
<1>5. [strategy EXCEPT !.step = Life!LookupStep(p), !.tries = @ + 1] \in Start
  <2> DEFINE n == strategy.tries + 1
  <2>1. n \in Nat
    BY DEF Start
  <2>2. [strategy EXCEPT !.step = Life!LookupStep(p), !.tries = n] \in Start
    <3> HIDE DEF n
    <3> QED BY <1>1, <2>1 DEF Start
  <2>3. [strategy EXCEPT !.step = Life!LookupStep(p), !.tries = n]
          = [strategy EXCEPT !.step = Life!LookupStep(p), !.tries = @ + 1]
    BY DEF Start
  <2> QED BY <2>2, <2>3
<1>6. [strategy EXCEPT !.step = Life!LookupStep(p), !.tries = @ + 1].step = Life!LookupStep(p)
  BY DEF Start
<1> QED BY <1>1, <1>3, <1>4, <1>5, <1>6 DEF Life!Retry

LEMMA ConnectedTyped ==
  ASSUME strategy \in Start, NEW p \in Life!Part
  PROVE  Life!Connected(p) \in Start /\ Life!Connected(p).step # "controlled"
BY DEF Start, StartSteps, Life!Connected, Life!LookupStep, Life!Part

(* What a step of the start leaves in the strategy *)
LEMMA StartStepTyped ==
  ASSUME LifeInv, Life!StartStep
  PROVE  \/ /\ UNCHANGED <<ttl, mode, gen, running, runner, server, lease, beat, misses>>
            /\ strategy' \in Start /\ strategy.step # "controlled"
            /\ strategy'.step # "controlled"
         \/ /\ Life!At("run") /\ Life!Register("command")
            /\ strategy' = [strategy EXCEPT !.step = "controlled"]
            /\ UNCHANGED <<ttl, mode, gen, running, runner, server>>
         \/ Life!At("failed") /\ mode = "split" /\ Life!Down({"strategy"})
<1> DEFINE Frame == UNCHANGED <<ttl, mode, gen, running, runner, server, lease, beat, misses>>
           Plain == /\ Frame /\ strategy' \in Start /\ strategy.step # "controlled"
                    /\ strategy'.step # "controlled"
<1>0. strategy \in Start
  BY DEF LifeInv, LifeTypes
<1>1. CASE Life!PollPub
  <2>1. "pub" \in Life!Service
    BY Services
  <2>2. PICK found \in Life!Looked("pub") :
          strategy' = [strategy EXCEPT !.step = "poll router", !.pub = found]
    BY <1>1 DEF Life!PollPub
  <2>3. found \in Nat
    BY <2>1, FoundTyped DEF LifeInv
  <2>4. strategy' \in Start /\ strategy'.step = "poll router"
    BY <1>0, <2>2, <2>3 DEF Start, StartSteps
  <2> QED BY <1>1, <2>4 DEF Life!PollPub, Life!At, Life!redis
<1>2. CASE Life!PollRouter
  <2>1. \/ strategy' = [Life!Idle EXCEPT !.step = "ready"]
        \/ strategy' = [Life!Idle EXCEPT !.step = "poll pub"]
    BY <1>2 DEF Life!PollRouter
  <2>2. strategy' \in Start /\ strategy'.step # "controlled"
    <3>1. {"ready", "poll pub"} \subseteq StartSteps
      BY DEF StartSteps
    <3>2. strategy' \in Start
      BY <2>1, <3>1, IdleTyped
    <3>3. strategy'.step \in {"ready", "poll pub"}
      BY <2>1 DEF Life!Idle
    <3> QED BY <3>2, <3>3
  <2> QED BY <1>2, <2>2 DEF Life!PollRouter, Life!At, Life!redis
<1>3. CASE Life!PollEnds
  <2>1. strategy' \in Start /\ strategy'.step # "controlled"
    BY <1>3 DEF Life!PollEnds, Start, StartSteps, Life!Idle
  <2> QED BY <1>3, <2>1 DEF Life!PollEnds, Life!At, Life!redis
<1>4. ASSUME NEW p \in Life!Part, Life!Lookup(p) PROVE Plain
  <2>1. strategy.step # "controlled"
    BY <1>4 DEF Life!Lookup, Life!At, Life!LookupStep
  <2>2. PICK found \in Life!Looked("router") :
          strategy' = IF found = 0 THEN Life!Retry(p)
                      ELSE [strategy EXCEPT !.step = Life!LookupPubStep(p), !.router = found]
    BY <1>4 DEF Life!Lookup
  <2>3. found \in Nat
    BY FoundTyped, Services DEF LifeInv
  <2>4. Life!LookupPubStep(p) \in StartSteps /\ Life!LookupPubStep(p) # "controlled"
    BY DEF Life!LookupPubStep, StartSteps, Life!Part
  <2>5. /\ [strategy EXCEPT !.step = Life!LookupPubStep(p), !.router = found] \in Start
        /\ [strategy EXCEPT !.step = Life!LookupPubStep(p), !.router = found].step
             = Life!LookupPubStep(p)
    BY <1>0, <2>3, <2>4 DEF Start
  <2>6. strategy' \in Start /\ strategy'.step # "controlled"
    BY <1>0, <2>1, <2>2, <2>4, <2>5, RetryTyped
  <2> QED BY <1>4, <2>1, <2>6 DEF Life!Lookup, Life!redis
<1>5. ASSUME NEW p \in Life!Part, Life!LookupPub(p) PROVE Plain
  <2>1. strategy.step # "controlled"
    BY <1>5 DEF Life!LookupPub, Life!At, Life!LookupPubStep
  <2>2. PICK found \in Life!Looked("pub") :
          strategy' = IF found = 0 THEN Life!Retry(p)
                      ELSE [strategy EXCEPT !.step = Life!DealerStep(p), !.pub = found]
    BY <1>5 DEF Life!LookupPub
  <2>3. found \in Nat
    BY FoundTyped, Services DEF LifeInv
  <2>4. Life!DealerStep(p) \in StartSteps /\ Life!DealerStep(p) # "controlled"
    BY DEF Life!DealerStep, StartSteps, Life!Part
  <2>5. /\ [strategy EXCEPT !.step = Life!DealerStep(p), !.pub = found] \in Start
        /\ [strategy EXCEPT !.step = Life!DealerStep(p), !.pub = found].step = Life!DealerStep(p)
    BY <1>0, <2>3, <2>4 DEF Start
  <2>6. strategy' \in Start /\ strategy'.step # "controlled"
    BY <1>0, <2>1, <2>2, <2>4, <2>5, RetryTyped
  <2> QED BY <1>5, <2>1, <2>6 DEF Life!LookupPub, Life!redis
<1>6. ASSUME NEW p \in Life!Part, Life!ConnectDealer(p) PROVE Plain
  <2>1. strategy.step # "controlled"
    BY <1>6 DEF Life!ConnectDealer, Life!At, Life!DealerStep
  <2>2. Life!SubscribeStep(p) \in StartSteps /\ Life!SubscribeStep(p) # "controlled"
    BY DEF Life!SubscribeStep, StartSteps, Life!Part
  <2>3. /\ [strategy EXCEPT !.step = Life!SubscribeStep(p)] \in Start
        /\ [strategy EXCEPT !.step = Life!SubscribeStep(p)].step = Life!SubscribeStep(p)
    BY <1>0, <2>2 DEF Start
  <2>4. strategy' \in Start /\ strategy'.step # "controlled"
    BY <1>0, <1>6, <2>1, <2>2, <2>3, RetryTyped DEF Life!ConnectDealer
  <2> QED BY <1>6, <2>1, <2>4 DEF Life!ConnectDealer, Life!redis
<1>7. ASSUME NEW p \in Life!Part, Life!Subscribe(p) PROVE Plain
  <2>1. strategy.step # "controlled"
    BY <1>7 DEF Life!Subscribe, Life!At, Life!SubscribeStep
  <2>2. strategy' \in Start /\ strategy'.step # "controlled"
    BY <1>0, <1>7, <2>1, RetryTyped, ConnectedTyped DEF Life!Subscribe
  <2> QED BY <1>7, <2>1, <2>2 DEF Life!Subscribe, Life!redis
<1>8. CASE Life!SetLeverage \/ Life!GetFundingRate
  <2>1. PICK st \in {"funding", "run", "failed"} :
          strategy' = [strategy EXCEPT !.step = st] \/ strategy' = [Life!Idle EXCEPT !.step = st]
    BY <1>8 DEF Life!SetLeverage, Life!GetFundingRate
  <2>2. strategy' \in Start /\ strategy'.step # "controlled"
    <3>1. st \in StartSteps /\ st # "controlled"
      BY DEF StartSteps
    <3>2. [Life!Idle EXCEPT !.step = st] \in Start /\ [Life!Idle EXCEPT !.step = st].step = st
      BY <3>1, IdleTyped DEF Life!Idle
    <3>3. [strategy EXCEPT !.step = st] \in Start /\ [strategy EXCEPT !.step = st].step = st
      BY <1>0, <3>1 DEF Start
    <3> QED BY <2>1, <3>1, <3>2, <3>3
  <2> QED BY <1>8, <2>2 DEF Life!SetLeverage, Life!GetFundingRate, Life!At, Life!redis
<1>9. CASE Life!RegisterStrategy
  <2>1. [strategy EXCEPT !.step = "uncontrolled"] \in Start
    BY <1>0 DEF Start, StartSteps
  <2>2. [strategy EXCEPT !.step = "uncontrolled"].step = "uncontrolled"
    BY <1>0 DEF Start
  <2> QED BY <1>9, <2>1, <2>2 DEF Life!RegisterStrategy, Life!At, Life!redis
<1>10. CASE Life!StrategyFails
  BY <1>10 DEF Life!StrategyFails
<1> QED BY <1>1, <1>2, <1>3, <1>4, <1>5, <1>6, <1>7, <1>8, <1>9, <1>10 DEF Life!StartStep

LEMMA RegisterStrategyKeepsLife ==
  ASSUME LifeInv, Life!At("run"), Life!Register("command"),
         strategy' = [strategy EXCEPT !.step = "controlled"],
         UNCHANGED <<ttl, mode, gen, running, runner, server>>
  PROVE  LifeInv'
<1>0. "command" \in Life!Service /\ "pub" \in Life!Service /\ "router" \in Life!Service
  BY Services
<1>1. /\ lease' \in [Life!Service -> [at : 0..MaxGen, left : 0..ttl]]
      /\ beat' \in [Life!Service -> Life!NoBeat..ttl]
      /\ misses' \in [Life!Service -> Nat]
      /\ Life!Interval > 0 <=> beat'["command"] # Life!NoBeat
      /\ beat'["pub"] = beat["pub"] /\ beat'["router"] = beat["router"]
      /\ BeatsRenew'
      /\ UNCHANGED Life!Interval
  BY <1>0, RegisterKeepsBeats
<1>2. strategy' \in Start /\ strategy'.step = "controlled"
  BY DEF LifeInv, LifeTypes, Start, StartSteps
<1>3. LifeTypes'
  BY <1>1, <1>2 DEF LifeInv, LifeTypes, Life!TypeOK
<1>4. Together' /\ ServerLater'
  BY DEF LifeInv, Together, ServerLater
<1>5. BeatsServe' /\ ServicesBeat'
  BY <1>1, <1>2 DEF LifeInv, BeatsServe, ServicesBeat, Life!At
<1> QED BY <1>1, <1>3, <1>4, <1>5 DEF LifeInv

(* A process that is down beats no more; its keys stay. *)
LEMMA DownKeepsLife ==
  ASSUME LifeInv, NEW P \in SUBSET Life!Process, mode = "all" => P = Life!Process, Life!Down(P)
  PROVE  LifeInv'
<1> USE DEF Life!Down
<1>0. UNCHANGED <<ttl, mode, gen, lease>>
  OBVIOUS
<1>1. ttl \in Nat \ {0} /\ Life!NoBeat \in Life!NoBeat..ttl
  BY LifeConstants DEF LifeInv, LifeTypes, Life!NoBeat
<1>2. LifeTypes'
  <2>1. running' \in [Life!Process -> BOOLEAN]
    OBVIOUS
  <2>2. beat' \in [Life!Service -> Life!NoBeat..ttl]
    BY <1>1 DEF LifeInv, LifeTypes, Life!TypeOK
  <2>3. misses' \in [Life!Service -> Nat]
    BY DEF LifeInv, LifeTypes
  <2>4. runner' \in RunnerSteps /\ server' \in {"off", "pub", "router", "serve", "failed"}
    BY DEF LifeInv, LifeTypes, RunnerSteps
  <2>5. strategy' \in Start
    BY IdleTyped DEF LifeInv, LifeTypes, StartSteps
  <2> QED BY <1>0, <2>1, <2>2, <2>3, <2>4, <2>5 DEF LifeInv, LifeTypes, Life!TypeOK
<1>3. /\ running'["exchange"] <=> running["exchange"] /\ "exchange" \notin P
      /\ running'["strategy"] <=> running["strategy"] /\ "strategy" \notin P
  BY Services
<1>4. Together'
  <2>1. mode = "all" => running'["exchange"] = FALSE /\ running'["strategy"] = FALSE
    BY Services
  <2>2. mode = "all" => gen'["exchange"] = gen'["strategy"]
    BY <1>0 DEF LifeInv, Together
  <2> QED BY <1>0, <2>1, <2>2 DEF Together
<1>5. ServerLater'
  BY <1>3 DEF LifeInv, ServerLater
<1>6. /\ beat'["pub"] = IF "exchange" \in P THEN Life!NoBeat ELSE beat["pub"]
      /\ beat'["router"] = IF "exchange" \in P THEN Life!NoBeat ELSE beat["router"]
      /\ beat'["command"] = IF "strategy" \in P THEN Life!NoBeat ELSE beat["command"]
  BY Services
<1>7. UNCHANGED Life!Interval
  BY DEF Life!Interval
<1>8. BeatsServe' /\ ServicesBeat'
  <2>1. Life!At("controlled")' <=> Life!At("controlled") /\ "strategy" \notin P
    BY <1>3 DEF Life!At, Life!Idle
  <2>2. server' = IF "exchange" \in P THEN "off" ELSE server
    OBVIOUS
  <2> QED BY <1>6, <1>7, <2>1, <2>2 DEF LifeInv, BeatsServe, ServicesBeat
<1>9. BeatsRenew'
  <2>1. ASSUME NEW s \in Life!Service, beat'[s] # Life!NoBeat
        PROVE  Life!Interval > 0 /\ beat'[s] <= Life!Interval /\ LeaseLives(s)'
    <3>1. beat'[s] = beat[s] /\ misses'[s] = misses[s]
      BY <2>1
    <3> QED BY <1>0, <1>7, <2>1, <3>1 DEF LifeInv, BeatsRenew, LeaseLives, Waited
  <2> QED BY <1>7, <2>1 DEF BeatsRenew
<1> QED BY <1>2, <1>4, <1>5, <1>8, <1>9 DEF LifeInv

LEMMA OneMore == ASSUME NEW n \in Nat, NEW g \in 0..n, g < n PROVE g + 1 \in 0..n
OBVIOUS

LEMMA StartExchangeKeepsLife == ASSUME LifeInv, Life!StartExchange PROVE LifeInv'
<1> USE DEF Life!StartExchange, Life!redis
<1>0. MaxGen \in Nat /\ gen \in [Life!Process -> 0..MaxGen] /\ running \in [Life!Process -> BOOLEAN]
  BY LifeConstants DEF LifeInv, LifeTypes, Life!TypeOK
<1>1. server = "off" /\ server' = "off"
  BY DEF LifeInv, ServerLater
<1>2. /\ gen'["exchange"] = gen["exchange"] + 1
      /\ gen'["strategy"] = IF mode = "all" THEN gen["strategy"] + 1 ELSE gen["strategy"]
      /\ gen' \in [Life!Process -> 0..MaxGen]
  <2>1. /\ "exchange" \in Life!Process /\ "strategy" \in Life!Process
        /\ "exchange" # "strategy"
    BY Services
  <2>2. /\ gen'["exchange"] = gen["exchange"] + 1
        /\ gen'["strategy"] = IF mode = "all" THEN gen["strategy"] + 1 ELSE gen["strategy"]
    BY <1>0, <2>1
  <2>3. /\ gen["exchange"] \in 0..MaxGen /\ gen["exchange"] < MaxGen
        /\ gen["strategy"] \in 0..MaxGen
        /\ mode = "all" => gen["exchange"] = gen["strategy"]
    BY <1>0, <2>1 DEF LifeInv, Together
  <2>4. gen'["exchange"] \in 0..MaxGen /\ gen'["strategy"] \in 0..MaxGen
    <3>1. gen["exchange"] + 1 \in 0..MaxGen
      BY <1>0, <2>3, OneMore
    <3>2. mode = "all" => gen["strategy"] + 1 \in 0..MaxGen
      BY <2>3, <3>1
    <3>3. gen'["exchange"] \in 0..MaxGen
      BY <2>2, <3>1
    <3>4. CASE mode = "all"
      BY <2>2, <3>2, <3>3, <3>4
    <3>5. CASE mode # "all"
      BY <2>2, <2>3, <3>3, <3>5
    <3> QED BY <3>4, <3>5
  <2>5. gen' = [p \in Life!Process |-> gen'[p]]
    BY <1>0
  <2>6. ASSUME NEW p \in Life!Process PROVE gen'[p] \in 0..MaxGen
    BY <2>4, Services
  <2> QED BY <2>2, <2>5, <2>6
<1>3. /\ running' \in [Life!Process -> BOOLEAN]
      /\ running'["exchange"] = TRUE
      /\ running'["strategy"] <=> running["strategy"] \/ mode = "all"
      /\ mode = "all" => running'["strategy"] = TRUE
  <2>1. running' = [p \in Life!Process |-> running[p] \/ p = "exchange" \/ mode = "all"]
    OBVIOUS
  <2>2. running' \in [Life!Process -> BOOLEAN]
    BY <2>1
  <2>3. running'["exchange"] = TRUE
    BY <2>1, Services, Zenon
  <2>4. "strategy" # "exchange" /\ "strategy" \in Life!Process
    BY Services
  <2>5. running'["strategy"] <=> running["strategy"] \/ mode = "all"
    BY <2>1, <2>4, Zenon
  <2>6. mode = "all" => running'["strategy"] = TRUE
    BY <2>1, <2>4, Zenon
  <2> QED BY <2>2, <2>3, <2>5, <2>6
<1>4. (strategy' \in Start /\ strategy'.step # "controlled") \/ strategy' = strategy
  <2>1. "poll pub" \in StartSteps
    BY DEF StartSteps
  <2>2. [Life!Idle EXCEPT !.step = "poll pub"] \in Start
    BY <2>1, IdleTyped
  <2>3. [Life!Idle EXCEPT !.step = "poll pub"].step = "poll pub"
    BY DEF Life!Idle
  <2> QED BY <2>2, <2>3
<1>5. LifeTypes'
  BY <1>1, <1>2, <1>3, <1>4 DEF LifeInv, LifeTypes, Life!TypeOK, RunnerSteps
<1>6. Together'
  <2>1. CASE mode = "all"
    <3>1. gen'["exchange"] = gen'["strategy"]
      BY <1>2, <2>1 DEF LifeInv, Together
    <3>2. running'["exchange"] = running'["strategy"]
      BY <1>3, <2>1
    <3> QED BY <3>1, <3>2 DEF Together
  <2>2. CASE mode # "all"
    BY <2>2 DEF Together
  <2> QED BY <2>1, <2>2
<1>7. ServerLater'
  BY <1>1, <1>3 DEF ServerLater
<1>8. beat["pub"] = Life!NoBeat /\ beat["router"] = Life!NoBeat
  BY <1>1 DEF LifeInv, BeatsServe
<1>9. mode = "all" => beat["command"] = Life!NoBeat /\ strategy'.step # "controlled"
  <2>1. mode = "all" => ~running["strategy"]
    BY DEF LifeInv, Together
  <2>2. mode = "all" => strategy'.step = "poll pub"
    BY DEF Life!Idle
  <2> QED BY <2>1, <2>2 DEF LifeInv, BeatsServe, Life!At
<1>10. mode # "all" => UNCHANGED strategy /\ (running'["strategy"] <=> running["strategy"])
  BY <1>3
<1>11. UNCHANGED Life!Interval /\ UNCHANGED <<ttl, lease, beat, misses>>
  BY DEF Life!Interval
<1>12. BeatsServe' /\ ServicesBeat'
  <2>1. mode # "all" => (Life!At("controlled")' <=> Life!At("controlled"))
    BY <1>10 DEF Life!At
  <2>2. mode = "all" => ~Life!At("controlled")'
    BY <1>9 DEF Life!At
  <2> QED BY <1>1, <1>8, <1>9, <1>11, <2>1, <2>2 DEF LifeInv, BeatsServe, ServicesBeat
<1>13. BeatsRenew'
  <2>1. ASSUME NEW s \in Life!Service, beat'[s] # Life!NoBeat
        PROVE  Life!Interval > 0 /\ beat'[s] <= Life!Interval /\ LeaseLives(s)'
    <3>1. s = "command" /\ mode # "all"
      BY <1>8, <1>9, <1>11, <2>1, Services
    <3>2. gen'[Life!Owner(s)] = gen[Life!Owner(s)]
      BY <1>2, <3>1, Services
    <3> QED BY <1>11, <2>1, <3>2 DEF LifeInv, BeatsRenew, LeaseLives, Waited
  <2> QED BY <1>11, <2>1 DEF BeatsRenew
<1> QED BY <1>5, <1>6, <1>7, <1>12, <1>13 DEF LifeInv

LEMMA StartStrategyKeepsLife == ASSUME LifeInv, Life!StartStrategy PROVE LifeInv'
<1> USE DEF Life!StartStrategy, Life!redis
<1>0. MaxGen \in Nat /\ gen \in [Life!Process -> 0..MaxGen] /\ running \in [Life!Process -> BOOLEAN]
  BY LifeConstants DEF LifeInv, LifeTypes, Life!TypeOK
<1>1. /\ gen' \in [Life!Process -> 0..MaxGen] /\ gen'["exchange"] = gen["exchange"]
      /\ running' \in [Life!Process -> BOOLEAN] /\ running'["exchange"] = running["exchange"]
  <2>1. gen["strategy"] + 1 \in 0..MaxGen
    <3>1. gen["strategy"] \in 0..MaxGen /\ gen["strategy"] < MaxGen
      BY <1>0, Services
    <3> QED BY <1>0, <3>1, OneMore
  <2>2. gen' \in [Life!Process -> 0..MaxGen] /\ gen'["exchange"] = gen["exchange"]
    BY <1>0, <2>1, Services
  <2>3. running' \in [Life!Process -> BOOLEAN] /\ running'["exchange"] = running["exchange"]
    BY <1>0, Services
  <2> QED BY <2>2, <2>3
<1>2. strategy' \in Start /\ strategy'.step # "controlled"
  <2>1. "cmd lookup" \in StartSteps
    BY DEF StartSteps
  <2>2. [Life!Idle EXCEPT !.step = "cmd lookup"] \in Start
    BY <2>1, IdleTyped
  <2> QED BY <2>2 DEF Life!Idle
<1>3. LifeTypes'
  BY <1>1, <1>2 DEF LifeInv, LifeTypes, Life!TypeOK
<1>4. Together' /\ ServerLater'
  BY <1>1 DEF LifeInv, Together, ServerLater
<1>5. beat["command"] = Life!NoBeat /\ UNCHANGED beat /\ UNCHANGED Life!Interval
  BY DEF LifeInv, BeatsServe, Life!At, Life!Interval
<1>6. BeatsServe' /\ ServicesBeat'
  BY <1>2, <1>5 DEF LifeInv, BeatsServe, ServicesBeat, Life!At
<1>7. BeatsRenew'
  <2>1. ASSUME NEW s \in Life!Service, beat'[s] # Life!NoBeat
        PROVE  Life!Interval > 0 /\ beat'[s] <= Life!Interval /\ LeaseLives(s)'
    <3>1. Life!Owner(s) = "exchange"
      BY <1>5, <2>1, Services
    <3> QED BY <1>1, <1>5, <2>1, <3>1 DEF LifeInv, BeatsRenew, LeaseLives, Waited
  <2> QED BY <1>5, <2>1 DEF BeatsRenew
<1> QED BY <1>3, <1>4, <1>6, <1>7 DEF LifeInv

LEMMA ClearStaleKeepsLife ==
  ASSUME LifeInv, NEW s \in {"pub", "router"}, Life!ClearStale(s)
  PROVE  LifeInv'
<1> USE DEF Life!ClearStale
<1>1. server = "off"
  BY DEF LifeInv, ServerLater
<1>2. beat["pub"] = Life!NoBeat /\ beat["router"] = Life!NoBeat
  BY <1>1 DEF LifeInv, BeatsServe
<1>3. /\ UNCHANGED <<ttl, mode, gen, running, server, strategy, beat, misses>>
      /\ UNCHANGED Life!Interval
  BY DEF Life!Interval
<1>4. ttl \in Nat /\ MaxGen \in Nat /\ s \in Life!Service /\ lease["command"]' = lease["command"]
  BY LifeConstants, Services DEF LifeInv, LifeTypes, Life!TypeOK
<1>5. LifeTypes'
  <2>1. Life!NoLease \in [at : 0..MaxGen, left : 0..ttl]
    BY NoLeaseTyped DEF LifeInv
  <2>2. lease' \in [Life!Service -> [at : 0..MaxGen, left : 0..ttl]]
    BY <2>1 DEF LifeInv, LifeTypes, Life!TypeOK
  <2>3. runner' \in RunnerSteps
    BY DEF RunnerSteps
  <2> QED BY <1>3, <2>2, <2>3 DEF LifeInv, LifeTypes, Life!TypeOK
<1>6. Together' /\ ServerLater' /\ BeatsServe' /\ ServicesBeat'
  BY <1>1, <1>3 DEF LifeInv, Together, ServerLater, BeatsServe, ServicesBeat, Life!At
<1>7. BeatsRenew'
  <2>1. ASSUME NEW t \in Life!Service, beat'[t] # Life!NoBeat
        PROVE  Life!Interval > 0 /\ beat'[t] <= Life!Interval /\ LeaseLives(t)'
    <3>1. t = "command"
      BY <1>2, <1>3, <2>1, Services
    <3>2. lease'[t] = lease[t]
      BY <1>4, <3>1
    <3> QED BY <1>3, <2>1, <3>2 DEF LifeInv, BeatsRenew, LeaseLives, Waited
  <2> QED BY <1>3, <2>1 DEF BeatsRenew
<1> QED BY <1>5, <1>6, <1>7 DEF LifeInv

LEMMA RegisterSocketKeepsLife ==
  ASSUME LifeInv, NEW s \in {"pub", "router"}, Life!RegisterSocket(s)
  PROVE  LifeInv'
<1> USE DEF Life!RegisterSocket, Life!redis
<1>0. s \in Life!Service /\ {"pub", "router", "command"} \subseteq Life!Service
  BY Services
<1>1. CASE Life!Register(s) /\ server' = IF s = "pub" THEN "router" ELSE "serve"
  <2>1. /\ lease' \in [Life!Service -> [at : 0..MaxGen, left : 0..ttl]]
        /\ beat' \in [Life!Service -> Life!NoBeat..ttl]
        /\ misses' \in [Life!Service -> Nat]
        /\ Life!Interval > 0 <=> beat'[s] # Life!NoBeat
        /\ \A t \in Life!Service : t # s => beat'[t] = beat[t]
        /\ BeatsRenew'
        /\ UNCHANGED Life!Interval
    BY <1>0, <1>1, RegisterKeepsBeats
  <2>2. LifeTypes'
    BY <1>1, <2>1 DEF LifeInv, LifeTypes, Life!TypeOK
  <2>3. Together' /\ ServerLater'
    BY <1>1 DEF LifeInv, Together, ServerLater
  <2>4. BeatsServe' /\ ServicesBeat'
    <3>1. beat'["command"] = beat["command"] /\ (Life!At("controlled")' <=> Life!At("controlled"))
      BY <1>0, <2>1 DEF Life!At
    <3>2. CASE s = "pub"
      <4>1. beat'["router"] = beat["router"] /\ server = "pub" /\ server' = "router"
        BY <1>0, <1>1, <2>1, <3>2
      <4> QED BY <2>1, <3>1, <3>2, <4>1 DEF LifeInv, BeatsServe, ServicesBeat
    <3>3. CASE s = "router"
      <4>1. beat'["pub"] = beat["pub"] /\ server = "router" /\ server' = "serve"
        BY <1>0, <1>1, <2>1, <3>3
      <4> QED BY <2>1, <3>1, <3>3, <4>1 DEF LifeInv, BeatsServe, ServicesBeat
    <3> QED BY <3>2, <3>3
  <2> QED BY <2>1, <2>2, <2>3, <2>4 DEF LifeInv
<1>2. CASE server' = "failed" /\ UNCHANGED <<lease, beat, misses>>
  <2>1. BeatsRenew' /\ UNCHANGED Life!Interval
    BY <1>2, BeatsFrame DEF LifeInv
  <2>2. LifeTypes' /\ Together' /\ ServerLater'
    BY <1>2 DEF LifeInv, LifeTypes, Life!TypeOK, Together, ServerLater
  <2>3. BeatsServe' /\ ServicesBeat'
    BY <1>2, <2>1 DEF LifeInv, BeatsServe, ServicesBeat, Life!At
  <2> QED BY <2>1, <2>2, <2>3 DEF LifeInv
<1> QED BY <1>1, <1>2

LEMMA RunnerKeepsLife ==
  ASSUME LifeInv, Life!LoadInstruments \/ Life!RunnerEnds
  PROVE  LifeInv'
<1>1. UNCHANGED <<ttl, mode, gen, running, strategy, lease, beat, misses>>
  BY DEF Life!LoadInstruments, Life!RunnerEnds, Life!redis
<1>2. BeatsRenew' /\ UNCHANGED Life!Interval
  BY <1>1, BeatsFrame DEF LifeInv
<1>3. /\ runner' \in {"run", "ended"}
      /\ server' = server \/ (server = "off" /\ server' = "pub")
      /\ running["exchange"]
  <2>1. CASE Life!LoadInstruments
    <3>1. server = "off" /\ running["exchange"] /\ runner' \in {"run", "ended"}
      BY <2>1 DEF Life!LoadInstruments, LifeInv, ServerLater
    <3>2. server' = "pub" \/ server' = server
      BY <2>1 DEF Life!LoadInstruments
    <3> QED BY <3>1, <3>2
  <2>2. CASE Life!RunnerEnds
    BY <2>2 DEF Life!RunnerEnds
  <2> QED BY <2>1, <2>2
<1>4. LifeTypes' /\ Together' /\ ServerLater'
  BY <1>1, <1>3 DEF LifeInv, LifeTypes, Life!TypeOK, Together, ServerLater, RunnerSteps
<1>5. BeatsServe' /\ ServicesBeat'
  BY <1>1, <1>2, <1>3 DEF LifeInv, BeatsServe, ServicesBeat, Life!At
<1> QED BY <1>2, <1>4, <1>5 DEF LifeInv

LEMMA NextLifeInv == ASSUME LifeInv, [Life!Next]_(Life!vars) PROVE LifeInv'
<1>1. CASE Life!StartStep
  <2>1. CASE Life!At("failed") /\ mode = "split" /\ Life!Down({"strategy"})
    BY <2>1, DownKeepsLife, Services
  <2> QED BY <1>1, <2>1, StartStepTyped, StartFrame, RegisterStrategyKeepsLife DEF Life!At
<1>2. ASSUME NEW p \in Life!Process, Life!Stop(p) \/ Life!ExchangesEnd PROVE LifeInv'
  <2>1. PICK q \in Life!Process : Life!Down(Life!With(q))
    BY <1>2, Services DEF Life!Stop, Life!ExchangesEnd
  <2>2. /\ Life!With(q) \in SUBSET Life!Process
        /\ mode = "all" => Life!With(q) = Life!Process
    BY DEF Life!With
  <2> QED BY <2>1, <2>2, DownKeepsLife
<1>3. ASSUME NEW s \in {"pub", "router"}, Life!ClearStale(s) \/ Life!RegisterSocket(s)
      PROVE  LifeInv'
  BY <1>3, ClearStaleKeepsLife, RegisterSocketKeepsLife
<1>4. CASE UNCHANGED Life!vars
  <2>1. UNCHANGED <<ttl, mode, gen, running, runner, server, strategy, lease, beat, misses>>
    BY <1>4 DEF Life!vars, Life!redis
  <2>2. BeatsRenew' /\ UNCHANGED Life!Interval
    BY <2>1, BeatsFrame DEF LifeInv
  <2> QED BY <2>1, <2>2 DEF LifeInv, LifeTypes, Life!TypeOK, Together, ServerLater,
                           BeatsServe, ServicesBeat, Life!At
<1>5. CASE Life!ExchangesEnd
  BY <1>2, <1>5, Services
<1> QED BY <1>1, <1>2, <1>3, <1>4, <1>5, TickKeepsLife, BeatKeepsLife, StartExchangeKeepsLife,
           StartStrategyKeepsLife, RunnerKeepsLife DEF Life!Next

(* Who serves has a heartbeat, so its key is its own or has run out. *)
LEMMA LifeInvFound == LifeInv => FoundWhileItServes
<1> SUFFICES ASSUME LifeInv, NEW s \in Life!Service,
                    Life!Serves(s), Life!Interval > 0, lease[s].at # gen[Life!Owner(s)]
             PROVE  lease[s] = Life!NoLease /\ (misses[s] + 1) * Life!Interval >= ttl
  BY DEF FoundWhileItServes, Life!FoundWhileItServes
<1>1. beat[s] # Life!NoBeat
  BY Services DEF LifeInv, ServicesBeat, Life!Serves
<1>2. LeaseLives(s)
  BY <1>1 DEF LifeInv, BeatsRenew
<1>3. lease[s] = Life!NoLease /\ Waited(s) >= ttl
  BY <1>2 DEF LeaseLives
<1>4. beat[s] \in Nat /\ misses[s] \in Nat /\ ttl \in Nat \ {0}
  BY <1>1, LifeConstants DEF LifeInv, LifeTypes, Life!TypeOK, Life!NoBeat
<1>5. (misses[s] + 1) * Life!Interval \in Nat
  BY <1>4, OneMoreMiss, IntervalIsAThird
<1>6. (misses[s] + 1) * Life!Interval >= ttl
  <2> DEFINE W == (misses[s] + 1) * Life!Interval
  <2>1. W - beat[s] >= ttl /\ W \in Nat
    BY <1>3, <1>5 DEF Waited
  <2>2. W >= ttl
    <3> HIDE DEF W
    <3> QED BY <1>4, <2>1
  <2> QED BY <2>2
<1> QED BY <1>3, <1>6

(* A service that runs is found, unless its heartbeats have failed for as    *)
(* long as its key lives (discovery.rs 73-104).                              *)
THEOREM ServicesAlwaysFound == Life!Spec => []FoundWhileItServes
<1> QED BY InitLifeInv, NextLifeInv, LifeInvFound, PTL DEF Life!Spec

(* Of the life of the processes, everything has its type. *)
LEMMA LifeTypeCorrect == Life!Spec => []Life!TypeOK
<1>1. LifeInv => Life!TypeOK
  BY DEF LifeInv, LifeTypes
<1> QED BY InitLifeInv, NextLifeInv, <1>1, PTL DEF Life!Spec

-----------------------------------------------------------------------------
(* The start of a strategy: what it has connected to is a process that was,  *)
(* in the order it did; numbers only grow.                                   *)
StartInv ==
  /\ strategy.step = "cmd subscribe" => strategy.router <= gen["exchange"]
  /\ strategy.step \in {"sub lookup", "sub lookup pub", "sub dealer", "sub subscribe"}
       => strategy.cmd <= gen["exchange"]
  /\ strategy.step \in {"leverage", "funding"}
       => strategy.cmd <= strategy.sub /\ strategy.sub <= gen["exchange"]

Connecting ==
  {"cmd subscribe", "sub lookup", "sub lookup pub", "sub dealer", "sub subscribe",
   "leverage", "funding"}

LEMMA Elsewhere == strategy.step \notin Connecting => StartInv
BY DEF StartInv, Connecting

LEMMA OnePart ==
  /\ Life!Part = {"cmd", "sub"}
  /\ Life!LookupStep("cmd") = "cmd lookup" /\ Life!LookupStep("sub") = "sub lookup"
  /\ Life!LookupPubStep("cmd") = "cmd lookup pub" /\ Life!LookupPubStep("sub") = "sub lookup pub"
  /\ Life!DealerStep("cmd") = "cmd dealer" /\ Life!DealerStep("sub") = "sub dealer"
  /\ Life!SubscribeStep("cmd") = "cmd subscribe" /\ Life!SubscribeStep("sub") = "sub subscribe"
BY DEF Life!Part, Life!LookupStep, Life!LookupPubStep, Life!DealerStep, Life!SubscribeStep

(* A try again begins with the lookup and keeps the first connection. *)
LEMMA RetryKeepsStart ==
  ASSUME strategy \in Start, NEW p \in Life!Part, gen' = gen,
         p = "sub" => strategy.cmd <= gen["exchange"],
         strategy' = Life!Retry(p)
  PROVE  StartInv'
<1>1. CASE strategy' = [Life!Idle EXCEPT !.step = "failed"]
  <2>1. strategy'.step = "failed"
    BY <1>1 DEF Life!Idle
  <2> QED BY <2>1 DEF StartInv
<1>2. CASE strategy' = [strategy EXCEPT !.step = Life!LookupStep(p), !.tries = @ + 1]
  <2>1. strategy'.step = Life!LookupStep(p) /\ strategy'.cmd = strategy.cmd
    BY <1>2 DEF Start
  <2> QED BY <2>1, OnePart DEF StartInv
<1> QED BY <1>1, <1>2 DEF Life!Retry

LEMMA ConnectKeepsStart ==
  ASSUME LifeInv, StartInv, NEW p \in Life!Part,
         \/ Life!Lookup(p) \/ Life!LookupPub(p)
         \/ Life!ConnectDealer(p) \/ Life!Subscribe(p)
  PROVE  StartInv' /\ strategy'.step # "run"
<1>0. strategy \in Start /\ gen["exchange"] \in Nat
  BY LifeConstants, Services DEF LifeInv, LifeTypes, Life!TypeOK
<1>1. UNCHANGED gen
  BY DEF Life!Lookup, Life!LookupPub, Life!ConnectDealer, Life!Subscribe
<1>2. /\ strategy.step \in {Life!LookupStep(p), Life!LookupPubStep(p),
                           Life!DealerStep(p), Life!SubscribeStep(p)}
      /\ p = "sub" => strategy.cmd <= gen["exchange"]
  <2>1. strategy.step \in {Life!LookupStep(p), Life!LookupPubStep(p),
                           Life!DealerStep(p), Life!SubscribeStep(p)}
    BY DEF Life!Lookup, Life!LookupPub, Life!ConnectDealer, Life!Subscribe, Life!At
  <2> QED BY <2>1, OnePart DEF StartInv
<1>3. CASE strategy' = Life!Retry(p)
  <2>1. strategy'.step # "run"
    <3>1. Life!LookupStep(p) # "run"
      BY OnePart
    <3>2. [Life!Idle EXCEPT !.step = "failed"].step = "failed"
      BY DEF Life!Idle
    <3>3. [strategy EXCEPT !.step = Life!LookupStep(p), !.tries = @ + 1].step
            = Life!LookupStep(p)
      BY <1>0 DEF Start
    <3> QED BY <1>3, <3>1, <3>2, <3>3 DEF Life!Retry
  <2> QED BY <1>0, <1>1, <1>2, <1>3, <2>1, RetryKeepsStart
<1>4. CASE /\ Life!Lookup(p)
           /\ \E found \in Life!Looked("router") :
                strategy' = [strategy EXCEPT !.step = Life!LookupPubStep(p), !.router = found]
  <2>1. strategy'.step = Life!LookupPubStep(p) /\ strategy'.cmd = strategy.cmd
    BY <1>0, <1>4 DEF Start
  <2> QED BY <1>1, <1>2, <2>1, OnePart DEF StartInv
<1>5. CASE /\ Life!LookupPub(p)
           /\ \E found \in Life!Looked("pub") :
                strategy' = [strategy EXCEPT !.step = Life!DealerStep(p), !.pub = found]
  <2>1. strategy'.step = Life!DealerStep(p) /\ strategy'.cmd = strategy.cmd
    BY <1>0, <1>5 DEF Start
  <2> QED BY <1>1, <1>2, <2>1, OnePart DEF StartInv
<1>6. CASE /\ Life!Bound("router", strategy.router)
           /\ strategy' = [strategy EXCEPT !.step = Life!SubscribeStep(p)]
  <2>1. /\ strategy'.step = Life!SubscribeStep(p) /\ strategy'.cmd = strategy.cmd
        /\ strategy'.router = strategy.router /\ strategy.router = gen["exchange"]
    BY <1>0, <1>6 DEF Start, Life!Bound
  <2>2. strategy'.step \in {"cmd subscribe", "sub subscribe"}
    BY <2>1, OnePart
  <2>3. strategy'.router <= gen'["exchange"]
    BY <1>0, <1>1, <2>1
  <2>4. strategy'.step = "sub subscribe" => p = "sub"
    BY <2>1, OnePart
  <2>5. p = "sub" => strategy'.cmd <= gen'["exchange"]
    BY <1>1, <1>2, <2>1
  <2> QED BY <2>2, <2>3, <2>4, <2>5 DEF StartInv
<1>7. CASE Life!Subscribe(p) /\ Life!Bound("pub", strategy.pub) /\ strategy' = Life!Connected(p)
  <2>1. strategy.pub = gen["exchange"] /\ strategy.step = Life!SubscribeStep(p)
    BY <1>7 DEF Life!Bound, Life!Subscribe, Life!At
  <2>2. CASE p = "cmd"
    <3>1. strategy'.step = "sub lookup" /\ strategy'.cmd = strategy.router
      BY <1>0, <1>7, <2>2 DEF Life!Connected, Life!LookupStep, Start
    <3>2. strategy.router <= gen["exchange"]
      BY <2>1, <2>2, OnePart DEF StartInv
    <3> QED BY <1>1, <3>1, <3>2 DEF StartInv
  <2>3. CASE p = "sub"
    <3>1. /\ strategy'.step = "leverage" /\ strategy'.cmd = strategy.cmd
          /\ strategy'.sub = strategy.pub
      BY <1>0, <1>7, <2>3 DEF Life!Connected, Start
    <3>2. strategy'.cmd <= strategy'.sub /\ strategy'.sub <= gen'["exchange"]
      BY <1>0, <1>1, <1>2, <2>1, <2>3, <3>1
    <3> QED BY <3>1, <3>2 DEF StartInv
  <2> QED BY <2>2, <2>3, OnePart
<1> QED BY <1>3, <1>4, <1>5, <1>6, <1>7
        DEF Life!Lookup, Life!LookupPub, Life!ConnectDealer, Life!Subscribe

LEMMA StartStepKeepsStart ==
  ASSUME LifeInv, StartInv, Life!StartStep
  PROVE  /\ StartInv'
         /\ strategy'.step = "run" /\ strategy.step # "run" => strategy'.cmd = strategy'.sub
<1>0. strategy \in Start /\ gen["exchange"] \in Nat
  BY LifeConstants, Services DEF LifeInv, LifeTypes, Life!TypeOK
<1>1. ASSUME NEW p \in Life!Part,
             \/ Life!Lookup(p) \/ Life!LookupPub(p)
             \/ Life!ConnectDealer(p) \/ Life!Subscribe(p)
      PROVE  StartInv' /\ strategy'.step # "run"
  BY <1>1, ConnectKeepsStart
<1>2. CASE Life!SetLeverage
  <2>1. CASE strategy' = [strategy EXCEPT !.step = "funding"]
    <3>1. /\ strategy'.step = "funding" /\ strategy'.cmd = strategy.cmd
          /\ strategy'.sub = strategy.sub
      BY <1>0, <2>1 DEF Start
    <3>2. strategy.step = "leverage" /\ UNCHANGED gen
      BY <1>2 DEF Life!SetLeverage, Life!At
    <3> QED BY <3>1, <3>2 DEF StartInv
  <2>2. CASE strategy' = [Life!Idle EXCEPT !.step = "failed"]
    <3>1. strategy'.step = "failed"
      BY <2>2 DEF Life!Idle
    <3> QED BY <3>1 DEF StartInv
  <2> QED BY <1>2, <2>1, <2>2 DEF Life!SetLeverage
<1>3. CASE Life!GetFundingRate
  <2>1. CASE Life!Answered /\ strategy' = [strategy EXCEPT !.step = "run"]
    <3>1. /\ strategy'.step = "run" /\ strategy'.cmd = strategy.cmd
          /\ strategy'.sub = strategy.sub
      BY <1>0, <2>1 DEF Start
    <3>2. strategy.cmd = gen["exchange"]
      BY <2>1 DEF Life!Answered, Life!Bound
    <3>3. strategy.cmd <= strategy.sub /\ strategy.sub <= gen["exchange"]
      BY <1>3 DEF Life!GetFundingRate, Life!At, StartInv
    <3>4. strategy.sub \in Nat
      BY <1>0 DEF Start
    <3>5. strategy.cmd = strategy.sub
      BY <1>0, <3>2, <3>3, <3>4
    <3>6. StartInv'
      BY <3>1 DEF StartInv
    <3> QED BY <3>1, <3>5, <3>6
  <2>2. CASE strategy' = [Life!Idle EXCEPT !.step = "failed"]
    <3>1. strategy'.step = "failed"
      BY <2>2 DEF Life!Idle
    <3> QED BY <3>1 DEF StartInv
  <2> QED BY <1>3, <2>1, <2>2 DEF Life!GetFundingRate
<1>4. CASE Life!PollPub \/ Life!PollRouter \/ Life!PollEnds
  <2>1. CASE Life!PollPub
    <3>1. strategy'.step = "poll router"
      BY <1>0, <2>1 DEF Life!PollPub, Start
    <3> QED BY <3>1 DEF StartInv
  <2>2. CASE Life!PollRouter \/ Life!PollEnds
    <3>1. strategy'.step \in {"ready", "poll pub", "cmd lookup"}
      BY <2>2 DEF Life!PollRouter, Life!PollEnds, Life!Idle
    <3> QED BY <3>1 DEF StartInv
  <2> QED BY <1>4, <2>1, <2>2
<1>5. CASE Life!RegisterStrategy \/ Life!StrategyFails
  <2>1. strategy'.step \in {"controlled", "uncontrolled", "off"}
    BY <1>0, <1>5, Services
       DEF Life!RegisterStrategy, Life!StrategyFails, Life!Down, Life!Idle, Start
  <2> QED BY <2>1 DEF StartInv
<1> QED BY <1>1, <1>2, <1>3, <1>4, <1>5 DEF Life!StartStep

LEMMA NextStartInv ==
  ASSUME LifeInv, StartInv, [Life!Next]_(Life!vars)
  PROVE  /\ StartInv'
         /\ strategy'.step = "run" /\ strategy.step # "run" => strategy'.cmd = strategy'.sub
<1>0. strategy \in Start /\ gen["exchange"] \in Nat /\ gen \in [Life!Process -> Nat]
  BY LifeConstants, Services DEF LifeInv, LifeTypes, Life!TypeOK
<1>1. ASSUME UNCHANGED strategy, gen'["exchange"] \in Nat, gen["exchange"] <= gen'["exchange"]
      PROVE  /\ StartInv'
             /\ strategy'.step = "run" /\ strategy.step # "run" => strategy'.cmd = strategy'.sub
  <2>1. strategy.router \in Nat /\ strategy.cmd \in Nat /\ strategy.sub \in Nat
    BY <1>0 DEF Start
  <2>2. ASSUME NEW n \in Nat, n <= gen["exchange"] PROVE n <= gen'["exchange"]
    BY <1>0, <1>1, <2>2
  <2>3. strategy' = strategy
    BY <1>1
  <2> QED BY <2>1, <2>2, <2>3 DEF StartInv
<1>2. ASSUME strategy'.step \in {"off", "poll pub", "cmd lookup"}
      PROVE  /\ StartInv'
             /\ strategy'.step = "run" /\ strategy.step # "run" => strategy'.cmd = strategy'.sub
  BY <1>2 DEF StartInv
<1>3. CASE Life!StartExchange
  <2>1. gen'["exchange"] = gen["exchange"] + 1
    BY <1>0, <1>3, Services DEF Life!StartExchange
  <2>2. mode = "all" => strategy'.step = "poll pub"
    BY <1>3 DEF Life!StartExchange, Life!Idle
  <2>3. mode # "all" => UNCHANGED strategy
    BY <1>3 DEF Life!StartExchange
  <2>4. gen'["exchange"] \in Nat /\ gen["exchange"] <= gen'["exchange"]
    BY <1>0, <2>1
  <2> QED BY <1>1, <1>2, <2>2, <2>3, <2>4
<1>4. CASE Life!StartStrategy
  <2>1. strategy'.step = "cmd lookup"
    BY <1>4 DEF Life!StartStrategy, Life!Idle
  <2> QED BY <1>2, <2>1
<1>5. ASSUME NEW P, Life!Down(P)
      PROVE  /\ StartInv'
             /\ strategy'.step = "run" /\ strategy.step # "run" => strategy'.cmd = strategy'.sub
  <2>1. UNCHANGED gen /\ (strategy' = Life!Idle \/ UNCHANGED strategy)
    BY <1>5 DEF Life!Down
  <2>2. CASE strategy' = Life!Idle
    <3>1. strategy'.step = "off"
      BY <2>2 DEF Life!Idle
    <3> QED BY <1>2, <3>1
  <2>3. CASE UNCHANGED strategy
    BY <1>0, <1>1, <2>1, <2>3
  <2> QED BY <2>1, <2>2, <2>3
<1>6. CASE UNCHANGED <<gen, strategy>>
  BY <1>0, <1>1, <1>6
<1>7. CASE Life!StartStep
  BY <1>7, StartStepKeepsStart
<1>8. CASE Life!vars' = Life!vars
  BY <1>6, <1>8 DEF Life!vars
<1>9. ASSUME NEW p \in Life!Process, Life!Stop(p) \/ Life!ExchangesEnd
      PROVE  /\ StartInv'
             /\ strategy'.step = "run" /\ strategy.step # "run" => strategy'.cmd = strategy'.sub
  BY <1>5, <1>9 DEF Life!Stop, Life!ExchangesEnd
<1>10. CASE Life!ExchangesEnd
  BY <1>9, <1>10, Services
<1>11. ASSUME NEW s, Life!Beat(s) \/ Life!ClearStale(s) \/ Life!RegisterSocket(s)
       PROVE  UNCHANGED <<gen, strategy>>
  BY <1>11 DEF Life!Beat, Life!ClearStale, Life!RegisterSocket
<1>12. CASE Life!Tick \/ Life!LoadInstruments \/ Life!RunnerEnds
  BY <1>6, <1>12 DEF Life!Tick, Life!LoadInstruments, Life!RunnerEnds
<1> QED BY <1>3, <1>4, <1>6, <1>7, <1>8, <1>9, <1>10, <1>11, <1>12 DEF Life!Next

(* A strategy that starts to trade is connected to one process, though it    *)
(* connects twice and processes are replaced meanwhile: the second answer    *)
(* comes from the process of the first connection, and the second connection *)
(* is to no older one (strategy.rs 140-193).                                 *)
THEOREM StartsAlwaysOnOneProcess == Life!Spec => StartsOnOneProcess
<1>1. Life!Init => StartInv
  BY DEF Life!Init, Life!Idle, StartInv
<1>2. LifeInv /\ StartInv /\ [Life!Next]_(Life!vars)
      => [strategy'.step = "run" /\ strategy.step # "run"
            => strategy'.cmd = strategy'.sub]_(Life!vars)
  BY NextStartInv
<1> QED BY InitLifeInv, NextLifeInv, NextStartInv, <1>1, <1>2, PTL
        DEF Life!Spec, StartsOnOneProcess, Life!StartsOnOneProcess

-----------------------------------------------------------------------------
(* The events on their way: each has been sent, so it is no newer than the   *)
(* last one of its kind.                                                     *)
ChannelOf(S) == [of : Seq(S), lagged : BOOLEAN]
Past(k) == 1..events[k]
PastEvents == {e \in Path!Event : e.nr <= events[e.kind]}

PathInv ==
  /\ events \in [Kinds -> 0..MaxSent]
  /\ forwards \in [Kinds -> BOOLEAN]
  /\ DOMAIN ring = Kinds /\ ring = [k \in Kinds |-> ring[k]]
  /\ \A k \in Kinds : ring[k] \in ChannelOf(Past(k)) /\ Len(ring[k].of) <= Capacity
  /\ bus \in ChannelOf(PastEvents) /\ Len(bus.of) <= Capacity
  /\ wire \in Seq(PastEvents) /\ Len(wire) <= Room
  /\ inbox \in Seq(PastEvents) /\ Len(inbox) <= Room
  /\ seen \in [Kinds -> Nat] /\ shed \in [Kinds -> Nat]
  /\ \A k \in Kinds : seen[k] \in 0..events[k] /\ shed[k] \in 0..events[k]

LEMMA PathConstants ==
  Capacity \in Nat \ {0} /\ Room \in Nat \ {0} /\ MaxSent \in Nat
BY PathAssumption DEF Path!EventPathAssumption

LEMMA LargerSeq == ASSUME NEW S, NEW T, S \subseteq T, NEW s \in Seq(S) PROVE s \in Seq(T)
<1>1. /\ Len(s) \in Nat /\ s = [i \in 1..Len(s) |-> s[i]]
      /\ \A i \in 1..Len(s) : s[i] \in T
  OBVIOUS
<1> QED BY <1>1

LEMMA InitPathInv == Path!Init => PathInv
<1> SUFFICES ASSUME Path!Init PROVE PathInv
  OBVIOUS
<1>1. /\ <<>> \in Seq(PastEvents) /\ Len(<<>>) = 0
      /\ \A k \in Kinds : Path!Empty \in ChannelOf(Past(k))
      /\ Path!Empty \in ChannelOf(PastEvents) /\ Path!Empty.of = <<>>
  BY DEF Path!Empty, ChannelOf
<1>2. events \in [Kinds -> 0..MaxSent]
  BY PathConstants DEF Path!Init
<1> QED BY <1>1, <1>2, PathConstants DEF Path!Init, PathInv

LEMMA PathInvTyped == PathInv => Path!TypeOK
<1> SUFFICES ASSUME PathInv PROVE Path!TypeOK
  OBVIOUS
<1>1. PastEvents \subseteq Path!Event
  BY DEF PastEvents
<1>2. /\ bus.of \in Seq(Path!Event) /\ wire \in Seq(Path!Event) /\ inbox \in Seq(Path!Event)
  BY <1>1, LargerSeq DEF PathInv, ChannelOf
<1>3. ASSUME NEW k \in Kinds PROVE ring[k].of \in Seq(1..MaxSent)
  <2>1. Past(k) \subseteq 1..MaxSent
    BY PathConstants DEF PathInv, Past
  <2>2. ring[k].of \in Seq(Past(k))
    BY DEF PathInv, ChannelOf
  <2> QED BY <2>1, <2>2, LargerSeq
<1> QED BY <1>2, <1>3 DEF PathInv, Path!TypeOK

(* An event goes into a channel, at the cost of the oldest if it is full. *)
LEMMA IntoTyped ==
  ASSUME NEW S, NEW ch \in ChannelOf(S), Len(ch.of) <= Capacity, NEW e \in S
  PROVE  Path!Into(ch, e) \in ChannelOf(S) /\ Len(Path!Into(ch, e).of) <= Capacity
<1>0. Capacity \in Nat \ {0} /\ ch.of \in Seq(S)
  BY PathConstants DEF ChannelOf
<1>1. CASE Len(ch.of) < Capacity
  <2>1. Append(ch.of, e) \in Seq(S) /\ Len(Append(ch.of, e)) <= Capacity
    BY <1>0, <1>1
  <2>2. Path!Into(ch, e) = [ch EXCEPT !.of = Append(ch.of, e)]
    BY <1>1 DEF Path!Into, ChannelOf
  <2>3. Path!Into(ch, e) \in ChannelOf(S) /\ Path!Into(ch, e).of = Append(ch.of, e)
    BY <2>1, <2>2 DEF ChannelOf
  <2> QED BY <2>1, <2>3
<1>2. CASE ~(Len(ch.of) < Capacity)
  <2>1. Tail(ch.of) \in Seq(S) /\ Len(Tail(ch.of)) = Len(ch.of) - 1
    BY <1>0, <1>2
  <2>2. /\ Append(Tail(ch.of), e) \in Seq(S)
        /\ Len(Append(Tail(ch.of), e)) <= Capacity
    BY <1>0, <2>1
  <2>3. Path!Into(ch, e) = [of |-> Append(Tail(ch.of), e), lagged |-> TRUE]
    BY <1>2 DEF Path!Into
  <2> QED BY <2>2, <2>3 DEF ChannelOf
<1> QED BY <1>1, <1>2

LEMMA OutOfTyped ==
  ASSUME NEW S, NEW ch \in ChannelOf(S), Len(ch.of) <= Capacity,
         ch # Path!Empty, ~ch.lagged
  PROVE  /\ ch.of # <<>> /\ Head(ch.of) \in S
         /\ Path!OutOf(ch) \in ChannelOf(S) /\ Len(Path!OutOf(ch).of) <= Capacity
<1>0. Capacity \in Nat \ {0} /\ ch.of \in Seq(S)
  BY PathConstants DEF ChannelOf
<1>1. ch.of # <<>>
  <2>1. ch.lagged = FALSE
    BY Zenon DEF ChannelOf
  <2>2. ch = [of |-> ch.of, lagged |-> ch.lagged]
    BY DEF ChannelOf
  <2> QED BY <2>1, <2>2 DEF Path!Empty
<1>2. /\ Head(ch.of) \in S /\ Tail(ch.of) \in Seq(S)
      /\ Len(Tail(ch.of)) <= Capacity
  BY <1>0, <1>1
<1>3. Path!OutOf(ch) \in ChannelOf(S) /\ Path!OutOf(ch).of = Tail(ch.of)
  BY <1>2 DEF Path!OutOf, ChannelOf
<1> QED BY <1>1, <1>2, <1>3

LEMMA AfterLagTyped ==
  ASSUME NEW S, NEW ch \in ChannelOf(S), Len(ch.of) <= Capacity
  PROVE  /\ Path!AfterLag(ch) \in ChannelOf(S) /\ Len(Path!AfterLag(ch).of) <= Capacity
         /\ Path!Empty \in ChannelOf(S) /\ Len(Path!Empty.of) <= Capacity
<1>1. Path!AfterLag(ch) \in ChannelOf(S) /\ Path!AfterLag(ch).of = ch.of
  BY DEF Path!AfterLag, ChannelOf
<1>2. Path!Empty \in ChannelOf(S) /\ Len(Path!Empty.of) = 0
  BY DEF Path!Empty, ChannelOf
<1> QED BY <1>1, <1>2, PathConstants

LEMMA SendEventKeeps == ASSUME PathInv, NEW k \in Kinds, Path!SendEvent(k) PROVE PathInv'
<1>1. /\ events[k] \in 0..MaxSent /\ events[k] < MaxSent /\ MaxSent \in Nat
      /\ events' = [events EXCEPT ![k] = events[k] + 1]
  BY PathConstants DEF PathInv, Path!SendEvent
<1>2. /\ events' \in [Kinds -> 0..MaxSent] /\ events'[k] = events[k] + 1
      /\ \A j \in Kinds : j # k => events'[j] = events[j]
  <2>1. events[k] + 1 \in 0..MaxSent
    BY <1>1
  <2> QED BY <1>1, <2>1 DEF PathInv
<1>3. ASSUME NEW j \in Kinds
      PROVE  events[j] <= events'[j] /\ events[j] \in Nat /\ events'[j] \in Nat
  <2>1. events[j] \in 0..MaxSent /\ events'[j] \in 0..MaxSent
    BY <1>2 DEF PathInv
  <2>2. events[j] <= events'[j]
    BY <1>1, <1>2, <2>1
  <2> QED BY <1>1, <2>1, <2>2
<1>4. \A j \in Kinds : Past(j) \subseteq Past(j)'
  BY <1>3 DEF Past
<1>5. PastEvents \subseteq PastEvents'
  <2>1. ASSUME NEW e \in PastEvents PROVE e \in PastEvents'
    <3>1. e \in Path!Event /\ e.kind \in Kinds /\ e.nr \in 1..MaxSent /\ e.nr <= events[e.kind]
      BY DEF PastEvents, Path!Event
    <3>2. e.nr <= events'[e.kind]
      BY <1>1, <1>3, <3>1
    <3> QED BY <3>1, <3>2 DEF PastEvents
  <2> QED BY <2>1
<1>6. ASSUME NEW ch, NEW S, NEW T, S \subseteq T, ch \in ChannelOf(S) PROVE ch \in ChannelOf(T)
  <2>1. ch.of \in Seq(T)
    BY <1>6, LargerSeq DEF ChannelOf
  <2>2. ch = [of |-> ch.of, lagged |-> ch.lagged] /\ ch.lagged \in BOOLEAN
    BY <1>6 DEF ChannelOf
  <2> QED BY <2>1, <2>2 DEF ChannelOf
<1>7. UNCHANGED <<forwards, bus, wire, inbox, seen, shed>>
  BY DEF Path!SendEvent
<1>8. /\ bus' \in ChannelOf(PastEvents') /\ wire' \in Seq(PastEvents')
      /\ inbox' \in Seq(PastEvents')
  BY <1>5, <1>6, <1>7, LargerSeq DEF PathInv
<1>9. ring[k] \in ChannelOf(Past(k)') /\ events[k] + 1 \in Past(k)'
  <2>1. ring[k] \in ChannelOf(Past(k)')
    BY <1>4, <1>6 DEF PathInv
  <2>2. events[k] + 1 \in Past(k)'
    BY <1>1, <1>2 DEF Past
  <2> QED BY <2>1, <2>2
<1>10. /\ DOMAIN ring' = Kinds /\ ring' = [j \in Kinds |-> ring'[j]]
       /\ ring'[k] \in {ring[k], Path!Into(ring[k], events[k] + 1)}
       /\ \A j \in Kinds : j # k => ring'[j] = ring[j]
  BY DEF PathInv, Path!SendEvent
<1>11. ASSUME NEW j \in Kinds
       PROVE  ring'[j] \in ChannelOf(Past(j)') /\ Len(ring'[j].of) <= Capacity
  <2>1. CASE j = k
    <3>1. /\ Path!Into(ring[k], events[k] + 1) \in ChannelOf(Past(k)')
          /\ Len(Path!Into(ring[k], events[k] + 1).of) <= Capacity
      BY <1>9, IntoTyped DEF PathInv
    <3> QED BY <1>9, <1>10, <2>1, <3>1 DEF PathInv
  <2>2. CASE j # k
    BY <1>4, <1>6, <1>10, <2>2 DEF PathInv
  <2> QED BY <2>1, <2>2
<1>12. \A j \in Kinds : seen'[j] \in 0..events'[j] /\ shed'[j] \in 0..events'[j]
  BY <1>3, <1>7 DEF PathInv
<1> QED BY <1>2, <1>7, <1>8, <1>10, <1>11, <1>12 DEF PathInv

LEMMA ShedTyped ==
  ASSUME PathInv, NEW e \in PastEvents
  PROVE  /\ e.kind \in Kinds
         /\ [shed EXCEPT ![e.kind] = e.nr] \in [Kinds -> Nat]
         /\ \A k \in Kinds : [shed EXCEPT ![e.kind] = e.nr][k] \in 0..events[k]
         /\ [seen EXCEPT ![e.kind] = e.nr] \in [Kinds -> Nat]
         /\ \A k \in Kinds : [seen EXCEPT ![e.kind] = e.nr][k] \in 0..events[k]
<1>1. /\ e.kind \in Kinds /\ e.nr \in 1..MaxSent /\ e.nr <= events[e.kind]
      /\ events[e.kind] \in 0..MaxSent
  BY DEF PastEvents, Path!Event, PathInv
<1>2. e.nr \in 0..events[e.kind] /\ e.nr \in Nat
  BY <1>1, PathConstants
<1> QED BY <1>1, <1>2 DEF PathInv

LEMMA ForwardKeeps == ASSUME PathInv, NEW k \in Kinds, Path!Forward(k) PROVE PathInv'
<1>0. /\ ring[k] \in ChannelOf(Past(k)) /\ Len(ring[k].of) <= Capacity /\ ring[k] # Path!Empty
      /\ UNCHANGED <<events, wire, inbox, seen>> /\ UNCHANGED PastEvents
      /\ \A j \in Kinds : UNCHANGED Past(j)
  BY DEF PathInv, Path!Forward, PastEvents, Past
<1>1. ASSUME NEW ch, ring' = [ring EXCEPT ![k] = ch],
             ch \in ChannelOf(Past(k)), Len(ch.of) <= Capacity
      PROVE  /\ DOMAIN ring' = Kinds /\ ring' = [j \in Kinds |-> ring'[j]]
             /\ \A j \in Kinds : ring'[j] \in ChannelOf(Past(j)') /\ Len(ring'[j].of) <= Capacity
  BY <1>0, <1>1 DEF PathInv
<1>2. CASE /\ forwards' = [forwards EXCEPT ![k] = FALSE]
           /\ ring' = [ring EXCEPT ![k] = Path!Empty]
           /\ UNCHANGED <<bus, shed>>
  <2>1. Path!Empty \in ChannelOf(Past(k)) /\ Len(Path!Empty.of) <= Capacity
    BY <1>0, AfterLagTyped
  <2>2. forwards' \in [Kinds -> BOOLEAN]
    BY <1>2 DEF PathInv
  <2> QED BY <1>0, <1>1, <1>2, <2>1, <2>2 DEF PathInv
<1>3. CASE /\ ~ring[k].lagged
           /\ bus' = Path!Into(bus, [kind |-> k, nr |-> Head(ring[k].of)])
           /\ shed' = IF Len(bus.of) = Capacity
                      THEN [shed EXCEPT ![Head(bus.of).kind] = Head(bus.of).nr] ELSE shed
           /\ ring' = [ring EXCEPT ![k] = Path!OutOf(ring[k])]
           /\ UNCHANGED forwards
  <2>1. /\ Head(ring[k].of) \in Past(k)
        /\ Path!OutOf(ring[k]) \in ChannelOf(Past(k)) /\ Len(Path!OutOf(ring[k]).of) <= Capacity
    BY <1>0, <1>3, OutOfTyped
  <2>2. [kind |-> k, nr |-> Head(ring[k].of)] \in PastEvents
    <3>1. Head(ring[k].of) \in 1..MaxSent /\ Head(ring[k].of) <= events[k]
      BY <2>1, PathConstants DEF Past, PathInv
    <3> QED BY <3>1 DEF PastEvents, Path!Event
  <2>3. bus' \in ChannelOf(PastEvents) /\ Len(bus'.of) <= Capacity
    BY <1>3, <2>2, IntoTyped DEF PathInv
  <2>4. shed' \in [Kinds -> Nat] /\ \A j \in Kinds : shed'[j] \in 0..events[j]
    <3>1. CASE Len(bus.of) = Capacity
      <4>1. bus.of \in Seq(PastEvents) /\ Len(bus.of) # 0
        BY <3>1, PathConstants DEF PathInv, ChannelOf
      <4>2. Head(bus.of) \in PastEvents
        BY <4>1
      <4> QED BY <1>3, <3>1, <4>2, ShedTyped
    <3>2. CASE Len(bus.of) # Capacity
      BY <1>3, <3>2 DEF PathInv
    <3> QED BY <3>1, <3>2
  <2> QED BY <1>0, <1>1, <1>3, <2>1, <2>3, <2>4 DEF PathInv
<1> QED BY <1>2, <1>3 DEF Path!Forward

LEMMA PublishKeeps == ASSUME PathInv, Path!Publish PROVE PathInv'
<1>0. /\ bus \in ChannelOf(PastEvents) /\ Len(bus.of) <= Capacity /\ bus # Path!Empty
      /\ UNCHANGED <<events, ring, forwards, inbox, seen>> /\ UNCHANGED PastEvents
      /\ \A j \in Kinds : UNCHANGED Past(j)
  BY DEF PathInv, Path!Publish, PastEvents, Past
<1>1. CASE bus' = Path!AfterLag(bus) /\ UNCHANGED <<wire, shed>>
  <2>1. bus' \in ChannelOf(PastEvents) /\ Len(bus'.of) <= Capacity
    BY <1>0, <1>1, AfterLagTyped
  <2> QED BY <1>0, <1>1, <2>1 DEF PathInv
<1>2. CASE ~bus.lagged /\ Path!Published(Head(bus.of)) /\ bus' = Path!OutOf(bus)
  <2>1. /\ Head(bus.of) \in PastEvents
        /\ bus' \in ChannelOf(PastEvents) /\ Len(bus'.of) <= Capacity
    BY <1>0, <1>2, OutOfTyped
  <2>2. CASE /\ Len(wire) < Room /\ wire' = Append(wire, Head(bus.of)) /\ UNCHANGED shed
    <3>1. wire' \in Seq(PastEvents) /\ Len(wire') <= Room
      BY <2>1, <2>2, PathConstants DEF PathInv
    <3> QED BY <1>0, <2>1, <2>2, <3>1 DEF PathInv
  <2>3. CASE /\ shed' = [shed EXCEPT ![Head(bus.of).kind] = Head(bus.of).nr] /\ UNCHANGED wire
    <3>1. shed' \in [Kinds -> Nat] /\ \A j \in Kinds : shed'[j] \in 0..events[j]
      BY <2>1, <2>3, ShedTyped
    <3> QED BY <1>0, <2>1, <2>3, <3>1 DEF PathInv
  <2> QED BY <1>2, <2>2, <2>3 DEF Path!Published
<1> QED BY <1>1, <1>2 DEF Path!Publish

LEMMA NextPathInv == ASSUME PathInv, [Path!Next]_(Path!vars) PROVE PathInv'
<1>1. CASE Path!Listen
  <2>1. /\ UNCHANGED <<events, ring, forwards, bus, seen, shed>> /\ UNCHANGED PastEvents
        /\ \A j \in Kinds : UNCHANGED Past(j)
    BY <1>1 DEF Path!Listen, PastEvents, Past
  <2>2. /\ wire \in Seq(PastEvents) /\ inbox \in Seq(PastEvents) /\ wire # <<>>
        /\ Len(wire) <= Room /\ Len(inbox) < Room
        /\ inbox' = Append(inbox, Head(wire)) /\ wire' = Tail(wire)
    BY <1>1 DEF PathInv, Path!Listen
  <2>3. /\ wire' \in Seq(PastEvents) /\ Len(wire') <= Room
        /\ inbox' \in Seq(PastEvents) /\ Len(inbox') <= Room
    BY <2>2, PathConstants
  <2> QED BY <2>1, <2>3 DEF PathInv
<1>2. CASE Path!HandleEvent
  <2>1. /\ UNCHANGED <<events, ring, forwards, bus, wire, shed>> /\ UNCHANGED PastEvents
        /\ \A j \in Kinds : UNCHANGED Past(j)
    BY <1>2 DEF Path!HandleEvent, PastEvents, Past
  <2>2. /\ inbox \in Seq(PastEvents) /\ inbox # <<>> /\ Len(inbox) <= Room
        /\ inbox' = Tail(inbox) /\ seen' = [seen EXCEPT ![Head(inbox).kind] = Head(inbox).nr]
    BY <1>2 DEF PathInv, Path!HandleEvent
  <2>3. Head(inbox) \in PastEvents /\ inbox' \in Seq(PastEvents) /\ Len(inbox') <= Room
    BY <2>2, PathConstants
  <2>4. seen' \in [Kinds -> Nat] /\ \A j \in Kinds : seen'[j] \in 0..events[j]
    BY <2>2, <2>3, ShedTyped
  <2> QED BY <2>1, <2>3, <2>4 DEF PathInv
<1>3. CASE UNCHANGED Path!vars
  BY <1>3 DEF Path!vars, PathInv, PastEvents, Past
<1> QED BY <1>1, <1>2, <1>3, SendEventKeeps, ForwardKeeps, PublishKeeps DEF Path!Next

LEMMA PathTypeCorrect == Path!Spec => []Path!TypeOK
<1> QED BY InitPathInv, NextPathInv, PathInvTyped, PTL DEF Path!Spec

-----------------------------------------------------------------------------
(* An operator's commands *)
LEMMA HeadTail ==
  ASSUME NEW S, NEW q \in Seq(S), q # <<>>
  PROVE  Head(q) \in S /\ Tail(q) \in Seq(S)
OBVIOUS

LEMMA HeadFields ==
  ASSUME NEW S, NEW T, NEW q \in Seq([from : S, order : T]), q # <<>>
  PROVE  Head(q).from \in S /\ Head(q).order \in T /\ Tail(q) \in Seq([from : S, order : T])
<1>1. Head(q) \in [from : S, order : T] /\ Tail(q) \in Seq([from : S, order : T])
  BY HeadTail
<1> QED BY <1>1

LEMMA ControlTyped == Control!TypeOK /\ [Control!Next]_(Control!vars) => Control!TypeOK'
<1> SUFFICES ASSUME Control!TypeOK, [Control!Next]_(Control!vars) PROVE Control!TypeOK'
  OBVIOUS
<1>0. Places \in Nat \ {0}
  BY ControlAssumption DEF Control!StrategyControlAssumption
<1> USE DEF Control!TypeOK
<1>1. ASSUME NEW c \in Clients, Control!Send(c) PROVE Control!TypeOK'
  <2>1. PICK o \in Orders : orders' = Append(orders, [from |-> c, order |-> o])
    BY <1>1 DEF Control!Send
  <2>2. orders' \in Seq([from : Clients, order : Orders])
    BY <2>1
  <2> QED BY <1>1, <2>2 DEF Control!Send
<1>2. ASSUME NEW c \in Clients, Control!NotFound(c) \/ Control!TimeOut(c) PROVE Control!TypeOK'
  BY <1>2 DEF Control!NotFound, Control!TimeOut
<1>3. CASE Control!Serve
  <2> USE <1>3 DEF Control!Serve
  <2> DEFINE c == Head(orders).from
             o == Head(orders).order
  <2>0. orders \in Seq([from : Clients, order : Orders]) /\ orders # <<>> /\ orders' = Tail(orders)
    OBVIOUS
  <2>1. orders' \in Seq([from : Clients, order : Orders])
    BY <2>0, HeadFields
  <2>2. c \in Clients /\ o \in Orders
    BY <2>0, HeadFields
  <2>3. ASSUME NEW r \in {"paused", "running", "ack", "rejected"}, Control!Answer(c, r)
        PROVE  client' \in [Clients -> {"new", "waiting", "gone",
                                        "paused", "running", "ack", "rejected"}]
    BY <2>2, <2>3 DEF Control!Answer
  <2>4. \E r \in {"paused", "running", "ack", "rejected"} : Control!Answer(c, r)
    OBVIOUS
  <2>5. queue' \in Seq(Orders) /\ Len(queue') <= Places
    <3>1. CASE Control!Taken /\ queue' = Control!Fitting(Append(queue, o))
      <4>1. Append(queue, o) \in Seq(Orders) /\ Len(Append(queue, o)) <= Places
        BY <1>0, <2>2, <3>1 DEF Control!Taken
      <4>2. Control!Fitting(Append(queue, o)) = Append(queue, o)
        BY <1>0, <4>1 DEF Control!Fitting
      <4> QED BY <3>1, <4>1, <4>2
    <3>2. CASE UNCHANGED queue
      BY <3>2
    <3> QED BY <3>1, <3>2
  <2>6. acked' \in {"none", "Pause", "Resume"}
    <3>1. CASE UNCHANGED acked
      BY <3>1
    <3>2. CASE acked' = IF o \in {"Pause", "Resume"} THEN o ELSE acked
      BY <3>2
    <3> QED BY <3>1, <3>2
  <2>7. UNCHANGED <<kind, paused, shown>>
    OBVIOUS
  <2> QED BY <2>1, <2>3, <2>4, <2>5, <2>6, <2>7
<1>4. CASE Control!HandleCommand
  <2>1. queue' \in Seq(Orders) /\ Len(queue') <= Places
    BY <1>0, <1>4 DEF Control!HandleCommand
  <2>2. UNCHANGED <<kind, client, orders, acked>>
    BY <1>4 DEF Control!HandleCommand
  <2>3. paused' \in BOOLEAN /\ shown' \in BOOLEAN
    <3> DEFINE o == Head(queue)
               p == IF o = "Pause" THEN TRUE ELSE IF o = "Resume" THEN FALSE ELSE paused
    <3>1. p \in BOOLEAN
      BY Zenon
    <3>2. paused' = p /\ (shown' = p \/ shown' = shown)
      BY <1>4 DEF Control!HandleCommand
    <3> HIDE DEF p
    <3> QED BY <3>1, <3>2
  <2> QED BY <2>1, <2>2, <2>3
<1>5. CASE Control!Emergency
  <2>1. paused' \in BOOLEAN /\ shown' \in BOOLEAN
    BY <1>5, Zenon DEF Control!Emergency
  <2> QED BY <1>5, <2>1 DEF Control!Emergency
<1>6. CASE Control!Transition
  BY <1>6 DEF Control!Transition
<1>7. CASE UNCHANGED Control!vars
  BY <1>7 DEF Control!vars
<1> QED BY <1>1, <1>2, <1>3, <1>4, <1>5, <1>6, <1>7 DEF Control!Next

LEMMA ControlTypeCorrect == Control!Spec => []Control!TypeOK
<1>1. Control!Init => Control!TypeOK
  <2> SUFFICES ASSUME Control!Init PROVE Control!TypeOK
    OBVIOUS
  <2>1. paused \in BOOLEAN /\ shown \in BOOLEAN
    BY Zenon DEF Control!Init
  <2>2. Len(<<>>) <= Places
    BY ControlAssumption DEF Control!StrategyControlAssumption
  <2> QED BY <2>1, <2>2 DEF Control!Init, Control!TypeOK
<1> QED BY <1>1, ControlTyped, PTL DEF Control!Spec

-----------------------------------------------------------------------------
(* The composition: whichever part moves, every part behaves. *)
LEMMA PartsFollow == AnyPart => Spec /\ Life!Spec /\ Path!Spec /\ Control!Spec
<1>1. InitPart => Init /\ Life!Init /\ Path!Init /\ Control!Init
  BY DEF InitPart
<1>2. [NextPart]_all => [Next]_vars
  BY DEF NextPart, Rest, all
<1>3. [NextPart]_all => [Life!Next]_(Life!vars)
  BY DEF NextPart, Rest, all, lifeVars, Life!vars, Life!redis
<1>4. [NextPart]_all => [Path!Next]_(Path!vars)
  BY DEF NextPart, Rest, all, eventVars, Path!vars
<1>5. [NextPart]_all => [Control!Next]_(Control!vars)
  BY DEF NextPart, Rest, all, controlVars, Control!vars
<1> QED BY <1>1, <1>2, <1>3, <1>4, <1>5, PTL DEF AnyPart, Spec, Life!Spec, Path!Spec, Control!Spec

(* Whichever part of what runs between the processes moves, everything has   *)
(* its type: no channel holds more than its capacity, no key lives longer    *)
(* than its time to live, no event is newer than the last one sent           *)
(* (client.rs 80-88, discovery.rs 73-104, runner.rs 304-334,                 *)
(* strategy_server.rs 120-139).                                              *)
THEOREM TypesCorrect == AnyPart => []AllTypesOK
<1>1. TypeOK /\ Life!TypeOK /\ Path!TypeOK /\ Control!TypeOK => AllTypesOK
  BY DEF AllTypesOK
<1> QED BY <1>1, PartsFollow, TypeCorrect, LifeTypeCorrect, PathTypeCorrect, ControlTypeCorrect, PTL
=============================================================================

--------------------------- MODULE ControllerProofs ---------------------------
(***************************************************************************)
(* Shutdown, cancellation and truthful states, for any entities, action    *)
(* lists, connect handlers and queue capacity.                             *)
(***************************************************************************)
EXTENDS Controller, TLAPS

\* What a worker has in hand while it executes.
Working(e) ==
    /\ at[e] \in {"check", "act"} => command[e] \in Valid(e)
    /\ at[e] = "act" => step[e] \in DOMAIN ActionList(e)
    /\ at[e] \in {"read", "publish"} => e \in Switch

\* The WaitGroup counts everybody who is at work.
Counted ==
    /\ \A e \in Entity : at[e] # "exited" => e \in wg
    /\ \A h \in Handler : place[h] \notin {"idle", "begin"} => h \in wg
    /\ \A b \in Sensor : callback[b] # Nothing => b \in wg

\* From Shutdown on nobody is let in, and at the end nobody is left.
Closing ==
    /\ main \in {"joining", "stopped", "timedOut"} => ~accepting
    /\ main = "stopped" => wg = {}

\* The action that was under way when the context was cancelled is the last.
LateOnce(e) == lateActions[e] = 0 \/ (lateActions[e] = 1 /\ cancelled /\ at[e] # "act")

\* What the worker of s is about to publish and has published is the state.
Truthful(s) ==
    Exclusive(s) =>
        /\ at[s] = "publish" => value[s] = State(s)
        /\ last[s] = "worker" /\ ~Locked(s) => retained[s] = State(s)

TInv == TypeOK /\ \A e \in Entity : Working(e)

IInv ==
    /\ TInv
    /\ Counted
    /\ Closing
    /\ \A e \in Entity : LateOnce(e)
    /\ \A s \in Switch : Truthful(s)

-----------------------------------------------------------------------------
(* Types *)

LEMMA MaybeHas == Nothing \in Maybe /\ \A x \in BOOLEAN : x \in Maybe
BY Zenon DEF Maybe

LEMMA AppendType ==
    ASSUME NEW S, NEW s \in Seq(S), NEW v \in S
    PROVE  Append(s, v) \in Seq(S)
OBVIOUS

LEMMA TakeType ==
    ASSUME NEW S, NEW s \in Seq(S), s # << >>
    PROVE  Head(s) \in S /\ Tail(s) \in Seq(S)
OBVIOUS

LEMMA ValidIsPayload == \A e : Valid(e) \subseteq Payload
BY DEF Valid, Payload

LEMMA StateType ==
    ASSUME TypeOK, NEW s \in Switch
    PROVE  State(s) \in BOOLEAN
BY LineAssumption DEF TypeOK, HardwareType, State, Switch

\* Types of variables that a step does not change.
LEMMA TypesSame ==
    ASSUME TypeOK
    PROVE  /\ UNCHANGED <<accepting, cancelled, wg, main>> => ControlType'
           /\ UNCHANGED <<rx, queue>> => QueueType'
           /\ UNCHANGED <<at, command, step, value, lateActions>> => WorkerType'
           /\ UNCHANGED <<memory, level>> => HardwareType'
           /\ UNCHANGED <<inputs, input, edges, callback>> => InputType'
           /\ UNCHANGED <<place, index, held>> => PublisherType'
           /\ UNCHANGED <<retained, last>> => BrokerType'
BY DEF TypeOK, ControlType, QueueType, WorkerType, HardwareType, InputType, PublisherType,
       BrokerType

\* The action in work is one of the configuration.
LEMMA ActionInWork ==
    ASSUME TInv, NEW e \in Entity, at[e] \in {"check", "act"}
    PROVE  /\ command[e] \in Valid(e)
           /\ ActionList(e) \in Seq(Action)
           /\ at[e] = "act" =>
                /\ step[e] \in DOMAIN ActionList(e)
                /\ ActionList(e)[step[e]] \in Action
                /\ ActionList(e)[step[e]].type = "gpio" => ActionList(e)[step[e]].line \in Line
<1>1. command[e] \in Valid(e) /\ (at[e] = "act" => step[e] \in DOMAIN ActionList(e))
  BY DEF TInv, Working
<1>2. ActionList(e) \in Seq(Action)
  BY <1>1, ActionsAssumption DEF ActionList
<1>3. at[e] = "act" /\ ActionList(e)[step[e]].type = "gpio" => ActionList(e)[step[e]].line \in Line
  BY <1>1, ActionsAssumption DEF ActionList
<1> QED BY <1>1, <1>2, <1>3

LEMMA TypeInit == Init => TInv
<1> SUFFICES ASSUME Init PROVE TInv
  OBVIOUS
<1>0. \A x : << >> \in Seq(x) /\ Len(<< >>) = 0
  OBVIOUS
<1>1. ControlType
  BY DEF Init, ControlType
<1>2. QueueType
  BY <1>0, CapacityAssumption DEF Init, QueueType
<1>3. WorkerType
  BY MaybeHas DEF Init, WorkerType
<1>4. HardwareType
  BY InitialAssumption DEF Init, HardwareType
<1>5. InputType
  BY <1>0, MaybeHas DEF Init, InputType
<1>6. PublisherType
  BY MaybeHas DEF Init, PublisherType
<1>7. BrokerType
  BY MaybeHas DEF Init, BrokerType
<1>8. \A e \in Entity : Working(e)
  BY DEF Init, Working
<1> QED BY <1>1, <1>2, <1>3, <1>4, <1>5, <1>6, <1>7, <1>8 DEF TInv, TypeOK

LEMMA PublishStateType ==
    ASSUME TypeOK, NEW e \in Stateful, NEW v \in Maybe,
           NEW who \in {"worker", "publisher", "callback"}, PublishState(e, v, who)
    PROVE  BrokerType'
<1>1. retained \in [Stateful -> Maybe] /\ [retained EXCEPT ![e] = v] \in [Stateful -> Maybe]
  BY DEF TypeOK, BrokerType
<1>2. retained' \in [Stateful -> Maybe]
  BY <1>1 DEF PublishState
<1>3. \E w \in {who, "failed"} : last' = [s \in Switch |-> IF s = e THEN w ELSE last[s]]
  BY Zenon DEF PublishState
<1> QED BY <1>2, <1>3 DEF TypeOK, BrokerType

\* A worker's step leaves the other workers alone.
LEMMA WorkingSame ==
    ASSUME TInv, NEW f \in Entity, at'[f] = at[f], command'[f] = command[f], step'[f] = step[f]
    PROVE  Working(f)'
BY DEF TInv, Working, ActionList

LEMMA ForgetType ==
    ASSUME TypeOK, NEW e \in Entity, Forget(e)
    PROVE  /\ command' \in [Entity -> Payload \cup {Nothing}]
           /\ step' \in [Entity -> Nat \ {0}]
           /\ value' \in [Entity -> Maybe]
           /\ \A f \in Entity : f # e => /\ command'[f] = command[f] /\ step'[f] = step[f]
                                         /\ value'[f] = value[f]
BY MaybeHas DEF Forget, TypeOK, WorkerType

LEMMA ConcludeType ==
    ASSUME TypeOK, NEW e \in Entity, NEW success \in BOOLEAN, Conclude(e, success)
    PROVE  /\ at' \in [Entity -> {"loop", "select", "recheck", "check", "act", "read", "publish", "exited"}]
           /\ at'[e] = IF e \in Switch THEN "read" ELSE "loop"
           /\ command' \in [Entity -> Payload \cup {Nothing}]
           /\ step' \in [Entity -> Nat \ {0}]
           /\ value' \in [Entity -> Maybe]
           /\ memory' \in [MemorySwitch -> BOOLEAN]
           /\ \A f \in Entity : f # e => /\ at'[f] = at[f] /\ command'[f] = command[f]
                                         /\ step'[f] = step[f] /\ value'[f] = value[f]
           /\ \A s \in MemorySwitch : s # e => memory'[s] = memory[s]
<1>1. at \in [Entity -> {"loop", "select", "recheck", "check", "act", "read", "publish", "exited"}]
      /\ command \in [Entity -> Payload \cup {Nothing}] /\ step \in [Entity -> Nat \ {0}]
      /\ value \in [Entity -> Maybe] /\ memory \in [MemorySwitch -> BOOLEAN]
  BY DEF TypeOK, WorkerType, HardwareType
<1>2. /\ memory' \in [MemorySwitch -> BOOLEAN]
      /\ \A s \in MemorySwitch : s # e => memory'[s] = memory[s]
  BY <1>1 DEF Conclude
<1>3. CASE e \in Switch
  BY <1>1, <1>2, <1>3 DEF Conclude
<1>4. CASE e \notin Switch
  BY <1>1, <1>2, <1>4, ForgetType DEF Conclude
<1> QED BY <1>3, <1>4

LEMMA ActFrame ==
    ASSUME TypeOK, NEW e \in Entity, NEW success \in BOOLEAN, Act(e, success)
    PROVE  /\ e \in Switch => at'[e] \in {"check", "read"}
           /\ \A f \in Entity : f # e => /\ at'[f] = at[f] /\ command'[f] = command[f]
                                         /\ step'[f] = step[f] /\ value'[f] = value[f]
           /\ \A s \in MemorySwitch : s # e => memory'[s] = memory[s]
<1>1. at \in [Entity -> {"loop", "select", "recheck", "check", "act", "read", "publish", "exited"}]
      /\ step \in [Entity -> Nat \ {0}]
  BY DEF TypeOK, WorkerType
<1>2. \/ /\ step' = [step EXCEPT ![e] = @ + 1] /\ at' = [at EXCEPT ![e] = "check"]
         /\ UNCHANGED <<command, value, memory>>
      \/ Conclude(e, FALSE)
  BY DEF Act
<1>3. CASE /\ step' = [step EXCEPT ![e] = @ + 1] /\ at' = [at EXCEPT ![e] = "check"]
           /\ UNCHANGED <<command, value, memory>>
  BY <1>1, <1>3
<1>4. CASE Conclude(e, FALSE)
  BY <1>4, ConcludeType
<1> QED BY <1>2, <1>3, <1>4

LEMMA TypeWorker ==
    ASSUME TInv, NEW e \in Entity, Worker(e)
    PROVE  TInv'
<1> USE DEF flags, workers, hardware, publishers, bounds
<1>0. TypeOK /\ Valid(e) \subseteq Payload
  BY ValidIsPayload DEF TInv
<1>1. CASE Loop(e)
  <2>1. ControlType' /\ WorkerType'
    BY <1>0, <1>1 DEF Loop, Exit, TypeOK, ControlType, WorkerType
  <2>2. \A f \in Entity : f # e => Working(f)'
    BY <1>0, <1>1, WorkingSame DEF Loop, Exit, TypeOK, WorkerType
  <2>3. Working(e)'
    BY <1>0, <1>1 DEF Loop, Exit, TypeOK, WorkerType, Working
  <2> QED BY <1>0, <1>1, <2>1, <2>2, <2>3, TypesSame DEF Loop, TInv, TypeOK
<1>2. CASE Leave(e)
  <2>1. ControlType' /\ WorkerType'
    BY <1>0, <1>2 DEF Leave, Exit, TypeOK, ControlType, WorkerType
  <2>2. \A f \in Entity : f # e => Working(f)'
    BY <1>0, <1>2, WorkingSame DEF Leave, Exit, TypeOK, WorkerType
  <2>3. Working(e)'
    BY <1>0, <1>2 DEF Leave, Exit, TypeOK, WorkerType, Working
  <2> QED BY <1>0, <1>2, <2>1, <2>2, <2>3, TypesSame DEF Leave, TInv, TypeOK
<1>3. CASE Receive(e)
  <2>0. Head(queue[e]) \in Payload /\ Tail(queue[e]) \in Seq(Payload)
        /\ Len(Tail(queue[e])) <= Capacity
    BY <1>0, <1>3, CapacityAssumption DEF Receive, TypeOK, QueueType
  <2>1. QueueType'
    BY <1>0, <1>3, <2>0 DEF Receive, TypeOK, QueueType
  <2>2. WorkerType'
    BY <1>0, <1>3, <2>0 DEF Receive, TypeOK, WorkerType
  <2>3. \A f \in Entity : f # e => Working(f)'
    BY <1>0, <1>3, WorkingSame DEF Receive, TypeOK, WorkerType
  <2>4. Working(e)'
    BY <1>0, <1>3 DEF Receive, TypeOK, WorkerType, Working
  <2> QED BY <1>0, <1>3, <2>1, <2>2, <2>3, <2>4, TypesSame DEF Receive, TInv, TypeOK
<1>4. CASE Recheck(e)
  <2>0. \/ Exit(e) /\ Forget(e)
        \/ RejectPayload(e)
        \/ /\ command[e] \in Valid(e) /\ at' = [at EXCEPT ![e] = "check"]
           /\ UNCHANGED <<wg, command, step, value>>
    BY <1>4 DEF Recheck
  <2>1. ControlType'
    BY <1>0, <1>4, <2>0 DEF Recheck, RejectPayload, Exit, TypeOK, ControlType
  <2>2. WorkerType'
    BY <1>0, <1>4, <2>0, ForgetType DEF Recheck, RejectPayload, Exit, TypeOK, WorkerType
  <2>3. \A f \in Entity : f # e => Working(f)'
    BY <1>0, <2>0, ForgetType, WorkingSame DEF RejectPayload, Exit, TypeOK, WorkerType
  <2>4. Working(e)'
    BY <1>0, <2>0 DEF RejectPayload, Exit, TypeOK, WorkerType, Working
  <2> QED BY <1>0, <1>4, <2>1, <2>2, <2>3, <2>4, TypesSame DEF Recheck, TInv, TypeOK
<1>5. CASE Check(e)
  <2>0. command[e] \in Valid(e) /\ ActionList(e) \in Seq(Action) /\ step[e] \in Nat \ {0}
    BY <1>0, <1>5, ActionInWork DEF Check, TypeOK, WorkerType
  <2>1. \/ \E success \in BOOLEAN : Conclude(e, success)
        \/ /\ step[e] <= Len(ActionList(e))
           /\ at' = [at EXCEPT ![e] = "act"] /\ UNCHANGED <<command, step, value, memory>>
    BY <1>5 DEF Check
  <2>2. WorkerType'
    BY <1>0, <1>5, <2>1, ConcludeType DEF Check, TypeOK, WorkerType
  <2>3. HardwareType'
    BY <1>0, <1>5, <2>1, ConcludeType DEF Check, TypeOK, HardwareType
  <2>4. \A f \in Entity : f # e => Working(f)'
    BY <1>0, <2>1, ConcludeType, WorkingSame DEF TypeOK, WorkerType
  <2>5. Working(e)'
    <3>1. CASE \E success \in BOOLEAN : Conclude(e, success)
      BY <1>0, <3>1, ConcludeType DEF Working
    <3>2. CASE /\ step[e] <= Len(ActionList(e))
               /\ at' = [at EXCEPT ![e] = "act"] /\ UNCHANGED <<command, step, value, memory>>
      <4>1. at'[e] = "act" /\ step[e] \in DOMAIN ActionList(e)
        BY <1>0, <2>0, <3>2 DEF TypeOK, WorkerType
      <4> QED BY <2>0, <3>2, <4>1 DEF Working, ActionList
    <3> QED BY <2>1, <3>1, <3>2
  <2> QED BY <1>0, <1>5, <2>2, <2>3, <2>4, <2>5, TypesSame DEF Check, TInv, TypeOK
<1>6. ASSUME NEW success \in BOOLEAN, Act(e, success) PROVE TInv'
  <2> DEFINE a == ActionList(e)[step[e]]
  <2>0. command[e] \in Valid(e) /\ a \in Action /\ (a.type = "gpio" => a.line \in Line)
    BY <1>6, ActionInWork DEF Act
  <2>1. /\ level' = level \/ (a.type = "gpio" /\ level' = [level EXCEPT ![a.line] = a.value])
        /\ \/ /\ step' = [step EXCEPT ![e] = @ + 1] /\ at' = [at EXCEPT ![e] = "check"]
              /\ UNCHANGED <<command, value, memory>>
           \/ Conclude(e, FALSE)
    BY <1>6 DEF Act
  <2>2. level' \in [Line -> BOOLEAN]
    <3>1. a.value \in BOOLEAN
      BY <2>0 DEF Action
    <3> HIDE DEF a
    <3> QED BY <1>0, <2>0, <2>1, <3>1 DEF TypeOK, HardwareType
  <2>3. HardwareType'
    BY <1>0, <2>1, <2>2, ConcludeType DEF TypeOK, HardwareType
  <2>4. lateActions' \in [Entity -> Nat]
    BY <1>0, <1>6 DEF Act, TypeOK, WorkerType
  <2>5. WorkerType'
    <3> HIDE DEF a
    <3>1. CASE Conclude(e, FALSE)
      BY <1>0, <2>4, <3>1, ConcludeType DEF WorkerType
    <3>2. CASE /\ step' = [step EXCEPT ![e] = @ + 1] /\ at' = [at EXCEPT ![e] = "check"]
               /\ UNCHANGED <<command, value, memory>>
      BY <1>0, <2>4, <3>2 DEF TypeOK, WorkerType
    <3> QED BY <2>1, <3>1, <3>2
  <2>6. \A f \in Entity : f # e => Working(f)'
    BY <1>0, <1>6, ActFrame, WorkingSame
  <2>7. Working(e)'
    BY <1>0, <2>0, <2>1, ConcludeType DEF Working, TypeOK, WorkerType
  <2> QED BY <1>0, <1>6, <2>3, <2>5, <2>6, <2>7, TypesSame DEF Act, TInv, TypeOK
<1>7. CASE Read(e)
  <2>0. e \in Switch /\ e \in Stateful /\ State(e) \in Maybe
    BY <1>0, <1>7, StateType, MaybeHas DEF Read, TInv, Working, Stateful
  <2>1. \/ /\ at' = [at EXCEPT ![e] = "publish"] /\ value' = [value EXCEPT ![e] = State(e)]
           /\ UNCHANGED <<command, step, last>>
        \/ at' = [at EXCEPT ![e] = "loop"] /\ last' = [last EXCEPT ![e] = "failed"] /\ Forget(e)
    BY <1>7 DEF Read, Outcome
  <2>2. WorkerType'
    BY <1>0, <1>7, <2>0, <2>1, ForgetType DEF Read, TypeOK, WorkerType
  <2>3. BrokerType'
    BY <1>0, <1>7, <2>1 DEF Read, TypeOK, BrokerType
  <2>4. \A f \in Entity : f # e => Working(f)'
    BY <1>0, <2>1, ForgetType, WorkingSame DEF TypeOK, WorkerType
  <2>5. Working(e)'
    BY <1>0, <2>0, <2>1 DEF TypeOK, WorkerType, Working
  <2> QED BY <1>0, <1>7, <2>2, <2>3, <2>4, <2>5, TypesSame DEF Read, TInv, TypeOK
<1>8. CASE Publish(e)
  <2>0. e \in Switch /\ e \in Stateful /\ value[e] \in Maybe
    BY <1>0, <1>8 DEF Publish, TInv, Working, TypeOK, WorkerType, Stateful
  <2>1. BrokerType'
    BY <1>0, <1>8, <2>0, PublishStateType DEF Publish
  <2>2. WorkerType'
    BY <1>0, <1>8, ForgetType DEF Publish, TypeOK, WorkerType
  <2>4. \A f \in Entity : f # e => Working(f)'
    BY <1>0, <1>8, ForgetType, WorkingSame DEF Publish, TypeOK, WorkerType
  <2>5. Working(e)'
    BY <1>0, <1>8 DEF Publish, TypeOK, WorkerType, Working
  <2> QED BY <1>0, <1>8, <2>1, <2>2, <2>4, <2>5, TypesSame DEF Publish, TInv, TypeOK
<1> QED BY <1>1, <1>2, <1>3, <1>4, <1>5, <1>6, <1>7, <1>8 DEF Worker

\* Every other step leaves the workers' variables alone.
Others ==
    \/ \E e \in Entity : \E p \in Valid(e) \cup {"bad"} : Accept(e, p)
    \/ Enqueue
    \/ \E h \in Handler : Connect(h) \/ BeginConnect(h) \/ Discover(h)
    \/ \E p \in Publisher : PublishAll(p)
    \/ \E b \in Sensor : Edge(b) \/ BeginInput(b) \/ EndInput(b)
    \/ RequestInputs \/ OpenInputs \/ StartFails
    \/ Signal \/ Shutdown \/ Join \/ Timeout

LEMMA OthersFrame == Others => UNCHANGED <<at, command, step, value, memory, level, lateActions>>
BY DEF Others, Accept, Enqueue, Connect, BeginConnect, Discover, PublishAll, ReadState, PublishHeld,
       Published, Edge, BeginInput, EndInput, RequestInputs, OpenInputs, StartFails, Signal, Shutdown,
       Join, Timeout, workers, hardware

LEMMA TypeOthers == TInv /\ Others => TInv'
<1> SUFFICES ASSUME TInv, Others PROVE TInv'
  OBVIOUS
<1> USE DEF flags, workers, hardware, publishers, bounds
<1>0. TypeOK /\ UNCHANGED <<at, command, step, value, memory, level, lateActions>>
  BY OthersFrame DEF TInv
<1>w. (\A f \in Entity : Working(f)') /\ WorkerType' /\ HardwareType'
  BY <1>0, WorkingSame, TypesSame
<1>1. ASSUME NEW e \in Entity, NEW p \in Valid(e) \cup {"bad"}, Accept(e, p) PROVE TInv'
  <2>1. p \in Payload
    BY ValidIsPayload DEF Payload
  <2>2. QueueType'
    BY <1>0, <1>1, <2>1 DEF Accept, TypeOK, QueueType
  <2> QED BY <1>0, <1>1, <1>w, <2>2, TypesSame DEF Accept, TInv, TypeOK
<1>2. CASE Enqueue
  <2>1. rx \in Entity \X Payload
    BY <1>0, <1>2 DEF Enqueue, TypeOK, QueueType
  <2>2. PICK e \in Entity, p \in Payload : rx = <<e, p>>
    BY <2>1
  <2>3. queue' = queue \/ (Len(queue[e]) < Capacity /\ queue' = [queue EXCEPT ![e] = Append(@, p)])
    BY <1>2, <2>2 DEF Enqueue, HasRoom
  <2>4. queue[e] \in Seq(Payload) /\ Append(queue[e], p) \in Seq(Payload)
        /\ Len(Append(queue[e], p)) = Len(queue[e]) + 1 /\ Len(queue[e]) \in Nat
    BY <1>0 DEF TypeOK, QueueType
  <2>5. QueueType'
    <3>1. PICK q \in Seq(Payload) : q = Append(queue[e], p)
      BY <2>4
    <3>2. Len(queue[e]) < Capacity => Len(q) <= Capacity
      BY <2>4, <3>1, CapacityAssumption
    <3>3. queue \in [Entity -> Seq(Payload)] /\ \A f \in Entity : Len(queue[f]) <= Capacity
      BY <1>0 DEF TypeOK, QueueType
    <3>4. queue' = queue \/ (Len(q) <= Capacity /\ queue' = [queue EXCEPT ![e] = q])
      BY <2>3, <3>1, <3>2
    <3>5. queue' \in [Entity -> Seq(Payload)] /\ \A f \in Entity : Len(queue'[f]) <= Capacity
      BY <3>3, <3>4
    <3>6. rx' = Nothing
      BY <1>2 DEF Enqueue
    <3> QED BY <3>5, <3>6 DEF QueueType
  <2> QED BY <1>0, <1>2, <1>w, <2>5, TypesSame DEF Enqueue, TInv, TypeOK
<1>3. ASSUME NEW h \in Handler, Connect(h) \/ BeginConnect(h) \/ Discover(h) PROVE TInv'
  <2>1. PublisherType' /\ ControlType'
    BY <1>0, <1>3 DEF Connect, BeginConnect, Discover, TypeOK, PublisherType, ControlType, Publisher
  <2> QED BY <1>0, <1>3, <1>w, <2>1, TypesSame DEF Connect, BeginConnect, Discover, TInv, TypeOK
<1>4. ASSUME NEW p \in Publisher, ReadState(p) PROVE TInv'
  <2> DEFINE e == Order[index[p]]
  <2>1. e \in Stateful
    BY <1>0, <1>4, OrderAssumption DEF ReadState, TypeOK, PublisherType
  <2>2. e \in Sensor => input[e] \in BOOLEAN
    BY <1>0 DEF TypeOK, InputType
  <2>3. e \notin Sensor => State(e) \in BOOLEAN
    BY <1>0, <2>1, StateType DEF Stateful
  <2>4. (IF e \in Sensor THEN input[e] ELSE State(e)) \in Maybe
    BY <2>2, <2>3, MaybeHas
  <2>5. PICK v \in Maybe : v = IF e \in Sensor THEN input[e] ELSE State(e)
    BY <2>4, Zenon
  <2>6. \/ /\ place' = [place EXCEPT ![p] = "publish"] /\ held' = [held EXCEPT ![p] = v]
           /\ index' = index
        \/ index' = [index EXCEPT ![p] = @ + 1] /\ UNCHANGED <<place, held>>
    BY <1>4, <2>5, Zenon DEF ReadState
  <2>7. PublisherType'
    BY <1>0, <2>6 DEF TypeOK, PublisherType
  <2> QED BY <1>0, <1>4, <1>w, <2>7, TypesSame DEF ReadState, TInv, TypeOK
<1>5. ASSUME NEW p \in Publisher, PublishHeld(p) PROVE TInv'
  <2>1. PublisherType'
    BY <1>0, <1>5, MaybeHas DEF PublishHeld, TypeOK, PublisherType
  <2>2. CASE Order[index[p]] \in Stateful
    <3>1. BrokerType'
      BY <1>0, <1>5, <2>2, PublishStateType DEF PublishHeld, TypeOK, PublisherType
    <3> QED BY <1>0, <1>5, <1>w, <2>1, <3>1, TypesSame DEF PublishHeld, TInv, TypeOK
  <2>3. CASE Order[index[p]] \notin Stateful
    <3>1. Order[index[p]] \notin Switch
      BY <2>3 DEF Stateful
    <3>2. retained' = retained
      BY <1>0, <1>5, <2>3 DEF PublishHeld, PublishState, TypeOK, BrokerType
    <3>3. last' = [s \in Switch |-> last[s]]
      BY <1>5, <3>1, Zenon DEF PublishHeld, PublishState
    <3>4. last' = last
      BY <1>0, <3>3 DEF TypeOK, BrokerType
    <3> QED BY <1>0, <1>5, <1>w, <2>1, <3>2, <3>4, TypesSame DEF PublishHeld, TInv, TypeOK
  <2> QED BY <2>2, <2>3
<1>6. ASSUME NEW p \in Publisher, Published(p) PROVE TInv'
  <2>1. PublisherType' /\ ControlType'
    BY <1>0, <1>6 DEF Published, EndCallback, TypeOK, PublisherType, ControlType
  <2> QED BY <1>0, <1>6, <1>w, <2>1, TypesSame DEF Published, TInv, TypeOK
<1>7. ASSUME NEW b \in Sensor, Edge(b) PROVE TInv'
  <2>1. InputType'
    <3>1. (~input[b]) \in BOOLEAN /\ edges[b] \in Seq(BOOLEAN)
      BY <1>0 DEF TypeOK, InputType
    <3>2. Append(edges[b], ~input[b]) \in Seq(BOOLEAN)
      BY <3>1, AppendType, Zenon
    <3> QED BY <1>0, <1>7, <3>1, <3>2 DEF Edge, TypeOK, InputType
  <2> QED BY <1>0, <1>7, <1>w, <2>1, TypesSame DEF Edge, TInv, TypeOK
<1>8. ASSUME NEW b \in Sensor, BeginInput(b) PROVE TInv'
  <2>1. Head(edges[b]) \in Maybe /\ Tail(edges[b]) \in Seq(BOOLEAN)
    <3>1. edges[b] \in Seq(BOOLEAN) /\ edges[b] # << >>
      BY <1>0, <1>8 DEF BeginInput, TypeOK, InputType
    <3>2. Head(edges[b]) \in BOOLEAN /\ Tail(edges[b]) \in Seq(BOOLEAN)
      BY <3>1, TakeType, Zenon
    <3> QED BY <3>2, MaybeHas
  <2>2. InputType' /\ ControlType'
    BY <1>0, <1>8, <2>1 DEF BeginInput, TypeOK, InputType, ControlType
  <2> QED BY <1>0, <1>8, <1>w, <2>2, TypesSame DEF BeginInput, TInv, TypeOK
<1>9. ASSUME NEW b \in Sensor, EndInput(b) PROVE TInv'
  <2>1. BrokerType'
    BY <1>0, <1>9, PublishStateType DEF EndInput, TypeOK, InputType, Stateful
  <2>2. InputType' /\ ControlType'
    BY <1>0, <1>9, MaybeHas DEF EndInput, EndCallback, TypeOK, InputType, ControlType
  <2> QED BY <1>0, <1>9, <1>w, <2>1, <2>2, TypesSame DEF EndInput, TInv, TypeOK
<1>10. CASE RequestInputs \/ OpenInputs \/ StartFails
  <2>1. \A b \in Sensor : << >> \in Seq(BOOLEAN)
    OBVIOUS
  <2>2. InputType'
    BY <1>0, <1>10, <2>1 DEF RequestInputs, OpenInputs, StartFails, TypeOK, InputType
  <2>3. PublisherType' /\ ControlType'
    BY <1>0, <1>10 DEF RequestInputs, OpenInputs, StartFails, TypeOK, PublisherType, Publisher,
                       ControlType
  <2> QED BY <1>0, <1>10, <1>w, <2>2, <2>3, TypesSame DEF RequestInputs, OpenInputs, StartFails, TInv,
                                                         TypeOK
<1>11. CASE Signal \/ Shutdown \/ Join \/ Timeout
  <2>1. ControlType'
    BY <1>0, <1>11 DEF Signal, Shutdown, Join, Timeout, TypeOK, ControlType
  <2> QED BY <1>0, <1>11, <1>w, <2>1, TypesSame DEF Signal, Shutdown, Join, Timeout, TInv, TypeOK
<1> QED BY <1>1, <1>2, <1>3, <1>4, <1>5, <1>6, <1>7, <1>8, <1>9, <1>10, <1>11 DEF Others, PublishAll

-----------------------------------------------------------------------------
(* The WaitGroup *)

LEMMA CountedWorker ==
    ASSUME TInv, Counted, NEW e \in Entity, Worker(e)
    PROVE  Counted'
<1> USE DEF flags, workers, hardware, publishers, bounds
<1>1. /\ wg' = wg \/ (wg' = wg \ {e} /\ at'[e] = "exited")
      /\ at[e] # "exited"
      /\ \A f \in Entity : f # e => at'[f] = at[f]
      /\ UNCHANGED <<place, callback>>
  <2>0. TypeOK /\ at \in [Entity -> {"loop", "select", "recheck", "check", "act", "read", "publish", "exited"}]
    BY DEF TInv, TypeOK, WorkerType
  <2>1. CASE Check(e) \/ \E success \in BOOLEAN : Act(e, success)
    <3>1. wg' = wg /\ at[e] # "exited" /\ UNCHANGED <<place, callback>>
      BY <2>1 DEF Check, Act
    <3>2. \A f \in Entity : f # e => at'[f] = at[f]
      BY <2>0, <2>1, ConcludeType DEF Check, Act
    <3> QED BY <3>1, <3>2
  <2>2. CASE Loop(e) \/ Leave(e) \/ Receive(e) \/ Recheck(e) \/ Read(e) \/ Publish(e)
    BY <2>0, <2>2 DEF Loop, Leave, Done, Exit, Receive, Recheck, RejectPayload, Read, Publish
  <2> QED BY <2>1, <2>2 DEF Worker
<1> QED BY <1>1, NamesAssumption DEF Counted

LEMMA CountedOthers ==
    ASSUME TInv, Counted, Others
    PROVE  Counted'
<1> USE DEF flags, workers, hardware, publishers, bounds
<1>0. /\ UNCHANGED at
      /\ place \in [Publisher -> {"idle", "begin", "discover", "read", "publish"}]
      /\ callback \in [Sensor -> Maybe]
  BY OthersFrame DEF TInv, TypeOK, PublisherType, InputType
<1>1. CASE UNCHANGED <<wg, place, callback>>
  BY <1>0, <1>1 DEF Counted
<1>2. ASSUME NEW h \in Handler, Connect(h) \/ BeginConnect(h) \/ Discover(h) PROVE Counted'
  BY <1>0, <1>2 DEF Counted, Connect, BeginConnect, Discover, Publisher
<1>3. ASSUME NEW p \in Publisher, ReadState(p) \/ PublishHeld(p) PROVE Counted'
  BY <1>0, <1>3 DEF Counted, ReadState, PublishHeld, Publisher
<1>4. ASSUME NEW p \in Publisher, Published(p) PROVE Counted'
  BY <1>0, <1>4, NamesAssumption DEF Counted, Published, EndCallback, Publisher
<1>5. ASSUME NEW b \in Sensor, BeginInput(b) PROVE Counted'
  BY <1>0, <1>5 DEF Counted, BeginInput
<1>6. ASSUME NEW b \in Sensor, EndInput(b) PROVE Counted'
  BY <1>0, <1>6, NamesAssumption DEF Counted, EndInput, EndCallback
<1>7. CASE OpenInputs
  BY <1>0, <1>7, NamesAssumption DEF Counted, OpenInputs, Publisher
<1>8. ASSUME \/ \E e \in Entity : \E p \in Valid(e) \cup {"bad"} : Accept(e, p)
             \/ Enqueue \/ (\E b \in Sensor : Edge(b))
             \/ RequestInputs \/ StartFails \/ Signal \/ Shutdown \/ Join \/ Timeout
      PROVE  UNCHANGED <<wg, place, callback>>
  BY <1>8 DEF Accept, Enqueue, Edge, RequestInputs, StartFails, Signal, Shutdown, Join, Timeout
<1> QED BY <1>1, <1>2, <1>3, <1>4, <1>5, <1>6, <1>7, <1>8 DEF Others, PublishAll

LEMMA ClosingStep ==
    ASSUME TInv, Counted, Closing, (\E e \in Entity : Worker(e)) \/ Others
    PROVE  Closing'
<1> USE DEF flags, workers, hardware, publishers, bounds
<1>1. ASSUME NEW e \in Entity, Worker(e) PROVE Closing'
  <2>1. UNCHANGED <<main, accepting>> /\ wg' \subseteq wg
    BY <1>1 DEF Worker, Loop, Leave, Receive, Recheck, RejectPayload, Check, Act, Read, Publish, Exit
  <2> QED BY <2>1 DEF Closing
<1>2. CASE Others
  <2>1. CASE UNCHANGED main
    <3>1. wg' \subseteq wg \/ accepting
      BY <1>2, <2>1 DEF Others, Accept, Enqueue, Connect, BeginConnect, Discover, PublishAll, ReadState,
            PublishHeld, Published, Edge, BeginInput, EndInput, RequestInputs, OpenInputs, StartFails,
            Signal, Shutdown, Join, Timeout, MayBegin, EndCallback
    <3>2. accepting' = accepting \/ accepting' = FALSE
      BY <1>2, <2>1 DEF Others, Accept, Enqueue, Connect, BeginConnect, Discover, PublishAll, ReadState,
            PublishHeld, Published, Edge, BeginInput, EndInput, RequestInputs, OpenInputs, StartFails,
            Signal, Shutdown, Join, Timeout
    <3> QED BY <2>1, <3>1, <3>2 DEF Closing
  <2>2. CASE ~UNCHANGED main
    <3>1. (\E p \in Publisher : Published(p)) \/ OpenInputs \/ StartFails \/ Shutdown \/ Join \/ Timeout
      BY <1>2, <2>2 DEF Others, Accept, Enqueue, Connect, BeginConnect, Discover, PublishAll, ReadState,
            PublishHeld, Edge, BeginInput, EndInput, RequestInputs, Signal
    <3> QED BY <2>2, <3>1 DEF Closing, Published, OpenInputs, StartFails, Shutdown, Join, Timeout
  <2> QED BY <2>1, <2>2
<1> QED BY <1>1, <1>2

-----------------------------------------------------------------------------
(* Cancellation *)

\* Nothing takes a cancellation back.
LEMMA CancelledStays == Others => (cancelled => cancelled')
BY DEF Others, Accept, Enqueue, Connect, BeginConnect, Discover, PublishAll, ReadState,
       PublishHeld, Published, Edge, BeginInput, EndInput, RequestInputs, OpenInputs, StartFails,
       Signal, Shutdown, Join, Timeout, flags

LEMMA LateOthers ==
    ASSUME TInv, Others, NEW e \in Entity, LateOnce(e)
    PROVE  LateOnce(e)'
BY OthersFrame, CancelledStays DEF LateOnce

LEMMA LateWorker ==
    ASSUME TInv, NEW e \in Entity, Worker(e), NEW f \in Entity, LateOnce(f)
    PROVE  LateOnce(f)'
<1> USE DEF flags, workers, hardware, publishers, bounds
<1>0. /\ TypeOK /\ lateActions \in [Entity -> Nat]
      /\ at \in [Entity -> {"loop", "select", "recheck", "check", "act", "read", "publish", "exited"}]
  BY DEF TInv, TypeOK, WorkerType
<1>1. ASSUME NEW success \in BOOLEAN, Act(e, success) PROVE LateOnce(f)'
  <2>1. cancelled' = cancelled /\ at[e] = "act"
        /\ lateActions' = IF cancelled THEN [lateActions EXCEPT ![e] = @ + 1] ELSE lateActions
    BY <1>1 DEF Act
  <2>2. at'[e] # "act" /\ \A g \in Entity : g # e => at'[g] = at[g]
    BY <1>0, <1>1, ConcludeType DEF Act
  <2> QED BY <1>0, <2>1, <2>2 DEF LateOnce
<1>2. CASE Check(e)
  <2>1. cancelled' = cancelled /\ lateActions' = lateActions /\ (at'[e] = "act" => ~cancelled)
        /\ \A g \in Entity : g # e => at'[g] = at[g]
    BY <1>0, <1>2, ConcludeType DEF Check, Stopped
  <2> QED BY <2>1 DEF LateOnce
<1>3. CASE Loop(e) \/ Leave(e) \/ Receive(e) \/ Recheck(e) \/ Read(e) \/ Publish(e)
  <2>1. cancelled' = cancelled /\ lateActions' = lateActions /\ at'[e] # "act"
        /\ \A g \in Entity : g # e => at'[g] = at[g]
    BY <1>0, <1>3 DEF Loop, Leave, Exit, Receive, Recheck, RejectPayload, Read, Publish
  <2> QED BY <2>1 DEF LateOnce
<1> QED BY <1>1, <1>2, <1>3 DEF Worker

-----------------------------------------------------------------------------
(* Published states *)

LEMMA TruthOthers ==
    ASSUME TInv, Others, NEW s \in Switch, Truthful(s)
    PROVE  Truthful(s)'
<1> USE DEF flags, workers, hardware, publishers, bounds
<1>0. UNCHANGED <<at, value, memory, level>> /\ (Locked(s)' <=> Locked(s)) /\ State(s)' = State(s)
  BY OthersFrame DEF Locked, State
<1>1. s \in Stateful /\ last \in [Switch -> {"nobody", "worker", "publisher", "callback", "failed"}]
      /\ retained \in [Stateful -> Maybe]
  BY DEF TInv, TypeOK, BrokerType, Stateful
<1>2. \/ UNCHANGED <<retained, last>>
      \/ \E e, v : PublishState(e, v, "publisher")
      \/ \E e, v : PublishState(e, v, "callback")
  <2>1. CASE \E p \in Publisher : PublishHeld(p)
    BY <2>1 DEF PublishHeld
  <2>2. CASE \E b \in Sensor : EndInput(b)
    BY <2>2 DEF EndInput
  <2>3. CASE ~(\E p \in Publisher : PublishHeld(p)) /\ ~(\E b \in Sensor : EndInput(b))
    BY <2>3 DEF Others, Accept, Enqueue, Connect, BeginConnect, Discover, PublishAll, ReadState, Published,
                Edge, BeginInput, RequestInputs, OpenInputs, StartFails, Signal, Shutdown, Join, Timeout
  <2> QED BY <2>1, <2>2, <2>3
<1>3. last'[s] = "worker" => last[s] = "worker" /\ retained'[s] = retained[s]
  BY <1>1, <1>2 DEF PublishState
<1> QED BY <1>0, <1>3 DEF Truthful, Exclusive

\* An action of another entity does not move an output that only s drives.
LEMMA OutputKept ==
    ASSUME TInv, NEW e \in Entity, NEW success \in BOOLEAN, Act(e, success),
           NEW s \in GpioSwitch, s # e, Exclusive(s)
    PROVE  level'[LineOf[s]] = level[LineOf[s]]
<1> DEFINE a == ActionList(e)[step[e]]
<1>1. command[e] \in Valid(e) /\ step[e] \in DOMAIN Actions[e][command[e]]
  BY ActionInWork DEF Act, ActionList
<1>2. a.type = "gpio" => a.line # LineOf[s]
  BY <1>1 DEF Exclusive, ActionList
<1>3. level' = level \/ (a.type = "gpio" /\ level' = [level EXCEPT ![a.line] = a.value])
  BY DEF Act
<1>4. level \in [Line -> BOOLEAN] /\ LineOf[s] \in Line
  BY LineAssumption DEF TInv, TypeOK, HardwareType
<1> HIDE DEF a
<1> QED BY <1>2, <1>3, <1>4

LEMMA TruthWorker ==
    ASSUME TInv, NEW e \in Entity, Worker(e), NEW s \in Switch, Truthful(s)
    PROVE  Truthful(s)'
<1> USE DEF flags, workers, hardware, publishers, bounds
<1>0. /\ TypeOK /\ s \in Entity /\ s \in Stateful
      /\ at \in [Entity -> {"loop", "select", "recheck", "check", "act", "read", "publish", "exited"}]
      /\ value \in [Entity -> Maybe]
      /\ last \in [Switch -> {"nobody", "worker", "publisher", "callback", "failed"}]
      /\ retained \in [Stateful -> Maybe]
  BY DEF TInv, TypeOK, WorkerType, BrokerType, Entity, Stateful
<1> SUFFICES ASSUME Exclusive(s)
             PROVE  /\ at'[s] = "publish" => value'[s] = State(s)'
                    /\ last'[s] = "worker" /\ ~Locked(s)' => retained'[s] = State(s)'
  BY DEF Truthful, Exclusive
<1>1. /\ at[s] = "publish" => value[s] = State(s)
      /\ last[s] = "worker" /\ ~Locked(s) => retained[s] = State(s)
  BY DEF Truthful
<1>2. ASSUME NEW success \in BOOLEAN, Act(e, success)
      PROVE  /\ at'[s] = "publish" => value'[s] = State(s)'
             /\ last'[s] = "worker" /\ ~Locked(s)' => retained'[s] = State(s)'
  <2>1. UNCHANGED <<retained, last>>
    BY <1>2 DEF Act
  <2>2. CASE s = e
    <3>1. at'[s] \in {"check", "read"}
      BY <1>0, <1>2, <2>2, ActFrame
    <3> QED BY <3>1 DEF Locked
  <2>3. CASE s # e
    <3>1. at'[s] = at[s] /\ value'[s] = value[s]
          /\ (s \in MemorySwitch => memory'[s] = memory[s])
      BY <1>0, <1>2, <2>3, ActFrame
    <3>2. State(s)' = State(s)
      BY <1>2, <2>3, <3>1, OutputKept DEF State, Switch
    <3> QED BY <1>1, <2>1, <3>1, <3>2 DEF Locked
  <2> QED BY <2>2, <2>3
<1>3. ASSUME Check(e)
      PROVE  /\ at'[s] = "publish" => value'[s] = State(s)'
             /\ last'[s] = "worker" /\ ~Locked(s)' => retained'[s] = State(s)'
  <2>1. UNCHANGED <<retained, last, level>>
    BY <1>3 DEF Check
  <2>2. CASE s = e
    <3>1. at'[s] \in {"act", "read"}
      BY <1>0, <1>3, <2>2, ConcludeType DEF Check
    <3> QED BY <3>1 DEF Locked
  <2>3. CASE s # e
    <3>1. at'[s] = at[s] /\ value'[s] = value[s]
          /\ (s \in MemorySwitch => memory'[s] = memory[s])
      BY <1>0, <1>3, <2>3, ConcludeType DEF Check
    <3>2. State(s)' = State(s)
      BY <2>1, <3>1 DEF State
    <3> QED BY <1>1, <2>1, <3>1, <3>2 DEF Locked
  <2> QED BY <2>2, <2>3
<1>4. ASSUME Loop(e) \/ Leave(e) \/ Receive(e) \/ Recheck(e)
      PROVE  /\ at'[s] = "publish" => value'[s] = State(s)'
             /\ last'[s] = "worker" /\ ~Locked(s)' => retained'[s] = State(s)'
  <2>1. UNCHANGED <<retained, last, memory, level>> /\ State(s)' = State(s)
    BY <1>4 DEF Loop, Leave, Receive, Recheck, State
  <2>2. CASE s = e
    <3>1. ~Locked(s) /\ at'[s] # "publish"
      BY <1>0, <1>4, <2>2 DEF Loop, Leave, Done, Exit, Receive, Recheck, RejectPayload, Locked
    <3> QED BY <1>1, <2>1, <3>1
  <2>3. CASE s # e
    <3>1. at'[s] = at[s] /\ value'[s] = value[s]
      BY <1>0, <1>4, <2>3, ForgetType DEF Loop, Leave, Exit, Receive, Recheck, RejectPayload
    <3> QED BY <1>1, <2>1, <3>1 DEF Locked
  <2> QED BY <2>2, <2>3
<1>5. ASSUME Read(e)
      PROVE  /\ at'[s] = "publish" => value'[s] = State(s)'
             /\ last'[s] = "worker" /\ ~Locked(s)' => retained'[s] = State(s)'
  <2>1. UNCHANGED <<retained, memory, level>> /\ State(s)' = State(s)
    BY <1>5 DEF Read, State
  <2>2. \/ /\ at' = [at EXCEPT ![e] = "publish"] /\ value' = [value EXCEPT ![e] = State(e)]
           /\ last' = last
        \/ at' = [at EXCEPT ![e] = "loop"] /\ last' = [last EXCEPT ![e] = "failed"] /\ Forget(e)
    BY <1>5 DEF Read, Outcome
  <2>3. CASE s = e
    <3>1. at'[s] = "publish" => value'[s] = State(s)
      BY <1>0, <2>2, <2>3
    <3>2. Locked(s)' \/ last'[s] = "failed"
      BY <1>0, <2>2, <2>3 DEF Locked
    <3> QED BY <2>1, <3>1, <3>2
  <2>4. CASE s # e
    <3>1. at'[s] = at[s] /\ value'[s] = value[s] /\ last'[s] = last[s]
      BY <1>0, <2>2, <2>4, ForgetType
    <3> QED BY <1>1, <2>1, <3>1 DEF Locked
  <2> QED BY <2>3, <2>4
<1>6. ASSUME Publish(e)
      PROVE  /\ at'[s] = "publish" => value'[s] = State(s)'
             /\ last'[s] = "worker" /\ ~Locked(s)' => retained'[s] = State(s)'
  <2>1. UNCHANGED <<memory, level>> /\ State(s)' = State(s)
    BY <1>6 DEF Publish, State
  <2>2. at' = [at EXCEPT ![e] = "loop"] /\ Forget(e) /\ at[e] = "publish"
        /\ PublishState(e, value[e], "worker")
    BY <1>6 DEF Publish
  <2>3. CASE s = e
    <3>1. at'[s] = "loop"
      BY <1>0, <2>2, <2>3
    <3>2. last'[s] = "worker" => retained'[s] = value[s]
      BY <1>0, <2>2, <2>3 DEF PublishState
    <3> QED BY <1>1, <2>1, <2>2, <2>3, <3>1, <3>2
  <2>4. CASE s # e
    <3>1. at'[s] = at[s] /\ value'[s] = value[s]
      BY <1>0, <2>2, <2>4, ForgetType
    <3>2. last'[s] = last[s] /\ retained'[s] = retained[s]
      BY <1>0, <2>2, <2>4 DEF PublishState
    <3> QED BY <1>1, <2>1, <3>1, <3>2 DEF Locked
  <2> QED BY <2>3, <2>4
<1> QED BY <1>2, <1>3, <1>4, <1>5, <1>6 DEF Worker

-----------------------------------------------------------------------------
(* The theorems *)

LEMMA InitInvariant == Init => IInv
<1> SUFFICES ASSUME Init PROVE IInv
  OBVIOUS
<1>1. TInv
  BY TypeInit
<1>2. Counted /\ Closing
  BY DEF Init, Counted, Closing, Publisher
<1>3. \A e \in Entity : LateOnce(e)
  BY DEF Init, LateOnce
<1>4. \A s \in Switch : Truthful(s)
  BY DEF Init, Truthful, Entity, Stateful
<1> QED BY <1>1, <1>2, <1>3, <1>4 DEF IInv

LEMMA NextInvariant == IInv /\ [Next]_vars => IInv'
<1> SUFFICES ASSUME IInv, [Next]_vars PROVE IInv'
  OBVIOUS
<1>1. ASSUME NEW e \in Entity, Worker(e) PROVE IInv'
  BY <1>1, TypeWorker, CountedWorker, ClosingStep, LateWorker, TruthWorker DEF IInv
<1>2. CASE Others
  BY <1>2, TypeOthers, CountedOthers, ClosingStep, LateOthers, TruthOthers DEF IInv
<1>3. CASE UNCHANGED vars
  <2>1. TInv'
    <3>1. TypeOK'
      BY <1>3, TypesSame DEF vars, flags, workers, hardware, publishers, bounds, IInv, TInv, TypeOK
    <3>2. \A f \in Entity : Working(f)'
      BY <1>3, WorkingSame DEF vars, workers, IInv
    <3> QED BY <3>1, <3>2 DEF TInv
  <2>2. Counted' /\ Closing'
    BY <1>3 DEF IInv, vars, flags, workers, hardware, publishers, Counted, Closing
  <2>3. \A e \in Entity : LateOnce(e)'
    BY <1>3 DEF IInv, vars, flags, workers, LateOnce
  <2>4. \A s \in Switch : Truthful(s)'
    BY <1>3 DEF IInv, vars, workers, hardware, Truthful, Locked, State, Exclusive
  <2> QED BY <2>1, <2>2, <2>3, <2>4 DEF IInv
<1> QED BY <1>1, <1>2, <1>3 DEF Next, Others

LEMMA Invariance == Spec => []IInv
BY InitInvariant, NextInvariant, PTL DEF Spec

\* Every variable of the controller keeps its type; the queues keep their bound.
THEOREM TypeCorrect == Spec => []TypeOK
<1>1. IInv => TypeOK
  BY DEF IInv, TInv
<1> QED BY <1>1, Invariance, PTL

\* beginCallback and wg.Wait of Shutdown: nobody works once Shutdown returned.
THEOREM StoppedIsQuiet == Spec => []QuietWhenStopped
<1>1. IInv => QuietWhenStopped
  BY DEF IInv, Counted, Closing, QuietWhenStopped
<1> QED BY <1>1, Invariance, PTL

\* The checks of the context in the workers and in Execute: at most the action
\* under way is finished after cancellation.
THEOREM CancellationIsPrompt == Spec => []AtMostOneLateAction
<1>1. IInv => AtMostOneLateAction
  BY DEF IInv, LateOnce, AtMostOneLateAction
<1> QED BY <1>1, Invariance, PTL

\* handleSwitch publishes, under the lock of the entity, the state it has read.
THEOREM WorkersTellTheTruth == Spec => []WorkerPublishesTruth
<1>1. IInv => WorkerPublishesTruth
  BY DEF IInv, Truthful, WorkerPublishesTruth
<1> QED BY <1>1, Invariance, PTL
=============================================================================

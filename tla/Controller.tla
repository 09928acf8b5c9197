------------------------------ MODULE Controller ------------------------------
(***************************************************************************)
(* The entities at work: one worker per switch and button that takes its   *)
(* commands in order, executes their actions and publishes the resulting   *)
(* state; the goroutines that publish all states after a connection and at *)
(* the start; the callbacks of GPIO inputs; and shutdown, which cancels    *)
(* them and waits for those counted in the WaitGroup.                      *)
(*                                                                         *)
(* The duplicate filter and the sessions before the queue are the subject  *)
(* of CommandIntake, the discovery topics that of Discovery.               *)
(***************************************************************************)
EXTENDS Integers, Sequences

CONSTANTS
    MemorySwitch,    \* switches whose state is the last successful command
    InitialState,    \* InitialState[s]: initial_state of memory switch s
    GpioSwitch,      \* switches whose state is the level of a GPIO output
    Button,
    Sensor,          \* binary sensors, one per GPIO input
    Line,            \* GPIO outputs
    LineOf,          \* LineOf[s]: the output of GPIO switch s
    Actions,         \* Actions[e][payload]: the action list of a command
    Order,           \* switches and sensors in the order of the configuration
    Handler,         \* connect handlers that may run at once
    Nothing,         \* no value, no command
    Capacity,        \* EntityQueueCapacity
    MaxArrivals,     \* bound: commands that arrive
    MaxConnections,  \* bound: MQTT connections
    MaxEdges         \* bound: edge events of an input waiting at once

Switch == MemorySwitch \cup GpioSwitch
Entity == Switch \cup Button
Stateful == Switch \cup Sensor

\* A state, or none.
Maybe == BOOLEAN \cup {Nothing}

\* Payloads after normalisation; "bad" is any other payload.
Payload == {"ON", "OFF", "PRESS", "bad"}
Valid(e) == IF e \in Switch THEN {"ON", "OFF"} ELSE {"PRESS"}

\* An action: gpio sets line to value; the others have no effect modelled here.
Action == [type : {"gpio", "delay", "command", "mqtt"},
           line : Line \cup {Nothing}, value : BOOLEAN, ignore : BOOLEAN]

ASSUME ActionsAssumption ==
    /\ \A e \in Entity : \A p \in Valid(e) : Actions[e][p] \in Seq(Action)
    /\ \A e \in Entity : \A p \in Valid(e) : \A i \in DOMAIN Actions[e][p] :
           Actions[e][p][i].type = "gpio" => Actions[e][p][i].line \in Line
\* Names stand for one thing each.
ASSUME NamesAssumption ==
    /\ MemorySwitch \cap GpioSwitch = {} /\ Button \cap Switch = {} /\ Sensor \cap Entity = {}
    /\ Handler \cap (Entity \cup Sensor) = {}
    /\ "main" \notin Handler \cup Entity \cup Sensor
ASSUME OrderAssumption == Order \in Seq(Stateful)
ASSUME LineAssumption == LineOf \in [GpioSwitch -> Line]
ASSUME InitialAssumption == InitialState \in [MemorySwitch -> BOOLEAN]
ASSUME CapacityAssumption == Capacity \in Nat \ {0}

VARIABLES
    accepting,   \* Controller.accepting
    cancelled,   \* the controller's context is cancelled
    wg,          \* goroutines counted in Controller.wg
    main,        \* where run() is
    rx,          \* the command a Paho callback is about to queue
    queue,       \* the FIFO of each entity
    at,          \* at[e]: where the worker of e is
    command,     \* command[e]: payload in work
    step,        \* step[e]: index of the action in work
    value,       \* value[e]: state the worker is about to publish
    memory,      \* memory[s]: switchRuntime.state
    level,       \* level[l]: level of output l
    inputs,      \* the input lines: "closed", "opening" under the manager's lock, or "open"
    input,       \* input[b]: level of the input of sensor b
    edges,       \* edges[b]: edge events not yet handled
    callback,    \* callback[b]: event state HandleGPIOInput is publishing
    place,       \* place[p]: where goroutine p is in PublishAllStates
    index,       \* index[p]: position in Order
    held,        \* held[p]: state read and not yet published
    retained,    \* retained[e]: state retained at the broker
    arrivals, connections,
    lateActions, \* history: lateActions[e], actions of e run after cancellation
    last         \* history: last[s], who published the state of switch s last

flags == <<accepting, cancelled>>
workers == <<at, command, step, value>>
hardware == <<level, inputs, input, edges>>
publishers == <<place, index, held>>
bounds == <<arrivals, connections>>
vars == <<flags, wg, main, rx, queue, workers, memory, hardware, callback,
          publishers, retained, bounds, lateActions, last>>

Publisher == Handler \cup {"main"}

Init ==
    /\ accepting = TRUE /\ cancelled = FALSE
    /\ wg = Entity
    /\ main = "starting"
    /\ rx = Nothing
    /\ queue = [e \in Entity |-> << >>]
    /\ at = [e \in Entity |-> "loop"]
    /\ command = [e \in Entity |-> Nothing]
    /\ step = [e \in Entity |-> 1]
    /\ value = [e \in Entity |-> Nothing]
    /\ memory = InitialState
    /\ level \in [Line -> BOOLEAN]
    /\ inputs = "closed"
    /\ input \in [Sensor -> BOOLEAN]
    /\ edges = [b \in Sensor |-> << >>]
    /\ callback = [b \in Sensor |-> Nothing]
    /\ place = [p \in Publisher |-> "idle"]
    /\ index = [p \in Publisher |-> 1]
    /\ held = [p \in Publisher |-> Nothing]
    /\ retained = [e \in Stateful |-> Nothing]
    /\ arrivals = 0 /\ connections = 0
    /\ lateActions = [e \in Entity |-> 0]
    /\ last = [s \in Switch |-> "nobody"]

\* What switchStateLocked returns when it returns a state.
State(s) == IF s \in MemorySwitch THEN memory[s] ELSE level[LineOf[s]]

\* The locals of a command are gone when its handler returns.
Forget(e) ==
    /\ command' = [command EXCEPT ![e] = Nothing]
    /\ step' = [step EXCEPT ![e] = 1]
    /\ value' = [value EXCEPT ![e] = Nothing]

\* publishState: the broker handles the publication and it succeeds, or it
\* fails or is lost; one that has timed out may reach the broker all the same.
PublishState(e, v, who) ==
    LET reached == [retained EXCEPT ![e] = v]
        noted(w) == [s \in Switch |-> IF s = e THEN w ELSE last[s]]
    IN  \/ retained' = reached /\ last' = noted(who)
        \/ retained' \in {reached, retained} /\ last' = noted("failed")

-----------------------------------------------------------------------------
(* Commands arrive *)

\* acceptMessage lets a command pass.
Accept(e, p) ==
    /\ rx = Nothing
    /\ arrivals < MaxArrivals
    /\ accepting /\ ~cancelled
    /\ rx' = <<e, p>>
    /\ arrivals' = arrivals + 1
    /\ UNCHANGED <<flags, wg, main, queue, workers, memory, hardware, callback,
                   publishers, retained, connections, lateActions, last>>

\* Mutant of HasRoom: the queue takes one command more than its capacity.
HasRoomOffByOne(e) == Len(queue[e]) <= Capacity

\* The channel of the entity, made with EntityQueueCapacity, takes a command.
HasRoom(e) == Len(queue[e]) < Capacity

\* enqueueSwitch and enqueueButton; a full queue drops the command.
Enqueue ==
    /\ rx # Nothing
    /\ queue' = IF HasRoom(rx[1])
                THEN [queue EXCEPT ![rx[1]] = Append(@, rx[2])]
                ELSE queue
    /\ rx' = Nothing
    /\ UNCHANGED <<flags, wg, main, workers, memory, hardware, callback,
                   publishers, retained, bounds, lateActions, last>>

-----------------------------------------------------------------------------
(* runSwitchWorker and runButtonWorker *)

\* The worker returns: defer c.wg.Done().
Exit(e) ==
    /\ at' = [at EXCEPT ![e] = "exited"]
    /\ wg' = wg \ {e}

\* The check at the head of the loop.
Loop(e) ==
    /\ at[e] = "loop"
    /\ IF cancelled THEN Exit(e) ELSE at' = [at EXCEPT ![e] = "select"] /\ UNCHANGED wg
    /\ UNCHANGED <<flags, main, rx, queue, command, step, value, memory, hardware, callback,
                   publishers, retained, bounds, lateActions, last>>

\* Mutant of Done: the select has no case for the context.
DoneMissing(e) == FALSE /\ at[e] = "select"

\* The select takes the case <-ctx.Done().
Done(e) == at[e] = "select" /\ cancelled

Leave(e) ==
    /\ Done(e)
    /\ Exit(e)
    /\ UNCHANGED <<flags, main, rx, queue, command, step, value, memory, hardware, callback,
                   publishers, retained, bounds, lateActions, last>>

\* The select receives a command; with both cases ready either is taken.
Receive(e) ==
    /\ at[e] = "select"
    /\ queue[e] # << >>
    /\ command' = [command EXCEPT ![e] = Head(queue[e])]
    /\ queue' = [queue EXCEPT ![e] = Tail(@)]
    /\ at' = [at EXCEPT ![e] = "recheck"]
    /\ UNCHANGED <<flags, wg, main, rx, step, value, memory, hardware, callback,
                   publishers, retained, bounds, lateActions, last>>

\* Mutant of RejectPayload: the worker ends instead of its handler.
RejectPayloadForGood(e) == at' = [at EXCEPT ![e] = "exited"] /\ Forget(e) /\ wg' = wg \ {e}

\* The handler returns early on a payload it does not know.
RejectPayload(e) == at' = [at EXCEPT ![e] = "loop"] /\ Forget(e) /\ UNCHANGED wg

\* The context is checked again; then handleSwitch or handleButton parse the
\* payload and take the lock of the entity.
Recheck(e) ==
    /\ at[e] = "recheck"
    /\ \/ cancelled /\ Exit(e) /\ Forget(e)
       \/ ~cancelled /\ command[e] \notin Valid(e) /\ RejectPayload(e)
       \/ /\ ~cancelled /\ command[e] \in Valid(e)
          /\ at' = [at EXCEPT ![e] = "check"]
          /\ UNCHANGED <<wg, command, step, value>>
    /\ UNCHANGED <<flags, main, rx, queue, memory, hardware, callback,
                   publishers, retained, bounds, lateActions, last>>

-----------------------------------------------------------------------------
(* Execute, and the end of handleSwitch and handleButton *)

\* The worker holds the lock of its entity.
Locked(e) == at[e] \in {"check", "act", "read", "publish"}

ActionList(e) == Actions[e][command[e]]

\* Mutant of Stopped: Execute looks at the context only before the first action.
StoppedAtFirst(e) == cancelled /\ step[e] = 1

\* The check of the context before every action.
Stopped(e) == cancelled

\* The error or success of Execute; a memory switch takes the new state only on
\* success, a button has nothing to publish.
Conclude(e, success) ==
    /\ IF e \in Switch
       THEN at' = [at EXCEPT ![e] = "read"] /\ UNCHANGED <<command, step, value>>
       ELSE at' = [at EXCEPT ![e] = "loop"] /\ Forget(e)
    /\ memory' = IF success /\ e \in MemorySwitch
                 THEN [memory EXCEPT ![e] = command[e] = "ON"]
                 ELSE memory

\* Execute: the head of the loop over the actions.
Check(e) ==
    /\ at[e] = "check"
    /\ \/ step[e] > Len(ActionList(e)) /\ Conclude(e, TRUE)
       \/ step[e] <= Len(ActionList(e)) /\ Stopped(e) /\ Conclude(e, FALSE)
       \/ /\ step[e] <= Len(ActionList(e)) /\ ~Stopped(e)
          /\ at' = [at EXCEPT ![e] = "act"]
          /\ UNCHANGED <<command, step, value, memory>>
    /\ UNCHANGED <<flags, wg, main, rx, queue, hardware, callback,
                   publishers, retained, bounds, lateActions, last>>

\* executeOne: the action ends with or without an error.  A delay fails only
\* when it is cancelled, a command that is cancelled never succeeds, and GPIO
\* and MQTT actions do not look at the context; a GPIO action waits for the lock
\* of the manager.  An ignored error does not end the list.
Act(e, success) ==
    LET a == ActionList(e)[step[e]]
    IN  /\ at[e] = "act"
        /\ a.type = "delay" /\ ~success => cancelled
        /\ a.type = "command" /\ success => ~cancelled
        /\ a.type = "gpio" => inputs # "opening"
        /\ level' = IF a.type = "gpio" /\ success THEN [level EXCEPT ![a.line] = a.value] ELSE level
        /\ lateActions' = IF cancelled THEN [lateActions EXCEPT ![e] = @ + 1] ELSE lateActions
        /\ IF success \/ a.ignore
           THEN /\ step' = [step EXCEPT ![e] = @ + 1]
                /\ at' = [at EXCEPT ![e] = "check"]
                /\ UNCHANGED <<command, value, memory>>
           ELSE Conclude(e, FALSE)
        /\ UNCHANGED <<flags, wg, main, rx, queue, inputs, input, edges, callback,
                       publishers, retained, bounds, last>>

\* Mutant of Outcome: the commanded state is published instead of the actual one.
OutcomeCommanded(e) == command[e] = "ON"

\* The state handleSwitch publishes after success and failure alike.
Outcome(e) == State(e)

\* switchStateLocked: a GPIO read may fail, and then nothing is published.
Read(e) ==
    /\ at[e] = "read"
    /\ e \in GpioSwitch => inputs # "opening"
    /\ \/ /\ at' = [at EXCEPT ![e] = "publish"]
          /\ value' = [value EXCEPT ![e] = Outcome(e)]
          /\ UNCHANGED <<command, step, last>>
       \/ /\ e \in GpioSwitch
          /\ at' = [at EXCEPT ![e] = "loop"]
          /\ last' = [last EXCEPT ![e] = "failed"]
          /\ Forget(e)
    /\ UNCHANGED <<flags, wg, main, rx, queue, memory, hardware, callback,
                   publishers, retained, bounds, lateActions>>

\* publishState, still under the lock, which is then released.
Publish(e) ==
    /\ at[e] = "publish"
    /\ PublishState(e, value[e], "worker")
    /\ at' = [at EXCEPT ![e] = "loop"]
    /\ Forget(e)
    /\ UNCHANGED <<flags, wg, main, rx, queue, memory, hardware, callback,
                   publishers, bounds, lateActions>>

-----------------------------------------------------------------------------
(* Connect handlers, and PublishAllStates *)

\* A connection is made; its handler goroutine gets to the connect handlers.
Connect(h) ==
    /\ connections < MaxConnections
    /\ place[h] = "idle"
    /\ connections' = connections + 1
    /\ place' = [place EXCEPT ![h] = "begin"]
    /\ UNCHANGED <<flags, wg, main, rx, queue, workers, memory, hardware, callback,
                   index, held, retained, arrivals, lateActions, last>>

\* Mutant of MayBegin: a callback is let in without looking at the flags.
MayBeginAlways == TRUE

\* beginCallback lets a callback in and counts it.
MayBegin == accepting /\ ~cancelled

\* The connect handler registered by Register; PublishDiscovery comes first.
BeginConnect(h) ==
    /\ place[h] = "begin"
    /\ IF MayBegin
       THEN place' = [place EXCEPT ![h] = "discover"] /\ wg' = wg \cup {h}
       ELSE place' = [place EXCEPT ![h] = "idle"] /\ UNCHANGED wg
    /\ UNCHANGED <<flags, main, rx, queue, workers, memory, hardware, callback,
                   index, held, retained, bounds, lateActions, last>>

\* PublishDiscovery ends, with or without an error; the states follow.
Discover(h) ==
    /\ place[h] = "discover"
    /\ place' = [place EXCEPT ![h] = "read"]
    /\ UNCHANGED <<flags, wg, main, rx, queue, workers, memory, hardware, callback,
                   index, held, retained, bounds, lateActions, last>>

\* The next entity of PublishAllStates: its state is read, a switch's under its
\* lock, a line's when the manager is not opening inputs; a GPIO read may fail,
\* and inputs that are not open are passed over.
ReadState(p) ==
    LET e == Order[index[p]]
    IN  /\ place[p] = "read"
        /\ index[p] <= Len(Order)
        /\ e \in Switch => ~Locked(e)
        /\ e \notin MemorySwitch => inputs # "opening"
        /\ \/ /\ e \in Sensor => inputs = "open"
              /\ place' = [place EXCEPT ![p] = "publish"]
              /\ held' = [held EXCEPT ![p] = IF e \in Sensor THEN input[e] ELSE State(e)]
              /\ UNCHANGED index
           \/ /\ e \notin MemorySwitch
              /\ index' = [index EXCEPT ![p] = @ + 1]
              /\ UNCHANGED <<place, held>>
        /\ UNCHANGED <<flags, wg, main, rx, queue, workers, memory, hardware, callback,
                       retained, bounds, lateActions, last>>

\* The state read before is published, without the lock.
PublishHeld(p) ==
    /\ place[p] = "publish"
    /\ PublishState(Order[index[p]], held[p], "publisher")
    /\ place' = [place EXCEPT ![p] = "read"]
    /\ index' = [index EXCEPT ![p] = @ + 1]
    /\ held' = [held EXCEPT ![p] = Nothing]
    /\ UNCHANGED <<flags, wg, main, rx, queue, workers, memory, hardware, callback,
                   bounds, lateActions>>

\* Mutant of EndCallback: a callback that was let in is never counted out.
EndCallbackForgotten(g) == wg' = wg \cup ({g} \cap wg)

\* The deferred wg.Done of a connect handler or an input callback.
EndCallback(g) == wg' = wg \ {g}

\* PublishAllStates returns: a connect handler is done, run() goes on.
Published(p) ==
    /\ place[p] = "read"
    /\ index[p] > Len(Order)
    /\ place' = [place EXCEPT ![p] = "idle"]
    /\ index' = [index EXCEPT ![p] = 1]
    /\ EndCallback(p)
    /\ main' = IF p = "main" THEN "started" ELSE main
    /\ UNCHANGED <<flags, rx, queue, workers, memory, hardware, callback,
                   held, retained, bounds, lateActions, last>>

-----------------------------------------------------------------------------
(* GPIO inputs *)

\* The input changes and the kernel queues an edge event.
Edge(b) ==
    /\ inputs # "closed"
    /\ Len(edges[b]) < MaxEdges
    /\ input' = [input EXCEPT ![b] = ~@]
    /\ edges' = [edges EXCEPT ![b] = Append(@, ~input[b])]
    /\ UNCHANGED <<flags, wg, main, rx, queue, workers, memory, level, inputs, callback,
                   publishers, retained, bounds, lateActions, last>>

\* HandleGPIOInput, for one event after the other.
BeginInput(b) ==
    /\ edges[b] # << >>
    /\ callback[b] = Nothing
    /\ edges' = [edges EXCEPT ![b] = Tail(@)]
    /\ IF MayBegin
       THEN callback' = [callback EXCEPT ![b] = Head(edges[b])] /\ wg' = wg \cup {b}
       ELSE UNCHANGED <<callback, wg>>
    /\ UNCHANGED <<flags, main, rx, queue, workers, memory, level, inputs, input,
                   publishers, retained, bounds, lateActions, last>>

EndInput(b) ==
    /\ callback[b] # Nothing
    /\ PublishState(b, callback[b], "callback")
    /\ callback' = [callback EXCEPT ![b] = Nothing]
    /\ EndCallback(b)
    /\ UNCHANGED <<flags, main, rx, queue, workers, memory, hardware,
                   publishers, bounds, lateActions>>

-----------------------------------------------------------------------------
(* run() and Shutdown *)

\* run() calls OpenInputs, which requests one line after the other and holds
\* the lock of the manager; lines already requested report their edges.
RequestInputs ==
    /\ main = "starting" /\ inputs = "closed"
    /\ inputs' = "opening"
    /\ UNCHANGED <<flags, wg, main, rx, queue, workers, memory, level, input, edges, callback,
                   publishers, retained, bounds, lateActions, last>>

\* OpenInputs returns nil; run() publishes all states itself.
OpenInputs ==
    /\ main = "starting" /\ inputs = "opening"
    /\ inputs' = "open"
    /\ main' = "publishing"
    /\ place' = [place EXCEPT !["main"] = "read"]
    /\ UNCHANGED <<flags, wg, rx, queue, workers, memory, level, input, edges, callback,
                   index, held, retained, bounds, lateActions, last>>

\* OpenInputs fails: it closes the inputs, which waits for their callbacks.  Or
\* the first connection has already failed.
StartFails ==
    /\ main = "starting"
    /\ \/ inputs = "opening" /\ \A b \in Sensor : callback[b] = Nothing
       \/ inputs = "closed" /\ connections = 0 /\ arrivals = 0
    /\ inputs' = "closed"
    /\ edges' = [b \in Sensor |-> << >>]
    /\ main' = "failed"
    /\ UNCHANGED <<flags, wg, rx, queue, workers, memory, level, input, callback,
                   publishers, retained, bounds, lateActions, last>>

\* SIGINT or SIGTERM cancels the parent context.
Signal ==
    /\ ~cancelled
    /\ cancelled' = TRUE
    /\ UNCHANGED <<accepting, wg, main, rx, queue, workers, memory, hardware, callback,
                   publishers, retained, bounds, lateActions, last>>

\* Shutdown, once the context is done or the start has failed.
Shutdown ==
    /\ main = "failed" \/ (main = "started" /\ cancelled)
    /\ main' = "joining"
    /\ accepting' = FALSE
    /\ cancelled' = TRUE
    /\ UNCHANGED <<wg, rx, queue, workers, memory, hardware, callback,
                   publishers, retained, bounds, lateActions, last>>

\* wg.Wait() has returned and Shutdown returns nil.
Join ==
    /\ main = "joining"
    /\ wg = {}
    /\ main' = "stopped"
    /\ UNCHANGED <<flags, wg, rx, queue, workers, memory, hardware, callback,
                   publishers, retained, bounds, lateActions, last>>

\* The timer of Shutdown fires first.
Timeout ==
    /\ main = "joining"
    /\ main' = "timedOut"
    /\ UNCHANGED <<flags, wg, rx, queue, workers, memory, hardware, callback,
                   publishers, retained, bounds, lateActions, last>>

-----------------------------------------------------------------------------
Worker(e) ==
    \/ Loop(e) \/ Leave(e) \/ Receive(e) \/ Recheck(e) \/ Check(e)
    \/ \E success \in BOOLEAN : Act(e, success)
    \/ Read(e) \/ Publish(e)

PublishAll(p) == ReadState(p) \/ PublishHeld(p) \/ Published(p)

Next ==
    \/ \E e \in Entity : \E p \in Valid(e) \cup {"bad"} : Accept(e, p)
    \/ Enqueue
    \/ \E e \in Entity : Worker(e)
    \/ \E h \in Handler : Connect(h) \/ BeginConnect(h) \/ Discover(h)
    \/ \E p \in Publisher : PublishAll(p)
    \/ \E b \in Sensor : Edge(b) \/ BeginInput(b) \/ EndInput(b)
    \/ RequestInputs \/ OpenInputs \/ StartFails
    \/ Signal \/ Shutdown \/ Join \/ Timeout

Spec == Init /\ [][Next]_vars

\* run(), as one goroutine.
Main ==
    \/ RequestInputs \/ OpenInputs \/ StartFails
    \/ PublishAll("main") \/ Shutdown \/ Join

\* Every goroutine that can go on does: delays and commands end, a publication
\* takes at most five seconds, and nobody keeps a lock for ever.  Shutdown is
\* not assumed to be saved by its timer.
Fairness ==
    /\ WF_vars(Enqueue) /\ WF_vars(Main)
    /\ \A e \in Entity : WF_vars(Worker(e))
    /\ \A h \in Handler : WF_vars(BeginConnect(h) \/ Discover(h) \/ PublishAll(h))
    /\ \A b \in Sensor : WF_vars(BeginInput(b) \/ EndInput(b))

FairSpec == Spec /\ Fairness

-----------------------------------------------------------------------------
(* Properties *)

ControlType ==
    /\ accepting \in BOOLEAN /\ cancelled \in BOOLEAN
    /\ wg \subseteq Entity \cup Handler \cup Sensor
    /\ main \in {"starting", "publishing", "started", "failed", "joining", "stopped", "timedOut"}

QueueType ==
    /\ rx \in {Nothing} \cup (Entity \X Payload)
    /\ queue \in [Entity -> Seq(Payload)]
    /\ \A e \in Entity : Len(queue[e]) <= Capacity

WorkerType ==
    /\ at \in [Entity -> {"loop", "select", "recheck", "check", "act", "read", "publish", "exited"}]
    /\ command \in [Entity -> Payload \cup {Nothing}]
    /\ step \in [Entity -> Nat \ {0}]
    /\ value \in [Entity -> Maybe]
    /\ lateActions \in [Entity -> Nat]

HardwareType ==
    /\ memory \in [MemorySwitch -> BOOLEAN]
    /\ level \in [Line -> BOOLEAN]

InputType ==
    /\ inputs \in {"closed", "opening", "open"}
    /\ input \in [Sensor -> BOOLEAN]
    /\ edges \in [Sensor -> Seq(BOOLEAN)]
    /\ callback \in [Sensor -> Maybe]

PublisherType ==
    /\ place \in [Publisher -> {"idle", "begin", "discover", "read", "publish"}]
    /\ index \in [Publisher -> Nat \ {0}]
    /\ held \in [Publisher -> Maybe]

BrokerType ==
    /\ retained \in [Stateful -> Maybe]
    /\ last \in [Switch -> {"nobody", "worker", "publisher", "callback", "failed"}]

TypeOK ==
    /\ ControlType /\ QueueType /\ WorkerType /\ HardwareType
    /\ InputType /\ PublisherType /\ BrokerType

\* When Shutdown has returned nil no worker, connect handler or input callback
\* of the controller is at work, and none begins later: MQTT and GPIO may be
\* closed.  This is what counting callbacks only while accepting is for.
QuietWhenStopped ==
    main = "stopped" =>
        /\ \A e \in Entity : at[e] = "exited"
        /\ \A h \in Handler : place[h] \in {"idle", "begin"}
        /\ \A b \in Sensor : callback[b] = Nothing

\* After cancellation a worker finishes at most the action it had already
\* checked or begun; commands waiting in its queue are not executed.
AtMostOneLateAction == \A e \in Entity : lateActions[e] <= 1

\* No other entity drives the output that switch s reports.
Exclusive(s) ==
    s \in GpioSwitch =>
        \A e \in Entity \ {s} : \A p \in Valid(e) : \A i \in DOMAIN Actions[e][p] :
            Actions[e][p][i].type = "gpio" => Actions[e][p][i].line # LineOf[s]

\* A state that the worker of a switch has published stays true until the next
\* command: a failed or cancelled command that had changed outputs on its way
\* leaves the actual state at the broker, not the commanded one.
WorkerPublishesTruth ==
    \A s \in Switch :
        last[s] = "worker" /\ ~Locked(s) /\ Exclusive(s) => retained[s] = State(s)

\* After a clean shutdown the broker retains the final state of every switch
\* whose last publication did not fail, whoever made it.
FinalStateRetained ==
    main = "stopped" =>
        \A s \in Switch : last[s] \in {"worker", "publisher"} => retained[s] = State(s)

\* Accepted commands are worked off unless the daemon is told to stop.
CommandsTaken == \A e \in Entity : queue[e] # << >> ~> (queue[e] = << >> \/ cancelled)

\* Shutdown ends: once cancelled, workers, handlers and callbacks all come to
\* an end although they wait for each other's locks and for their own actions.
ShutdownReturns == cancelled ~> main \in {"stopped", "timedOut"}
=============================================================================

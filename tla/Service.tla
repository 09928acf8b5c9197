-------------------------------- MODULE Service --------------------------------
(***************************************************************************)
(* The life of the process: run() and shutdownService of main.go with the  *)
(* MQTT client's connections, connect goroutines, status topic and Close,  *)
(* and the GPIO manager's opening, rollback and closing of lines.  Workers *)
(* and callbacks of the controller appear only as users of MQTT and GPIO   *)
(* that its WaitGroup counts; Controller has their details.                *)
(*                                                                         *)
(* External: Paho keeps publications in order until they are acknowledged  *)
(* and sends them again after a reconnection, except those of QoS 0, which *)
(* are complete when written and dropped while there is no connection; the *)
(* broker publishes the will of a connection that ends without DISCONNECT. *)
(***************************************************************************)
EXTENDS Naturals, Sequences

CONSTANTS
    Worker,           \* goroutines of the controller that execute commands
    Handler,          \* handleConnect goroutines that may exist at once
    Output, Input,    \* GPIO lines
    Reported,         \* lines that are the state of an entity
    QoS,              \* values mqtt.qos may have in the configuration
    MaxConnections    \* bound: MQTT connections

ASSUME ServiceAssumption ==
    /\ Output \cap Input = {} /\ Worker \cap (Handler \cup Input) = {} /\ Handler \cap Input = {}
    /\ {"main", "message"} \cap Handler = {}
    /\ QoS \subseteq 0..2 /\ Reported \subseteq Output \cup Input
    /\ MaxConnections \in Nat

VARIABLES
    main,         \* where run() is
    result,       \* "ok" or "error" once something has failed
    cancelled,    \* the controller's context is cancelled
    expired,      \* the deadline of shutdownService has passed
    open,         \* GPIO lines requested and not closed
    clientOpen,   \* mqtt Client.accepting
    callbacks,    \* handlers, and a "message", counted in Client.callbacks
    accepting,    \* Controller.accepting
    wg,           \* goroutines counted in Controller.wg
    worker,       \* what each worker does
    handler,      \* where each handleConnect goroutine is
    input,        \* where the callback of each input line is
    held,         \* held[u]: the line a worker or handler has looked up
    link,         \* Paho: "never" connected, "up", "lost" and reconnecting, "off"
    out,          \* Paho: status publications not yet acknowledged, in order
    will,         \* broker: it has yet to notice the loss and publish the will
    status,       \* broker: the retained status
    connections,
    qos           \* mqtt.qos, read once

flags == <<clientOpen, accepting, cancelled>>
counts == <<callbacks, wg>>
mqtt == <<link, out, will, status, connections, qos>>
users == <<worker, handler, input, held>>
vars == <<main, result, expired, open, flags, counts, users, mqtt>>

Line == Output \cup Input
Message == [who : Handler \cup {"main"}, value : {"online", "offline"}]
Alive == main # "exited"

Init ==
    /\ main = "outputs" /\ result = "ok" /\ expired = FALSE
    /\ open = {}
    /\ clientOpen = TRUE /\ accepting = TRUE /\ cancelled = FALSE
    /\ callbacks = {} /\ wg = Worker
    /\ worker = [w \in Worker |-> "waiting"]
    /\ handler = [h \in Handler |-> "idle"]
    /\ input = [i \in Input |-> "idle"]
    /\ held = [u \in Worker \cup Handler |-> {}]
    /\ link = "never" /\ out = << >> /\ will = FALSE
    /\ status \in {"none", "offline"}
    /\ connections = 0 /\ qos \in QoS

-----------------------------------------------------------------------------
(* Paho and the broker *)

\* Client.Publish of a status: without a connection QoS 0 is dropped.
Send(who, value) ==
    out' = IF qos = 0 /\ link # "up" THEN out ELSE Append(out, [who |-> who, value |-> value])

\* The token of who is complete.
Complete(who) == qos = 0 \/ \A k \in DOMAIN out : out[k].who # who

\* The broker handles the first publication; its acknowledgement may be delayed
\* or lost, and then it is handled again.
BrokerHandles ==
    /\ link = "up" \/ will
    /\ out # << >>
    /\ status' = Head(out).value
    /\ out' \in {Tail(out), out}
    /\ UNCHANGED <<main, result, expired, open, flags, counts, users, link, will, connections, qos>>

\* The connection ends without DISCONNECT.
Lost ==
    /\ Alive /\ link = "up"
    /\ link' = "lost" /\ will' = TRUE
    /\ out' = IF qos = 0 THEN << >> ELSE out
    /\ UNCHANGED <<main, result, expired, open, flags, counts, users, status, connections, qos>>

\* The broker notices it.
Will ==
    /\ will
    /\ status' = "offline" /\ will' = FALSE
    /\ UNCHANGED <<main, result, expired, open, flags, counts, users, link, out, connections, qos>>

\* The broker ends the old connection, if it has not done so, and accepts a new
\* one; Paho starts the OnConnect goroutine h.
Established(h) ==
    /\ connections < MaxConnections
    /\ handler[h] = "idle"
    /\ link' = "up" /\ connections' = connections + 1
    /\ status' = IF will THEN "offline" ELSE status
    /\ will' = FALSE
    /\ handler' = [handler EXCEPT ![h] = "begin"]

Reconnect(h) ==
    /\ Alive /\ link = "lost"
    /\ Established(h)
    /\ UNCHANGED <<main, result, expired, open, flags, counts, worker, input, held, out, qos>>

-----------------------------------------------------------------------------
(* handleConnect *)

\* beginCallback of the client.
Admitted == clientOpen

\* Session handlers and subscriptions follow.
BeginConnect(h) ==
    /\ Alive /\ handler[h] = "begin"
    /\ IF Admitted
       THEN handler' = [handler EXCEPT ![h] = "subscribe"] /\ callbacks' = callbacks \cup {h}
       ELSE handler' = [handler EXCEPT ![h] = "idle"] /\ UNCHANGED callbacks
    /\ UNCHANGED <<main, result, expired, open, flags, wg, worker, input, held, mqtt>>

\* Mutant of Available: a payload that Home Assistant was not told of.
AvailableMisspelt == "Online"

\* What handleConnect publishes, the payload_available of the discovery payloads.
Available == "online"

\* Subscriptions end, some perhaps in an error; "online" is published, which
\* fails at once when Paho is disconnected.
Online(h) ==
    /\ Alive /\ handler[h] = "subscribe"
    /\ handler' = [handler EXCEPT ![h] = "online"]
    /\ IF link = "off" THEN UNCHANGED out ELSE Send(h, Available)
    /\ UNCHANGED <<main, result, expired, open, flags, counts, worker, input, held,
                   link, will, status, connections, qos>>

\* The publication is complete or has timed out; the connect handler of the
\* controller is let in or not.
OnlineDone(h) ==
    /\ Alive /\ handler[h] = "online"
    /\ IF accepting /\ ~cancelled
       THEN handler' = [handler EXCEPT ![h] = "states"] /\ wg' = wg \cup {h} /\ UNCHANGED callbacks
       ELSE handler' = [handler EXCEPT ![h] = "idle"] /\ callbacks' = callbacks \ {h} /\ UNCHANGED wg
    /\ UNCHANGED <<main, result, expired, open, flags, worker, input, held, mqtt>>

\* run() holds the lock of the GPIO manager.
GpioLocked == main \in {"inputs", "rollback", "gpio"}

\* PublishDiscovery and PublishAllStates, which reads lines, have returned.
EndConnect(h) ==
    /\ Alive /\ handler[h] = "states"
    /\ held[h] # {} \/ ~GpioLocked
    /\ held' = [held EXCEPT ![h] = {}]
    /\ handler' = [handler EXCEPT ![h] = "idle"]
    /\ callbacks' = callbacks \ {h}
    /\ wg' = wg \ {h}
    /\ UNCHANGED <<main, result, expired, open, flags, worker, input, mqtt>>

\* A message is dispatched; callbacks of messages run one at a time.
BeginMessage ==
    /\ Alive /\ link = "up" /\ "message" \notin callbacks
    /\ Admitted
    /\ callbacks' = callbacks \cup {"message"}
    /\ UNCHANGED <<main, result, expired, open, flags, wg, users, mqtt>>

\* It is queued or refused, without waiting for anybody.
EndMessage ==
    /\ Alive /\ "message" \in callbacks
    /\ callbacks' = callbacks \ {"message"}
    /\ UNCHANGED <<main, result, expired, open, flags, wg, users, mqtt>>

-----------------------------------------------------------------------------
(* Workers of the controller, and callbacks of input lines *)

\* A worker takes a command; its actions set outputs and publish.
Act(w) ==
    /\ Alive /\ worker[w] = "waiting" /\ connections > 0 /\ ~cancelled
    /\ worker' = [worker EXCEPT ![w] = "acting"]
    /\ UNCHANGED <<main, result, expired, open, flags, counts, handler, input, held, mqtt>>

\* The command ends, which may need the lock of the manager for its outputs, or
\* the worker returns when it sees the context cancelled.
EndAct(w) ==
    /\ Alive /\ main # "outputs"
    /\ \/ /\ worker[w] = "acting" /\ (held[w] # {} \/ ~GpioLocked)
          /\ worker' = [worker EXCEPT ![w] = "waiting"]
          /\ held' = [held EXCEPT ![w] = {}]
          /\ UNCHANGED wg
       \/ /\ worker[w] = "waiting" /\ cancelled
          /\ worker' = [worker EXCEPT ![w] = "exited"]
          /\ wg' = wg \ {w}
          /\ UNCHANGED held
    /\ UNCHANGED <<main, result, expired, open, flags, callbacks, handler, input, mqtt>>

\* SetOutput, OutputState, InputState: the line is looked up under the lock of
\* the manager and used without it; a line that is not open is an error.  One
\* of the lines a command or a connect handler uses is followed, the last one.
LookUp(u, l) ==
    /\ Alive /\ ~GpioLocked /\ held[u] = {}
    /\ \/ u \in Worker /\ worker[u] = "acting" /\ l \in Output
       \/ u \in Handler /\ handler[u] = "states" /\ l \in Reported
    /\ l \in open
    /\ held' = [held EXCEPT ![u] = {l}]
    /\ UNCHANGED <<main, result, expired, open, flags, counts, worker, handler, input, mqtt>>

\* An edge of line i: HandleGPIOInput asks beginCallback of the controller.
BeginInput(i) ==
    /\ Alive /\ i \in open /\ input[i] = "idle"
    /\ accepting /\ ~cancelled
    /\ input' = [input EXCEPT ![i] = "publishing"]
    /\ wg' = wg \cup {i}
    /\ UNCHANGED <<main, result, expired, open, flags, callbacks, worker, handler, held, mqtt>>

\* Mutant of EventEnds: the callback reads its line, as the comment forbids.
EventEndsReading(i) == input[i] = "publishing" /\ ~GpioLocked

\* The callback takes the state from the event and never waits for the manager.
EventEnds(i) == input[i] = "publishing"

EndInput(i) ==
    /\ Alive /\ EventEnds(i)
    /\ input' = [input EXCEPT ![i] = "idle"]
    /\ wg' = wg \ {i}
    /\ UNCHANGED <<main, result, expired, open, flags, callbacks, worker, handler, held, mqtt>>

-----------------------------------------------------------------------------
(* run() *)

\* The process is gone; the broker will notice a connection it did not close.
Exit(r) ==
    /\ main' = "exited" /\ result' = r
    /\ link' = "off"
    /\ will' = (will \/ link = "up")
    /\ UNCHANGED <<out, status, connections, qos>>

\* OpenOutputs requests one line after the other.
OpenOutput(l) ==
    /\ main = "outputs" /\ l \in Output \ open
    /\ open' = open \cup {l}
    /\ UNCHANGED <<main, result, expired, flags, counts, users, mqtt>>

\* Mutant of RolledBack: the lines opened before are left open.
NotRolledBack == open

\* The lines that are open after the closeLocked of a failed OpenOutputs.
RolledBack == {}

OutputFails ==
    /\ main = "outputs" /\ open # Output
    /\ open' = RolledBack
    /\ Exit("error")
    /\ UNCHANGED <<expired, flags, counts, users>>

\* All outputs are open, the controller runs and is registered.
OutputsOpen ==
    /\ main = "outputs" /\ open = Output
    /\ main' = "connect"
    /\ UNCHANGED <<result, expired, open, flags, counts, users, mqtt>>

Connected(h) ==
    /\ main = "connect"
    /\ Established(h)
    /\ main' = "inputs"
    /\ UNCHANGED <<result, expired, open, flags, counts, worker, input, held, out, qos>>

ConnectFails ==
    /\ main = "connect"
    /\ main' = "stopping" /\ result' = "error"
    /\ UNCHANGED <<expired, open, flags, counts, users, mqtt>>

\* OpenInputs, under the lock of the manager.
OpenInput(l) ==
    /\ main = "inputs" /\ l \in Input \ open
    /\ open' = open \cup {l}
    /\ UNCHANGED <<main, result, expired, flags, counts, users, mqtt>>

InputFails ==
    /\ main = "inputs" /\ ~(Input \subseteq open)
    /\ main' = "rollback" /\ result' = "error"
    /\ UNCHANGED <<expired, open, flags, counts, users, mqtt>>

InputsOpen ==
    /\ main = "inputs" /\ Input \subseteq open
    /\ main' = "states"
    /\ UNCHANGED <<result, expired, open, flags, counts, users, mqtt>>

\* Closing a line waits for its callback.
Closable(l) == l \in open /\ (l \in Input => input[l] = "idle")

\* closeInputsLocked of a failed OpenInputs.
RollbackInput(l) ==
    /\ main = "rollback" /\ l \in Input /\ Closable(l)
    /\ open' = open \ {l}
    /\ UNCHANGED <<main, result, expired, flags, counts, users, mqtt>>

InputsFailed ==
    /\ main = "rollback" /\ Input \cap open = {}
    /\ main' = "stopping"
    /\ UNCHANGED <<result, expired, open, flags, counts, users, mqtt>>

\* PublishAllStates returns; run() waits for the context.
StatesPublished ==
    /\ main = "states"
    /\ main' = "running"
    /\ UNCHANGED <<result, expired, open, flags, counts, users, mqtt>>

Signal ==
    /\ Alive /\ ~cancelled
    /\ cancelled' = TRUE
    /\ UNCHANGED <<main, result, expired, open, clientOpen, accepting, counts, users, mqtt>>

-----------------------------------------------------------------------------
(* shutdownService, within one budget *)

\* The deadline passes.
Expire ==
    /\ main \in {"shutdown", "joining", "closing", "offline", "gpio"} /\ ~expired
    /\ expired' = TRUE
    /\ UNCHANGED <<main, result, open, flags, counts, users, mqtt>>

StopAccepting ==
    /\ main = "stopping" \/ (main = "running" /\ cancelled)
    /\ main' = "shutdown"
    /\ clientOpen' = FALSE
    /\ UNCHANGED <<result, expired, open, accepting, cancelled, counts, users, mqtt>>

\* Shutdown of the controller rejects new work, cancels and waits.
Shutdown ==
    /\ main = "shutdown"
    /\ main' = "joining"
    /\ accepting' = FALSE /\ cancelled' = TRUE
    /\ UNCHANGED <<result, expired, open, clientOpen, counts, users, mqtt>>

\* Mutant of WorkersDone: Shutdown does not wait.
WorkersIgnored == main = "joining"

\* The Wait on Controller.wg has returned.
WorkersDone == main = "joining" /\ wg = {}

Joined ==
    /\ WorkersDone
    /\ main' = "closing"
    /\ UNCHANGED <<result, expired, open, flags, counts, users, mqtt>>

\* The timer of Shutdown: shutdownService returns the error and closes nothing.
JoinTimeout ==
    /\ main = "joining" /\ expired
    /\ Exit("error")
    /\ UNCHANGED <<expired, open, flags, counts, users>>

\* Close: the callbacks of the client have ended.
CallbacksDone == main = "closing" /\ callbacks = {}

\* IsConnected of Paho, which counts a connection that is being renewed.
IsConnected == link \in {"up", "lost"}

NotConnected ==
    /\ CallbacksDone /\ ~IsConnected
    /\ main' = "gpio"
    /\ UNCHANGED <<result, expired, open, flags, counts, users, mqtt>>

\* Mutant of Farewell: Close only disconnects.
NoFarewell == UNCHANGED out

\* Close publishes "offline" itself: the broker discards the will on DISCONNECT.
Farewell == Send("main", "offline")

PublishOffline ==
    /\ CallbacksDone /\ IsConnected /\ ~expired
    /\ Farewell
    /\ main' = "offline"
    /\ UNCHANGED <<result, expired, open, flags, counts, users, link, will, status, connections, qos>>

\* No time is left for the callbacks, the publication or the DISCONNECT.
CloseTimeout ==
    /\ expired
    /\ main \in {"closing", "offline"}
    /\ Exit("error")
    /\ UNCHANGED <<expired, open, flags, counts, users>>

\* "offline" is acknowledged, or fails after at most five seconds; Paho sends
\* what is left and disconnects either way.
Disconnect(sent) ==
    /\ main = "offline" /\ ~expired
    /\ sent => Complete("main")
    /\ link' = "off"
    /\ out' = << >>
    /\ status' = IF link = "up" /\ out # << >> THEN out[Len(out)].value ELSE status
    /\ main' = IF sent THEN "gpio" ELSE "exited"
    /\ result' = IF sent THEN result ELSE "error"
    /\ UNCHANGED <<expired, open, flags, counts, users, will, connections, qos>>

\* closeLocked: inputs first; an error is remembered and the line is gone.
CloseLine(l) ==
    /\ main = "gpio" /\ Closable(l)
    /\ l \in Output => Input \cap open = {}
    /\ open' = open \ {l}
    /\ result' \in {result, "error"}
    /\ UNCHANGED <<main, expired, flags, counts, users, mqtt>>

Closed ==
    /\ main = "gpio" /\ open = {}
    /\ Exit(result)
    /\ UNCHANGED <<expired, open, flags, counts, users>>

-----------------------------------------------------------------------------
Main ==
    \/ \E l \in Line : OpenOutput(l) \/ OpenInput(l) \/ RollbackInput(l) \/ CloseLine(l)
    \/ OutputFails \/ OutputsOpen
    \/ \E h \in Handler : Connected(h)
    \/ ConnectFails \/ InputFails \/ InputsOpen \/ InputsFailed \/ StatesPublished
    \/ StopAccepting \/ Shutdown \/ Joined \/ JoinTimeout
    \/ NotConnected \/ PublishOffline \/ CloseTimeout
    \/ \E sent \in BOOLEAN : Disconnect(sent)
    \/ Closed

ConnectHandler(h) == BeginConnect(h) \/ Online(h) \/ OnlineDone(h) \/ EndConnect(h)

Next ==
    \/ Main
    \/ Signal \/ Expire
    \/ Lost \/ Will \/ BrokerHandles
    \/ \E h \in Handler : Reconnect(h) \/ ConnectHandler(h)
    \/ BeginMessage \/ EndMessage
    \/ \E w \in Worker : Act(w) \/ EndAct(w)
    \/ \E u \in Worker \cup Handler, l \in Line : LookUp(u, l)
    \/ \E i \in Input : BeginInput(i) \/ EndInput(i)

Spec == Init /\ [][Next]_vars

\* Goroutines go on whenever they can: publications, subscriptions, delays and
\* commands end by their own time limits.  The deadline is not relied upon.
Fairness ==
    /\ WF_vars(Main)
    /\ \A h \in Handler : WF_vars(ConnectHandler(h))
    /\ WF_vars(EndMessage)
    /\ \A w \in Worker : WF_vars(EndAct(w))
    /\ \A i \in Input : WF_vars(EndInput(i))

FairSpec == Spec /\ Fairness

-----------------------------------------------------------------------------
(* Properties *)

TypeOK ==
    /\ main \in {"outputs", "connect", "inputs", "rollback", "states", "running", "stopping",
                 "shutdown", "joining", "closing", "offline", "gpio", "exited"}
    /\ result \in {"ok", "error"}
    /\ expired \in BOOLEAN /\ will \in BOOLEAN
    /\ clientOpen \in BOOLEAN /\ accepting \in BOOLEAN /\ cancelled \in BOOLEAN
    /\ open \subseteq Line
    /\ callbacks \subseteq Handler \cup {"message"}
    /\ wg \subseteq Worker \cup Handler \cup Input
    /\ worker \in [Worker -> {"waiting", "acting", "exited"}]
    /\ handler \in [Handler -> {"idle", "begin", "subscribe", "online", "states"}]
    /\ input \in [Input -> {"idle", "publishing"}]
    /\ held \in [Worker \cup Handler -> SUBSET Line]
    /\ link \in {"never", "up", "lost", "off"}
    /\ out \in Seq(Message)
    /\ status \in {"none", "online", "offline"}
    /\ connections \in 0..MaxConnections
    /\ qos \in QoS

\* shutdownService closes MQTT and GPIO only when nobody uses them any more: no
\* worker sets an output that is closed or publishes after the DISCONNECT, a
\* line that was looked up under the manager's lock is still open when it is
\* used without it, no callback is left behind, although each wait may run into
\* the deadline.
ResourcesOutliveUsers ==
    Alive =>
        /\ \A u \in Worker \cup Handler : held[u] \subseteq open
        /\ \A w \in Worker : worker[w] = "acting" => Output \subseteq open /\ link # "off"
        /\ \A h \in Handler : handler[h] = "states" => Output \subseteq open
        /\ callbacks # {} => link # "off"
        /\ \A i \in Input : input[i] = "publishing" => link # "off"

\* Once the process is gone the broker retains "offline" or is about to: no
\* connect goroutine publishes "online" after Close has published "offline",
\* and every exit without Close leaves the will to the broker.
OfflineIsLast == main = "exited" => (will \/ status # "online")

\* run() that returns nil, and a start that fails before the first connection
\* within the budget, leave no GPIO line requested.
LinesReleased ==
    main = "exited" /\ (result = "ok" \/ (connections = 0 /\ ~expired)) => open = {}

\* After a signal run() returns, even if its deadline never passed: waiting for
\* callbacks under the GPIO manager's lock does not block those callbacks.
RunReturns == cancelled ~> main = "exited"
=============================================================================

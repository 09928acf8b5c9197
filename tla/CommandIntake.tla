----------------------------- MODULE CommandIntake -----------------------------
(***************************************************************************)
(* The way of a command from the broker into the FIFO of its entity: the   *)
(* Paho callback of mqtt/client.go, acceptMessage and the enqueue functions*)
(* of controller/controller.go, the connect goroutines that reset the      *)
(* duplicate filter and subscribe, and the flags shutdown clears.          *)
(*                                                                         *)
(* The broker is external.  It numbers commands, gives each in-flight      *)
(* command a packet identifier that is free, may send an in-flight command *)
(* again with the DUP flag, and may keep in-flight commands over a         *)
(* reconnection.  Paho is external too: with SetOrderMatters callbacks run *)
(* one at a time and end before a reconnection, while OnConnect runs in a  *)
(* goroutine of its own for every connection.                              *)
(***************************************************************************)
EXTENDS Integers, Sequences

CONSTANTS
    Entity,           \* switches and buttons
    PacketId,         \* MQTT packet identifiers
    Handler,          \* handleConnect goroutines that may exist at once
    Capacity,         \* EntityQueueCapacity
    CacheSize,        \* DuplicateCacheSize
    MaxCommands,      \* bound: commands the broker sends
    MaxDeliveries,    \* bound: packets that reach the daemon
    MaxConnections    \* bound: MQTT connections

ASSUME IntakeAssumption ==
    /\ Capacity \in Nat \ {0} /\ CacheSize \in Nat \ {0}
    /\ MaxCommands \in Nat /\ MaxDeliveries \in Nat /\ MaxConnections \in Nat

VARIABLES
    cancelled,      \* the controller's context is cancelled
    clientOpen,     \* mqtt Client.accepting
    accepting,      \* Controller.accepting
    connections,    \* MQTT connections so far
    subscribed,     \* entities subscribed in the current connection
    handler,        \* where each handleConnect goroutine is
    rx,             \* the Paho callback: its place and its packet
    queue,          \* the FIFO of each entity
    dedupe, dedupeOrder, dedupeSeq, verdict,    \* the duplicate filter
    inflight,       \* broker: packets it may send again
    commands,       \* broker: commands sent so far
    deliveries,     \* packets received so far
    passed,         \* history: commands acceptMessage let pass in this connection
    refused,        \* history: commands of which a copy was refused as a duplicate
    enqueued,       \* history: enqueued[n], how often command n was queued in this connection
    lateQueued      \* history: commands queued after cancellation

filter == <<dedupe, dedupeOrder, dedupeSeq, verdict>>
flags == <<cancelled, clientOpen, accepting>>
network == <<connections, subscribed, handler>>
wire == <<inflight, commands, deliveries>>
history == <<passed, refused, enqueued, lateQueued>>
vars == <<flags, network, rx, queue, filter, wire, history>>

\* What the properties distinguish about a packet: "big" has a payload over
\* MaxCommandPayload, "retained" the retain flag, "qos0" no packet identifier.
Kind == {"big", "retained", "qos0", "qos1"}

Command == 1..MaxCommands

Packet == [cmd : Command, entity : Entity, id : PacketId, kind : Kind, dup : BOOLEAN]

Key == Entity \X PacketId

Cache == INSTANCE DuplicateCache WITH Size <- CacheSize, MaxSeq <- MaxDeliveries

Idle == [at |-> "idle"]

Init ==
    /\ cancelled = FALSE /\ clientOpen = TRUE /\ accepting = TRUE
    /\ connections = 0 /\ subscribed = {}
    /\ handler = [h \in Handler |-> "idle"]
    /\ rx = Idle
    /\ queue = [e \in Entity |-> << >>]
    /\ Cache!Init
    /\ inflight = {} /\ commands = 0 /\ deliveries = 0
    /\ passed = {} /\ refused = {} /\ enqueued = [n \in Command |-> 0] /\ lateQueued = 0

-----------------------------------------------------------------------------
(* Connections *)

\* Paho connects or reconnects and starts an OnConnect goroutine h.  The broker
\* starts without subscriptions.
Connect(h) ==
    /\ connections < MaxConnections
    /\ rx = Idle
    /\ handler[h] = "idle"
    /\ connections' = connections + 1
    /\ subscribed' = {}
    /\ handler' = [handler EXCEPT ![h] = "session"]
    /\ inflight' \in SUBSET inflight
    /\ passed' = {} /\ refused' = {}
    /\ enqueued' = [n \in Command |-> 0]
    /\ UNCHANGED <<flags, rx, queue, filter, commands, deliveries, lateQueued>>

\* Mutant of SessionHandler: the filter is not reset for the new session.
SessionWithoutReset(h) ==
    /\ handler[h] = "session"
    /\ handler' = [handler EXCEPT ![h] = IF clientOpen THEN "subscribe" ELSE "idle"]
    /\ UNCHANGED <<flags, connections, subscribed, rx, queue, filter, wire, history>>

\* handleConnect: beginCallback refuses while shutting down; otherwise the
\* session handler resetDedupe runs.
SessionHandler(h) ==
    /\ handler[h] = "session"
    /\ IF clientOpen
       THEN handler' = [handler EXCEPT ![h] = "subscribe"] /\ Cache!Reset
       ELSE handler' = [handler EXCEPT ![h] = "idle"] /\ UNCHANGED filter
    /\ UNCHANGED <<flags, connections, subscribed, rx, queue, wire, history>>

\* handleConnect: subscribeWithClient for every topic; a failure is logged.
Subscribe(h) ==
    /\ handler[h] = "subscribe"
    /\ handler' = [handler EXCEPT ![h] = "idle"]
    /\ \E granted \in SUBSET Entity : subscribed' = subscribed \cup granted
    /\ UNCHANGED <<flags, connections, rx, queue, filter, wire, history>>

-----------------------------------------------------------------------------
(* The broker *)

Arrive(p) ==
    /\ rx = Idle
    /\ p.entity \in subscribed
    /\ deliveries < MaxDeliveries
    /\ deliveries' = deliveries + 1
    /\ rx' = [at |-> "begin", packet |-> p]
    /\ UNCHANGED <<flags, network, queue, filter, history>>

\* A new command; one of QoS 1 or 2 stays in flight under a free identifier.
Send(e, id, kind) ==
    LET p == [cmd |-> commands + 1, entity |-> e, id |-> id, kind |-> kind, dup |-> FALSE]
    IN  /\ commands < MaxCommands
        /\ \A q \in inflight : q.id # id
        /\ Arrive(p)
        /\ commands' = commands + 1
        /\ inflight' = IF kind = "qos1" THEN inflight \cup {p} ELSE inflight

\* An in-flight command is sent again.
Resend(p) ==
    /\ p \in inflight
    /\ Arrive([p EXCEPT !.dup = TRUE])
    /\ UNCHANGED <<commands, inflight>>

\* The acknowledgement arrives: the identifier is free again.
Acknowledge(p) ==
    /\ p \in inflight
    /\ rx = Idle
    /\ inflight' = inflight \ {p}
    /\ UNCHANGED <<flags, network, rx, queue, filter, commands, deliveries, history>>

-----------------------------------------------------------------------------
(* The callback of a subscription *)

\* rx goes on to the next place with its packet.
Goto(place) == rx' = [rx EXCEPT !.at = place]

\* beginCallback of the client, and dispatchMessage with its size limit.
Begin ==
    /\ rx.at = "begin"
    /\ IF clientOpen /\ rx.packet.kind # "big" THEN Goto("accept") ELSE rx' = Idle
    /\ UNCHANGED <<flags, network, queue, filter, wire, history>>

\* Mutant of Open: the context is not looked at.
OpenIgnoringContext == accepting

\* The first check of acceptMessage.
Open == accepting /\ ~cancelled

\* acceptMessage up to the duplicate filter.
Accept ==
    /\ rx.at = "accept"
    /\ IF Open /\ rx.packet.kind # "retained"
       THEN /\ Goto(IF rx.packet.kind = "qos0" THEN "enqueue" ELSE "dedupe")
            /\ passed' = IF rx.packet.kind = "qos0" THEN passed \cup {rx.packet.cmd} ELSE passed
       ELSE rx' = Idle /\ UNCHANGED passed
    /\ UNCHANGED <<flags, network, queue, filter, wire, refused, enqueued, lateQueued>>

\* Mutant of Judge: a packet without the DUP flag is not recorded.
JudgeDupOnly(p, admitted) ==
    LET k == <<p.entity, p.id>>
    IN  IF admitted
        THEN IF p.dup THEN Cache!Admit(k, p.dup) ELSE UNCHANGED filter
        ELSE Cache!Refuse(k, p.dup)

\* The critical section of dedupeMu, for the key topic ":" identifier.
Judge(p, admitted) ==
    LET k == <<p.entity, p.id>>
    IN  IF admitted THEN Cache!Admit(k, p.dup) ELSE Cache!Refuse(k, p.dup)

Dedupe(admitted) ==
    /\ rx.at = "dedupe"
    /\ Judge(rx.packet, admitted)
    /\ IF admitted
       THEN /\ Goto("enqueue")
            /\ passed' = passed \cup {rx.packet.cmd}
            /\ UNCHANGED refused
       ELSE /\ rx' = Idle
            /\ refused' = refused \cup {rx.packet.cmd}
            /\ UNCHANGED passed
    /\ UNCHANGED <<flags, network, queue, wire, enqueued, lateQueued>>

\* Mutant of HasRoom: the queue takes one command more than its capacity.
HasRoomOffByOne(e) == Len(queue[e]) <= Capacity

\* The channel of the entity, made with EntityQueueCapacity, takes a command.
HasRoom(e) == Len(queue[e]) < Capacity

\* Mutant of Push: the select has no default case.
PushBlocking(e, n) ==
    /\ HasRoom(e)
    /\ queue' = [queue EXCEPT ![e] = Append(@, n)]
    /\ enqueued' = [enqueued EXCEPT ![n] = @ + 1]
    /\ lateQueued' = IF cancelled THEN lateQueued + 1 ELSE lateQueued

\* The select of enqueueSwitch and enqueueButton: a full queue drops the command.
Push(e, n) ==
    IF HasRoom(e)
    THEN /\ queue' = [queue EXCEPT ![e] = Append(@, n)]
         /\ enqueued' = [enqueued EXCEPT ![n] = @ + 1]
         /\ lateQueued' = IF cancelled THEN lateQueued + 1 ELSE lateQueued
    ELSE UNCHANGED <<queue, enqueued, lateQueued>>

Enqueue ==
    /\ rx.at = "enqueue"
    /\ Push(rx.packet.entity, rx.packet.cmd)
    /\ rx' = Idle
    /\ UNCHANGED <<flags, network, filter, wire, passed, refused>>

-----------------------------------------------------------------------------
(* Consumers and shutdown *)

\* The worker of e receives from its queue.
Take(e) ==
    /\ queue[e] # << >>
    /\ queue' = [queue EXCEPT ![e] = Tail(@)]
    /\ UNCHANGED <<flags, network, rx, filter, wire, history>>

\* SIGTERM cancels the context of the service, and with it the controller's.
Cancel ==
    /\ ~cancelled
    /\ cancelled' = TRUE
    /\ UNCHANGED <<clientOpen, accepting, network, rx, queue, filter, wire, history>>

\* shutdownService, after SIGTERM or a failed start: StopAccepting of the client ...
StopAccepting ==
    /\ clientOpen
    /\ clientOpen' = FALSE
    /\ UNCHANGED <<cancelled, accepting, network, rx, queue, filter, wire, history>>

\* ... and then Shutdown of the controller.
Shutdown ==
    /\ ~clientOpen /\ accepting
    /\ accepting' = FALSE
    /\ cancelled' = TRUE
    /\ UNCHANGED <<clientOpen, network, rx, queue, filter, wire, history>>

-----------------------------------------------------------------------------
Callback == Begin \/ Accept \/ (\E admitted \in BOOLEAN : Dedupe(admitted)) \/ Enqueue

Next ==
    \/ \E h \in Handler : Connect(h) \/ SessionHandler(h) \/ Subscribe(h)
    \/ \E e \in Entity, id \in PacketId, kind \in Kind : Send(e, id, kind)
    \/ \E p \in inflight : Resend(p) \/ Acknowledge(p)
    \/ Callback
    \/ \E e \in Entity : Take(e)
    \/ Cancel \/ StopAccepting \/ Shutdown

Spec == Init /\ [][Next]_vars

\* The callback goroutine runs on; nothing is assumed of the workers.
FairSpec == Spec /\ WF_vars(Callback)

-----------------------------------------------------------------------------
(* Properties *)

TypeOK ==
    /\ cancelled \in BOOLEAN /\ clientOpen \in BOOLEAN /\ accepting \in BOOLEAN
    /\ connections \in 0..MaxConnections
    /\ subscribed \subseteq Entity
    /\ handler \in [Handler -> {"idle", "session", "subscribe"}]
    /\ rx \in {Idle} \cup [at : {"begin", "accept", "dedupe", "enqueue"}, packet : Packet]
    /\ queue \in [Entity -> Seq(Command)]
    /\ \A e \in Entity : Len(queue[e]) <= Capacity
    /\ Cache!TypeOK
    /\ inflight \subseteq Packet
    /\ commands \in 0..MaxCommands /\ deliveries \in 0..MaxDeliveries
    /\ passed \subseteq Command /\ refused \subseteq Command
    /\ enqueued \in [Command -> Nat] /\ lateQueued \in Nat

\* Within one MQTT connection a command enters the queue at most once, however
\* often the broker sends it again and whichever identifiers it reuses, as long
\* as the connection has not admitted more packets than the cache has entries.
AtMostOncePerConnection == \A n \in Command : enqueued[n] <= 1

\* A packet refused as a duplicate belongs to a command that acceptMessage has
\* let pass in this connection: a reused identifier, or one known from an
\* earlier connection, never costs a command.
RefusedWasPassed == refused \subseteq passed

\* The same with "accepted" read as "queued": it fails when the first copy was
\* dropped by a full queue after the filter had recorded it.
RefusedWasQueued == \A n \in refused : enqueued[n] > 0

\* After the context is cancelled at most the one command whose callback had
\* already passed the check of acceptMessage still enters a queue.
AtMostOneAfterCancel == lateQueued <= 1

\* The callback never waits for a worker, even with a full queue.
CallbackReturns == rx # Idle ~> rx = Idle
=============================================================================

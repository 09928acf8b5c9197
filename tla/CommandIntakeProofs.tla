------------------------- MODULE CommandIntakeProofs -------------------------
(***************************************************************************)
(* The command intake for every set of entities, identifiers and connect   *)
(* goroutines and every capacity: types and bounds, at most one command    *)
(* after cancellation, and, as long as connections do not overlap, that    *)
(* the filter refuses only copies of commands it let pass and lets no      *)
(* command into a queue twice.                                             *)
(***************************************************************************)
EXTENDS CommandIntake, TLAPS

\* No two connections overlap in their connect goroutines: the goroutine of a
\* lost connection has ended before the next connection starts one.
Sequential == \A g, h \in Handler : handler[g] # "idle" /\ handler[h] # "idle" => g = h

\* The connection has admitted no more packets than the cache has entries.
WithinCache == dedupeSeq <= CacheSize

\* Every entry of the list has a generation of its own.
Listed == Len(dedupeOrder) <= dedupeSeq

\* p and q are copies of one command, apart from the DUP flag.
Copies(p, q) == p.cmd = q.cmd /\ p.entity = q.entity /\ p.id = q.id /\ p.kind = q.kind

\* The broker's promise: a packet in flight is the first copy of a command
\* sent, and has a command and an identifier of its own.
InFlight ==
    /\ \A p \in inflight : ~p.dup /\ p.kind = "qos1" /\ p.cmd <= commands
    /\ \A p, q \in inflight : p.id = q.id \/ p.cmd = q.cmd => p = q

\* What the callback knows of its packet at each place.
Carried ==
    rx # Idle =>
        /\ rx.packet.cmd <= commands
        /\ rx.packet.dup => rx.packet.kind = "qos1"
        /\ rx.packet.kind = "qos1" => \E q \in inflight : Copies(rx.packet, q)
        /\ \A q \in inflight : q.cmd = rx.packet.cmd => Copies(rx.packet, q)
        /\ rx.at = "accept" => rx.packet.kind # "big"
        /\ rx.at = "dedupe" => rx.packet.kind = "qos1"
        /\ rx.at = "enqueue" => rx.packet.cmd \in passed

\* Nothing is queued late before the context is cancelled, and no callback is
\* past the check of acceptMessage once a command was queued late.
LateOnce ==
    /\ ~cancelled => lateQueued = 0
    /\ rx.at \in {"dedupe", "enqueue"} => lateQueued = 0
    /\ lateQueued <= 1

\* What holds whether or not connections overlap.
Base == TypeOK /\ Listed /\ InFlight /\ Carried /\ LateOnce

\* A connection that has not subscribed yet: nothing was received or judged in it.
Quiet ==
    /\ rx = Idle /\ subscribed = {}
    /\ \A h \in Handler : handler[h] # "subscribe"
    /\ passed = {} /\ refused = {} /\ \A n \in Command : enqueued[n] = 0

\* The callback works on the first copy of p.
Pending(p) == rx # Idle /\ ~rx.packet.dup /\ Copies(rx.packet, p)

\* The callback is at place with a copy of p.
At(place, p) == rx.at = place /\ Copies(rx.packet, p)

\* Every further copy of p will be dropped before it reaches the filter.
Barred(p) == ~At("dedupe", p) /\ (~Open \/ (~clientOpen /\ ~At("accept", p)))

\* What a key known to the filter says of a packet in flight.
Known ==
    \A p \in inflight :
        <<p.entity, p.id>> \in DOMAIN dedupe => p.cmd \in passed \/ Pending(p) \/ Barred(p)

\* Until the filter is reset for a connection nothing is received in it, and
\* from then on the filter speaks of this connection only.
Session ==
    /\ (\E h \in Handler : handler[h] = "session") => Quiet
    /\ Quiet \/ Known

\* What was let pass in flight is known to the filter, and a command not yet
\* judged in its first copy has not been let pass.
Remembered ==
    /\ \A n \in passed : n <= commands
    /\ \A p \in inflight : p.cmd \in passed => <<p.entity, p.id>> \in DOMAIN dedupe
    /\ rx.at \in {"begin", "accept", "dedupe"} /\ ~rx.packet.dup => rx.packet.cmd \notin passed

\* A command is queued only once it was let pass, and not yet when the
\* callback is about to queue it.
QueuedOnce ==
    /\ \A n \in Command : enqueued[n] > 0 => n \in passed
    /\ rx.at = "enqueue" => enqueued[rx.packet.cmd] = 0
    /\ AtMostOncePerConnection

\* The conjuncts of TypeOK by the part of the state they speak of.
FlagTypes ==
    /\ cancelled \in BOOLEAN /\ clientOpen \in BOOLEAN /\ accepting \in BOOLEAN
    /\ connections \in 0..MaxConnections
    /\ subscribed \subseteq Entity
    /\ handler \in [Handler -> {"idle", "session", "subscribe"}]

\* The places of a callback.
Place == {"begin", "accept", "dedupe", "enqueue"}

\* The callback.
RxTypes == rx \in {Idle} \cup [at : Place, packet : Packet]

\* The queues.
QueueTypes ==
    /\ queue \in [Entity -> Seq(Command)]
    /\ \A e \in Entity : Len(queue[e]) <= Capacity

\* The broker's state.
WireTypes ==
    /\ inflight \subseteq Packet
    /\ commands \in 0..MaxCommands /\ deliveries \in 0..MaxDeliveries

\* The histories.
HistoryTypes ==
    /\ passed \subseteq Command /\ refused \subseteq Command
    /\ enqueued \in [Command -> Nat] /\ lateQueued \in Nat

\* TypeOK is the conjunction of these parts, before and after a step.
LEMMA TypeParts ==
    TypeOK <=> /\ FlagTypes /\ RxTypes /\ QueueTypes /\ Cache!TypeOK
               /\ WireTypes /\ HistoryTypes
BY DEF TypeOK, FlagTypes, RxTypes, Place, QueueTypes, WireTypes, HistoryTypes

\* The same of the next state.
LEMMA TypePartsNext ==
    TypeOK' <=> /\ FlagTypes' /\ RxTypes' /\ QueueTypes' /\ Cache!TypeOK'
                /\ WireTypes' /\ HistoryTypes'
BY DEF TypeOK, FlagTypes, RxTypes, Place, QueueTypes, WireTypes, HistoryTypes

\* The callback is idle, or at one of four places with a packet.
LEMMA RxShape ==
    ASSUME RxTypes
    PROVE  /\ rx # Idle => rx \in [at : Place, packet : Packet]
           /\ rx = Idle <=> rx.at = "idle"
           /\ rx.at # "idle" => /\ rx # Idle /\ rx.packet \in Packet
                                /\ rx.at \in Place
BY DEF RxTypes, Place, Idle

\* Goto keeps the packet.
LEMMA GotoKeeps ==
    ASSUME RxTypes, rx.at # "idle",
           NEW place \in Place, Goto(place)
    PROVE  /\ rx' \in [at : Place, packet : Packet]
           /\ rx' # Idle /\ rx'.at = place /\ rx'.packet = rx.packet
<1>1. rx \in [at : Place, packet : Packet]
  BY RxShape
<1>2. rx' = [rx EXCEPT !.at = place]
  BY DEF Goto
<1>3. /\ rx' \in [at : Place, packet : Packet]
      /\ rx'.at = place /\ rx'.packet = rx.packet
  BY <1>1, <1>2
<1> QED BY <1>3 DEF Idle, Place

\* The callback's packet carries a command.
LEMMA RxCommand ==
    ASSUME RxTypes, rx.at # "idle"
    PROVE  rx.packet.cmd \in Command /\ <<rx.packet.entity, rx.packet.id>> \in Key
BY RxShape DEF Packet, Key

\* What an admission does to the filter: types and bounds are kept, only the
\* admitted key is new, and nothing is evicted while the session has admitted
\* no more packets than the cache has entries.
LEMMA FilterStep ==
    ASSUME Cache!TypeOK, Len(dedupeOrder) <= dedupeSeq,
           NEW k \in Key, NEW dup \in BOOLEAN, Cache!Admit(k, dup)
    PROVE  /\ Cache!TypeOK'
           /\ Len(dedupeOrder') <= dedupeSeq'
           /\ DOMAIN dedupe' \subseteq DOMAIN dedupe \cup {k}
           /\ dedupeSeq' <= CacheSize => DOMAIN dedupe' = DOMAIN dedupe \cup {k}
<1> DEFINE n == Len(dedupeOrder)
           new == [key |-> k, generation |-> dedupeSeq + 1]
           order == Append(dedupeOrder, new)
           x == Cache!Excess(order)
           map == Cache!Store(dedupe, k, dedupeSeq + 1)
<1>1. /\ n \in Nat /\ n <= CacheSize /\ n <= dedupeSeq /\ dedupeSeq \in Nat
      /\ dedupeSeq' = dedupeSeq + 1
      /\ dedupeSeq' \in 1..MaxDeliveries
      /\ new \in Cache!Entry
      /\ CacheSize \in Nat \ {0}
  BY IntakeAssumption DEF Cache!TypeOK, Cache!Admit, Cache!Entry
<1>2. /\ dedupeOrder' = Cache!Trim(order)
      /\ dedupe' = Cache!Evict(map, order)
  BY DEF Cache!Admit
<1>3. order \in Seq(Cache!Entry) /\ Len(order) = n + 1
  BY <1>1 DEF Cache!TypeOK
<1> HIDE DEF order, new, n
<1>4. /\ x \in 0..Len(order)
      /\ Len(order) - x <= CacheSize
      /\ Len(order) - x <= dedupeSeq'
      /\ dedupeSeq' <= CacheSize => x = 0
  BY <1>1, <1>3 DEF Cache!Excess
<1>5. /\ dedupeOrder' \in Seq(Cache!Entry)
      /\ Len(dedupeOrder') = Len(order) - x
  BY <1>2, <1>3, <1>4 DEF Cache!Trim
<1>6. map \in [DOMAIN dedupe \cup {k} -> 1..MaxDeliveries]
  BY <1>1 DEF Cache!Store, Cache!TypeOK
<1> HIDE DEF map, x
<1>7. /\ DOMAIN dedupe' \subseteq DOMAIN dedupe \cup {k}
      /\ dedupe' \in [DOMAIN dedupe' -> 1..MaxDeliveries]
  BY <1>2, <1>6 DEF Cache!Evict
<1>8. ASSUME dedupeSeq' <= CacheSize PROVE DOMAIN dedupe' = DOMAIN dedupe \cup {k}
  <2>1. 1..x = {}
    BY <1>4, <1>8
  <2> QED BY <1>2, <1>6, <2>1 DEF Cache!Evict, x
<1>9. Cache!TypeOK'
  BY <1>1, <1>4, <1>5, <1>7 DEF Cache!TypeOK, Cache!Entry
<1> QED BY <1>1, <1>4, <1>5, <1>7, <1>8, <1>9
\* No step leaves the types of the flags,
LEMMA FlagStep == FlagTypes /\ [Next]_vars => FlagTypes'
<1> SUFFICES ASSUME FlagTypes, [Next]_vars PROVE FlagTypes'
  OBVIOUS
<1>1. ASSUME NEW h \in Handler, Connect(h) PROVE FlagTypes'
  BY <1>1, IntakeAssumption DEF Connect, FlagTypes, flags
<1>2. ASSUME NEW h \in Handler, SessionHandler(h) PROVE FlagTypes'
  BY <1>2 DEF SessionHandler, Cache!Reset, FlagTypes, flags
<1>3. ASSUME NEW h \in Handler, Subscribe(h) PROVE FlagTypes'
  BY <1>3 DEF Subscribe, FlagTypes, flags
<1>4. ASSUME NEW e \in Entity, NEW id \in PacketId, NEW kind \in Kind, Send(e, id, kind)
      PROVE  FlagTypes'
  BY <1>4 DEF Send, Arrive, FlagTypes, flags, network
<1>5. ASSUME NEW p \in inflight, Resend(p) PROVE FlagTypes'
  BY <1>5 DEF Resend, Arrive, FlagTypes, flags, network
<1>6. ASSUME NEW p \in inflight, Acknowledge(p) PROVE FlagTypes'
  BY <1>6 DEF Acknowledge, FlagTypes, flags, network
<1>7. CASE Begin
  BY <1>7 DEF Begin, FlagTypes, flags, network
<1>8. CASE Accept
  BY <1>8 DEF Accept, FlagTypes, flags, network
<1>9. ASSUME NEW admitted \in BOOLEAN, Dedupe(admitted) PROVE FlagTypes'
  BY <1>9 DEF Dedupe, FlagTypes, flags, network
<1>10. CASE Enqueue
  BY <1>10 DEF Enqueue, Push, FlagTypes, flags, network
<1>11. ASSUME NEW e \in Entity, Take(e) PROVE FlagTypes'
  BY <1>11 DEF Take, FlagTypes, flags, network
<1>12. CASE Cancel
  BY <1>12 DEF Cancel, FlagTypes, network
<1>13. CASE StopAccepting
  BY <1>13 DEF StopAccepting, FlagTypes, network
<1>14. CASE Shutdown
  BY <1>14 DEF Shutdown, FlagTypes, network
<1>15. CASE UNCHANGED vars
  BY <1>15 DEF FlagTypes, flags, network, vars
<1> QED
  BY <1>1, <1>2, <1>3, <1>4, <1>5, <1>6, <1>7, <1>8, <1>9, <1>10, <1>11, <1>12, <1>13, <1>14,
     <1>15 DEF Next, Callback

\* of the callback,
LEMMA RxStep == FlagTypes /\ RxTypes /\ WireTypes /\ [Next]_vars => RxTypes'
<1> SUFFICES ASSUME FlagTypes /\ RxTypes /\ WireTypes, [Next]_vars PROVE RxTypes'
  OBVIOUS
<1>1. ASSUME NEW h \in Handler, Connect(h) PROVE RxTypes'
  BY <1>1 DEF Connect, RxTypes
<1>2. ASSUME NEW h \in Handler, SessionHandler(h) PROVE RxTypes'
  BY <1>2 DEF SessionHandler, Cache!Reset, RxTypes
<1>3. ASSUME NEW h \in Handler, Subscribe(h) PROVE RxTypes'
  BY <1>3 DEF Subscribe, RxTypes
<1>4. ASSUME NEW e \in Entity, NEW id \in PacketId, NEW kind \in Kind, Send(e, id, kind)
      PROVE  RxTypes'
  <2>1. commands + 1 \in Command
    BY <1>4, IntakeAssumption DEF Send, WireTypes, Command
  <2> DEFINE p == [cmd |-> commands + 1, entity |-> e, id |-> id, kind |-> kind, dup |-> FALSE]
  <2>2. p \in Packet
    BY <2>1 DEF Packet
  <2>3. rx' = [at |-> "begin", packet |-> p]
    BY <1>4 DEF Send, Arrive
  <2> QED BY <2>2, <2>3 DEF RxTypes, Place
<1>5. ASSUME NEW p \in inflight, Resend(p) PROVE RxTypes'
  <2>1. p \in Packet
    BY <1>5 DEF WireTypes
  <2>2. [p EXCEPT !.dup = TRUE] \in Packet
    BY <2>1 DEF Packet
  <2>3. rx' = [at |-> "begin", packet |-> [p EXCEPT !.dup = TRUE]]
    BY <1>5 DEF Resend, Arrive
  <2> QED BY <2>2, <2>3 DEF RxTypes, Place
<1>6. ASSUME NEW p \in inflight, Acknowledge(p) PROVE RxTypes'
  BY <1>6 DEF Acknowledge, RxTypes
<1>7. CASE Begin
  <2>1. CASE Goto("accept")
    BY <1>7, <2>1, GotoKeeps DEF Begin, RxTypes, Place
  <2>2. CASE rx' = Idle
    BY <2>2 DEF RxTypes
  <2> QED BY <1>7, <2>1, <2>2 DEF Begin
<1>8. CASE Accept
  <2>1. CASE rx' = Idle
    BY <2>1 DEF RxTypes
  <2>2. ASSUME NEW place \in {"enqueue", "dedupe"}, Goto(place) PROVE RxTypes'
    BY <1>8, <2>2, GotoKeeps DEF Accept, RxTypes, Place
  <2> QED BY <1>8, <2>1, <2>2 DEF Accept
<1>9. ASSUME NEW admitted \in BOOLEAN, Dedupe(admitted) PROVE RxTypes'
  <2>1. CASE Goto("enqueue")
    BY <1>9, <2>1, GotoKeeps DEF Dedupe, RxTypes, Place
  <2>2. CASE rx' = Idle
    BY <2>2 DEF RxTypes
  <2> QED BY <1>9, <2>1, <2>2 DEF Dedupe
<1>10. CASE Enqueue
  BY <1>10 DEF Enqueue, Push, RxTypes
<1>11. ASSUME NEW e \in Entity, Take(e) PROVE RxTypes'
  BY <1>11 DEF Take, RxTypes
<1>12. CASE Cancel
  BY <1>12 DEF Cancel, RxTypes
<1>13. CASE StopAccepting
  BY <1>13 DEF StopAccepting, RxTypes
<1>14. CASE Shutdown
  BY <1>14 DEF Shutdown, RxTypes
<1>15. CASE UNCHANGED vars
  BY <1>15 DEF RxTypes, vars
<1> QED
  BY <1>1, <1>2, <1>3, <1>4, <1>5, <1>6, <1>7, <1>8, <1>9, <1>10, <1>11, <1>12, <1>13, <1>14,
     <1>15 DEF Next, Callback

\* of the queues and their capacity,
LEMMA QueueStep == RxTypes /\ QueueTypes /\ [Next]_vars => QueueTypes'
<1> SUFFICES ASSUME RxTypes /\ QueueTypes, [Next]_vars PROVE QueueTypes'
  OBVIOUS
<1>1. ASSUME NEW h \in Handler, Connect(h) PROVE QueueTypes'
  BY <1>1 DEF Connect, QueueTypes
<1>2. ASSUME NEW h \in Handler, SessionHandler(h) PROVE QueueTypes'
  BY <1>2 DEF SessionHandler, Cache!Reset, QueueTypes
<1>3. ASSUME NEW h \in Handler, Subscribe(h) PROVE QueueTypes'
  BY <1>3 DEF Subscribe, QueueTypes
<1>4. ASSUME NEW e \in Entity, NEW id \in PacketId, NEW kind \in Kind, Send(e, id, kind)
      PROVE  QueueTypes'
  BY <1>4 DEF Send, Arrive, QueueTypes
<1>5. ASSUME NEW p \in inflight, Resend(p) PROVE QueueTypes'
  BY <1>5 DEF Resend, Arrive, QueueTypes
<1>6. ASSUME NEW p \in inflight, Acknowledge(p) PROVE QueueTypes'
  BY <1>6 DEF Acknowledge, QueueTypes
<1>7. CASE Begin
  BY <1>7 DEF Begin, QueueTypes
<1>8. CASE Accept
  BY <1>8 DEF Accept, QueueTypes
<1>9. ASSUME NEW admitted \in BOOLEAN, Dedupe(admitted) PROVE QueueTypes'
  BY <1>9 DEF Dedupe, QueueTypes
<1>10. CASE Enqueue
  <2> DEFINE e == rx.packet.entity
             n == rx.packet.cmd
  <2>1. e \in Entity /\ n \in Command
    BY <1>10, RxShape DEF Enqueue, Packet
  <2>2. CASE HasRoom(e)
    <3>1. queue' = [queue EXCEPT ![e] = Append(queue[e], n)]
      BY <1>10, <2>2 DEF Enqueue, Push
    <3>2. Append(queue[e], n) \in Seq(Command) /\ Len(Append(queue[e], n)) <= Capacity
      BY <2>1, <2>2, IntakeAssumption DEF HasRoom, QueueTypes
    <3> HIDE DEF e, n
    <3> QED BY <2>1, <3>1, <3>2 DEF QueueTypes
  <2>3. CASE ~HasRoom(e)
    BY <1>10, <2>3 DEF Enqueue, Push, QueueTypes
  <2> QED BY <2>2, <2>3
<1>11. ASSUME NEW e \in Entity, Take(e) PROVE QueueTypes'
  <2>1. /\ Tail(queue[e]) \in Seq(Command)
        /\ Len(Tail(queue[e])) <= Capacity
    BY <1>11, IntakeAssumption DEF Take, QueueTypes
  <2>2. queue' = [queue EXCEPT ![e] = Tail(queue[e])]
    BY <1>11 DEF Take
  <2> QED BY <2>1, <2>2 DEF QueueTypes
<1>12. CASE Cancel
  BY <1>12 DEF Cancel, QueueTypes
<1>13. CASE StopAccepting
  BY <1>13 DEF StopAccepting, QueueTypes
<1>14. CASE Shutdown
  BY <1>14 DEF Shutdown, QueueTypes
<1>15. CASE UNCHANGED vars
  BY <1>15 DEF QueueTypes, vars
<1> QED
  BY <1>1, <1>2, <1>3, <1>4, <1>5, <1>6, <1>7, <1>8, <1>9, <1>10, <1>11, <1>12, <1>13, <1>14,
     <1>15 DEF Next, Callback

\* of the broker's state,
LEMMA WireStep == FlagTypes /\ WireTypes /\ [Next]_vars => WireTypes'
<1> SUFFICES ASSUME FlagTypes /\ WireTypes, [Next]_vars PROVE WireTypes'
  OBVIOUS
<1>1. ASSUME NEW h \in Handler, Connect(h) PROVE WireTypes'
  BY <1>1 DEF Connect, WireTypes
<1>2. ASSUME NEW h \in Handler, SessionHandler(h) PROVE WireTypes'
  BY <1>2 DEF SessionHandler, Cache!Reset, WireTypes, wire
<1>3. ASSUME NEW h \in Handler, Subscribe(h) PROVE WireTypes'
  BY <1>3 DEF Subscribe, WireTypes, wire
<1>4. ASSUME NEW e \in Entity, NEW id \in PacketId, NEW kind \in Kind, Send(e, id, kind)
      PROVE  WireTypes'
  <2>1. commands + 1 \in Command /\ commands' \in 0..MaxCommands /\ deliveries' \in 0..MaxDeliveries
    BY <1>4, IntakeAssumption DEF Send, Arrive, WireTypes, Command
  <2> DEFINE p == [cmd |-> commands + 1, entity |-> e, id |-> id, kind |-> kind, dup |-> FALSE]
  <2>2. p \in Packet
    BY <2>1 DEF Packet
  <2>3. inflight' \subseteq inflight \cup {p}
    BY <1>4 DEF Send
  <2> QED BY <2>1, <2>2, <2>3 DEF WireTypes
<1>5. ASSUME NEW p \in inflight, Resend(p) PROVE WireTypes'
  BY <1>5, IntakeAssumption DEF Resend, Arrive, WireTypes
<1>6. ASSUME NEW p \in inflight, Acknowledge(p) PROVE WireTypes'
  BY <1>6 DEF Acknowledge, WireTypes
<1>7. CASE Begin
  BY <1>7 DEF Begin, WireTypes, wire
<1>8. CASE Accept
  BY <1>8 DEF Accept, WireTypes, wire
<1>9. ASSUME NEW admitted \in BOOLEAN, Dedupe(admitted) PROVE WireTypes'
  BY <1>9 DEF Dedupe, WireTypes, wire
<1>10. CASE Enqueue
  BY <1>10 DEF Enqueue, Push, WireTypes, wire
<1>11. ASSUME NEW e \in Entity, Take(e) PROVE WireTypes'
  BY <1>11 DEF Take, WireTypes, wire
<1>12. CASE Cancel
  BY <1>12 DEF Cancel, WireTypes, wire
<1>13. CASE StopAccepting
  BY <1>13 DEF StopAccepting, WireTypes, wire
<1>14. CASE Shutdown
  BY <1>14 DEF Shutdown, WireTypes, wire
<1>15. CASE UNCHANGED vars
  BY <1>15 DEF WireTypes, wire, vars
<1> QED
  BY <1>1, <1>2, <1>3, <1>4, <1>5, <1>6, <1>7, <1>8, <1>9, <1>10, <1>11, <1>12, <1>13, <1>14,
     <1>15 DEF Next, Callback

\* or of the histories.
LEMMA HistoryStep == RxTypes /\ HistoryTypes /\ [Next]_vars => HistoryTypes'
<1> SUFFICES ASSUME RxTypes /\ HistoryTypes, [Next]_vars PROVE HistoryTypes'
  OBVIOUS
<1>1. ASSUME NEW h \in Handler, Connect(h) PROVE HistoryTypes'
  BY <1>1, RxCommand DEF Connect, HistoryTypes
<1>2. ASSUME NEW h \in Handler, SessionHandler(h) PROVE HistoryTypes'
  BY <1>2, RxCommand DEF SessionHandler, Cache!Reset, HistoryTypes, history
<1>3. ASSUME NEW h \in Handler, Subscribe(h) PROVE HistoryTypes'
  BY <1>3, RxCommand DEF Subscribe, HistoryTypes, history
<1>4. ASSUME NEW e \in Entity, NEW id \in PacketId, NEW kind \in Kind, Send(e, id, kind)
      PROVE  HistoryTypes'
  BY <1>4, RxCommand DEF Send, Arrive, HistoryTypes, history
<1>5. ASSUME NEW p \in inflight, Resend(p) PROVE HistoryTypes'
  BY <1>5, RxCommand DEF Resend, Arrive, HistoryTypes, history
<1>6. ASSUME NEW p \in inflight, Acknowledge(p) PROVE HistoryTypes'
  BY <1>6, RxCommand DEF Acknowledge, HistoryTypes, history
<1>7. CASE Begin
  BY <1>7, RxCommand DEF Begin, HistoryTypes, history
<1>8. CASE Accept
  BY <1>8, RxCommand DEF Accept, HistoryTypes
<1>9. ASSUME NEW admitted \in BOOLEAN, Dedupe(admitted) PROVE HistoryTypes'
  BY <1>9, RxCommand DEF Dedupe, HistoryTypes
<1>10. CASE Enqueue
  <2> DEFINE n == rx.packet.cmd
  <2>1. n \in Command
    BY <1>10, RxCommand DEF Enqueue
  <2>2. CASE HasRoom(rx.packet.entity)
    <3>1. enqueued' = [enqueued EXCEPT ![n] = enqueued[n] + 1]
      BY <1>10, <2>2 DEF Enqueue, Push
    <3>2. enqueued[n] + 1 \in Nat
      BY <2>1 DEF HistoryTypes
    <3>3. lateQueued' \in Nat
      BY <1>10, <2>2 DEF Enqueue, Push, HistoryTypes
    <3> HIDE DEF n
    <3>4. enqueued' \in [Command -> Nat]
      BY <2>1, <3>1, <3>2 DEF HistoryTypes
    <3> QED BY <1>10, <3>3, <3>4 DEF Enqueue, HistoryTypes
  <2>3. CASE ~HasRoom(rx.packet.entity)
    BY <1>10, <2>3 DEF Enqueue, Push, HistoryTypes
  <2> QED BY <2>2, <2>3
<1>11. ASSUME NEW e \in Entity, Take(e) PROVE HistoryTypes'
  BY <1>11, RxCommand DEF Take, HistoryTypes, history
<1>12. CASE Cancel
  BY <1>12, RxCommand DEF Cancel, HistoryTypes, history
<1>13. CASE StopAccepting
  BY <1>13, RxCommand DEF StopAccepting, HistoryTypes, history
<1>14. CASE Shutdown
  BY <1>14, RxCommand DEF Shutdown, HistoryTypes, history
<1>15. CASE UNCHANGED vars
  BY <1>15 DEF HistoryTypes, history, vars
<1> QED
  BY <1>1, <1>2, <1>3, <1>4, <1>5, <1>6, <1>7, <1>8, <1>9, <1>10, <1>11, <1>12, <1>13, <1>14,
     <1>15 DEF Next, Callback
\* A step judges the callback's packet, resets the filter or leaves it alone.
LEMMA FilterCases ==
    ASSUME RxTypes, [Next]_vars
    PROVE  \/ UNCHANGED <<dedupe, dedupeOrder, dedupeSeq>>
           \/ Cache!Reset
           \/ /\ rx.at = "dedupe" /\ rx.packet.dup \in BOOLEAN
              /\ Cache!Admit(<<rx.packet.entity, rx.packet.id>>, rx.packet.dup)
<1> DEFINE Outcome == \/ UNCHANGED <<dedupe, dedupeOrder, dedupeSeq>>
                   \/ Cache!Reset
                   \/ /\ rx.at = "dedupe" /\ rx.packet.dup \in BOOLEAN
                      /\ Cache!Admit(<<rx.packet.entity, rx.packet.id>>, rx.packet.dup)
<1>1. ASSUME NEW h \in Handler, Connect(h) PROVE Outcome
  BY <1>1 DEF Connect, filter, filter
<1>2. ASSUME NEW h \in Handler, SessionHandler(h) PROVE Outcome
  BY <1>2 DEF SessionHandler, Cache!Reset, filter, filter
<1>3. ASSUME NEW h \in Handler, Subscribe(h) PROVE Outcome
  BY <1>3 DEF Subscribe, filter, filter
<1>4. ASSUME NEW e \in Entity, NEW id \in PacketId, NEW kind \in Kind, Send(e, id, kind)
      PROVE  Outcome
  BY <1>4 DEF Send, Arrive, filter, filter
<1>5. ASSUME NEW p \in inflight, Resend(p) PROVE Outcome
  BY <1>5 DEF Resend, Arrive, filter, filter
<1>6. ASSUME NEW p \in inflight, Acknowledge(p) PROVE Outcome
  BY <1>6 DEF Acknowledge, filter, filter
<1>7. CASE Begin
  BY <1>7 DEF Begin, filter, filter
<1>8. CASE Accept
  BY <1>8 DEF Accept, filter, filter
<1>9. ASSUME NEW admitted \in BOOLEAN, Dedupe(admitted) PROVE Outcome
  BY <1>9, RxShape DEF Dedupe, Judge, Cache!Refuse, Packet
<1>10. CASE Enqueue
  BY <1>10 DEF Enqueue, Push, filter, filter
<1>11. ASSUME NEW e \in Entity, Take(e) PROVE Outcome
  BY <1>11 DEF Take, filter, filter
<1>12. CASE Cancel
  BY <1>12 DEF Cancel, filter, filter
<1>13. CASE StopAccepting
  BY <1>13 DEF StopAccepting, filter, filter
<1>14. CASE Shutdown
  BY <1>14 DEF Shutdown, filter, filter
<1>15. CASE UNCHANGED vars
  BY <1>15 DEF filter, filter, vars
<1> QED
  BY <1>1, <1>2, <1>3, <1>4, <1>5, <1>6, <1>7, <1>8, <1>9, <1>10, <1>11, <1>12, <1>13, <1>14,
     <1>15 DEF Next, Callback

\* The filter keeps its types.
LEMMA FilterTypes == RxTypes /\ Cache!TypeOK /\ Listed /\ [Next]_vars => Cache!TypeOK' /\ Listed'
<1> SUFFICES ASSUME RxTypes, Cache!TypeOK, Listed, [Next]_vars PROVE Cache!TypeOK' /\ Listed'
  OBVIOUS
<1>1. CASE UNCHANGED <<dedupe, dedupeOrder, dedupeSeq>>
  BY <1>1 DEF Cache!TypeOK, Cache!Entry, Listed
<1>2. CASE Cache!Reset
  <2>1. Len(<< >>) = 0 /\ << >> \in Seq(Cache!Entry)
    OBVIOUS
  <2>2. Len(dedupeOrder') = 0 /\ dedupeSeq' = 0 /\ dedupeOrder' \in Seq(Cache!Entry)
    BY <1>2, <2>1 DEF Cache!Reset
  <2>3. DOMAIN dedupe' = {} /\ dedupe' \in [DOMAIN dedupe' -> 1..MaxDeliveries]
    BY <1>2 DEF Cache!Reset
  <2> QED BY <2>2, <2>3, IntakeAssumption DEF Cache!TypeOK, Listed, Cache!Entry
<1>3. CASE /\ rx.at = "dedupe" /\ rx.packet.dup \in BOOLEAN
           /\ Cache!Admit(<<rx.packet.entity, rx.packet.id>>, rx.packet.dup)
  BY <1>3, FilterStep, RxCommand DEF Listed
<1> QED BY <1>1, <1>2, <1>3, FilterCases

\* Commands and identifiers of packets in flight stay distinct.
LEMMA InFlightStep == WireTypes /\ InFlight /\ [Next]_vars => InFlight'
<1> SUFFICES ASSUME WireTypes /\ InFlight, [Next]_vars PROVE InFlight'
  OBVIOUS
<1>1. ASSUME NEW h \in Handler, Connect(h) PROVE InFlight'
  BY <1>1 DEF Connect, InFlight
<1>2. ASSUME NEW h \in Handler, SessionHandler(h) PROVE InFlight'
  BY <1>2 DEF SessionHandler, Cache!Reset, InFlight, wire
<1>3. ASSUME NEW h \in Handler, Subscribe(h) PROVE InFlight'
  BY <1>3 DEF Subscribe, InFlight, wire
<1>4. ASSUME NEW e \in Entity, NEW id \in PacketId, NEW kind \in Kind, Send(e, id, kind)
      PROVE  InFlight'
  <2> DEFINE p == [cmd |-> commands + 1, entity |-> e, id |-> id, kind |-> kind, dup |-> FALSE]
  <2>1. /\ commands' = commands + 1 /\ commands \in Nat
        /\ \A q \in inflight : q.id # id /\ q.cmd \in Int
    BY <1>4 DEF Send, WireTypes, Packet, Command
  <2>2. CASE kind = "qos1"
    <3>1. inflight' = inflight \cup {p}
      BY <1>4, <2>2 DEF Send
    <3>2. p.id = id /\ p.cmd = commands' /\ ~p.dup /\ p.kind = "qos1"
      BY <2>1, <2>2
    <3> HIDE DEF p
    <3> QED BY <2>1, <3>1, <3>2 DEF InFlight
  <2>3. CASE kind # "qos1"
    <3>1. inflight' = inflight
      BY <1>4, <2>3 DEF Send
    <3> QED BY <2>1, <3>1 DEF InFlight
  <2> QED BY <2>2, <2>3
<1>5. ASSUME NEW p \in inflight, Resend(p) PROVE InFlight'
  BY <1>5 DEF Resend, Arrive, InFlight
<1>6. ASSUME NEW p \in inflight, Acknowledge(p) PROVE InFlight'
  BY <1>6 DEF Acknowledge, InFlight
<1>7. CASE Begin
  BY <1>7 DEF Begin, InFlight, wire
<1>8. CASE Accept
  BY <1>8 DEF Accept, InFlight, wire
<1>9. ASSUME NEW admitted \in BOOLEAN, Dedupe(admitted) PROVE InFlight'
  BY <1>9 DEF Dedupe, InFlight, wire
<1>10. CASE Enqueue
  BY <1>10 DEF Enqueue, Push, InFlight, wire
<1>11. ASSUME NEW e \in Entity, Take(e) PROVE InFlight'
  BY <1>11 DEF Take, InFlight, wire
<1>12. CASE Cancel
  BY <1>12 DEF Cancel, InFlight, wire
<1>13. CASE StopAccepting
  BY <1>13 DEF StopAccepting, InFlight, wire
<1>14. CASE Shutdown
  BY <1>14 DEF Shutdown, InFlight, wire
<1>15. CASE UNCHANGED vars
  BY <1>15 DEF InFlight, wire, vars
<1> QED
  BY <1>1, <1>2, <1>3, <1>4, <1>5, <1>6, <1>7, <1>8, <1>9, <1>10, <1>11, <1>12, <1>13, <1>14,
     <1>15 DEF Next, Callback

\* What is known of the callback's packet follows from the checks it passed.
LEMMA CarriedStep ==
    RxTypes /\ WireTypes /\ HistoryTypes /\ InFlight /\ Carried /\ [Next]_vars => Carried'
<1> SUFFICES ASSUME RxTypes /\ WireTypes /\ HistoryTypes /\ InFlight /\ Carried, [Next]_vars
             PROVE  Carried'
  OBVIOUS
<1>1. ASSUME NEW h \in Handler, Connect(h) PROVE Carried'
  BY <1>1, RxShape DEF Connect, Carried
<1>2. ASSUME NEW h \in Handler, SessionHandler(h) PROVE Carried'
  BY <1>2, RxShape DEF SessionHandler, Cache!Reset, Carried, wire, history
<1>3. ASSUME NEW h \in Handler, Subscribe(h) PROVE Carried'
  BY <1>3, RxShape DEF Subscribe, Carried, wire, history
<1>4. ASSUME NEW e \in Entity, NEW id \in PacketId, NEW kind \in Kind, Send(e, id, kind)
      PROVE  Carried'
  <2> DEFINE p == [cmd |-> commands + 1, entity |-> e, id |-> id, kind |-> kind, dup |-> FALSE]
  <2>1. rx' = [at |-> "begin", packet |-> p] /\ commands' = commands + 1 /\ commands \in Nat
    BY <1>4 DEF Send, Arrive, WireTypes
  <2>2. inflight' = IF kind = "qos1" THEN inflight \cup {p} ELSE inflight
    BY <1>4 DEF Send
  <2>3. \A q \in inflight : q.cmd # commands + 1
    BY <2>1 DEF InFlight
  <2>4. \A q \in inflight' : q.cmd = p.cmd => q = p
    BY <2>2, <2>3
  <2> QED BY <2>1, <2>2, <2>4 DEF Carried, Copies
<1>5. ASSUME NEW p \in inflight, Resend(p) PROVE Carried'
  <2>1. p \in Packet /\ p.kind = "qos1" /\ p.cmd <= commands
    BY <1>5 DEF WireTypes, InFlight
  <2> DEFINE q == [p EXCEPT !.dup = TRUE]
  <2>2. rx' = [at |-> "begin", packet |-> q] /\ commands' = commands /\ inflight' = inflight
    BY <1>5 DEF Resend, Arrive
  <2>3. q.cmd = p.cmd /\ q.entity = p.entity /\ q.id = p.id /\ q.kind = p.kind
    BY <2>1 DEF Packet
  <2>4. \A r \in inflight : r.cmd = p.cmd => r = p
    BY <1>5 DEF InFlight
  <2> HIDE DEF q
  <2> QED BY <1>5, <2>1, <2>2, <2>3, <2>4 DEF Carried, Copies
<1>6. ASSUME NEW p \in inflight, Acknowledge(p) PROVE Carried'
  BY <1>6, RxShape DEF Acknowledge, Carried
<1>7. CASE Begin
  <2>1. CASE Goto("accept") /\ rx.packet.kind # "big"
    BY <1>7, <2>1, GotoKeeps DEF Begin, Carried, Place, Idle, wire
  <2>2. CASE rx' = Idle
    BY <2>2 DEF Carried
  <2> QED BY <1>7, <2>1, <2>2 DEF Begin
<1>8. CASE Accept
  <2>0. rx # Idle /\ rx.packet \in Packet
    BY <1>8, RxShape DEF Accept
  <2>1. CASE rx' = Idle
    BY <2>1 DEF Carried
  <2>2. CASE rx.packet.kind = "qos0" /\ Goto("enqueue")
    BY <1>8, <2>0, <2>2, GotoKeeps DEF Accept, Carried, Place, wire
  <2>3. CASE rx.packet.kind \notin {"qos0", "retained"} /\ Goto("dedupe")
    BY <1>8, <2>0, <2>3, GotoKeeps DEF Accept, Carried, Place, wire, Packet, Kind
  <2> QED BY <1>8, <2>1, <2>2, <2>3 DEF Accept
<1>9. ASSUME NEW admitted \in BOOLEAN, Dedupe(admitted) PROVE Carried'
  <2>1. CASE Goto("enqueue") /\ passed' = passed \cup {rx.packet.cmd}
    BY <1>9, <2>1, GotoKeeps DEF Dedupe, Carried, Place, Idle, wire
  <2>2. CASE rx' = Idle
    BY <2>2 DEF Carried
  <2> QED BY <1>9, <2>1, <2>2 DEF Dedupe
<1>10. CASE Enqueue
  BY <1>10, RxShape DEF Enqueue, Push, Carried
<1>11. ASSUME NEW e \in Entity, Take(e) PROVE Carried'
  BY <1>11, RxShape DEF Take, Carried, wire, history
<1>12. CASE Cancel
  BY <1>12, RxShape DEF Cancel, Carried, wire, history
<1>13. CASE StopAccepting
  BY <1>13, RxShape DEF StopAccepting, Carried, wire, history
<1>14. CASE Shutdown
  BY <1>14, RxShape DEF Shutdown, Carried, wire, history
<1>15. CASE UNCHANGED vars
  BY <1>15 DEF Carried, wire, history, vars
<1> QED
  BY <1>1, <1>2, <1>3, <1>4, <1>5, <1>6, <1>7, <1>8, <1>9, <1>10, <1>11, <1>12, <1>13, <1>14,
     <1>15 DEF Next, Callback

\* Only a callback that is past the check when the context is cancelled queues late.
LEMMA LateStep == RxTypes /\ LateOnce /\ FlagTypes /\ HistoryTypes /\ [Next]_vars => LateOnce'
<1> SUFFICES ASSUME RxTypes /\ LateOnce /\ FlagTypes /\ HistoryTypes, [Next]_vars PROVE LateOnce'
  OBVIOUS
<1>1. ASSUME NEW h \in Handler, Connect(h) PROVE LateOnce'
  BY <1>1 DEF Connect, LateOnce, flags
<1>2. ASSUME NEW h \in Handler, SessionHandler(h) PROVE LateOnce'
  BY <1>2 DEF SessionHandler, Cache!Reset, LateOnce, flags, history
<1>3. ASSUME NEW h \in Handler, Subscribe(h) PROVE LateOnce'
  BY <1>3 DEF Subscribe, LateOnce, flags, history
<1>4. ASSUME NEW e \in Entity, NEW id \in PacketId, NEW kind \in Kind, Send(e, id, kind)
      PROVE  LateOnce'
  BY <1>4 DEF Send, Arrive, LateOnce, flags, history
<1>5. ASSUME NEW p \in inflight, Resend(p) PROVE LateOnce'
  BY <1>5 DEF Resend, Arrive, LateOnce, flags, history
<1>6. ASSUME NEW p \in inflight, Acknowledge(p) PROVE LateOnce'
  BY <1>6 DEF Acknowledge, LateOnce, flags, history
<1>7. CASE Begin
  <2>1. rx'.at \in {"accept", "idle"}
    BY <1>7, GotoKeeps DEF Begin, Idle, Place
  <2> QED BY <1>7, <2>1 DEF Begin, LateOnce, flags, history
<1>8. CASE Accept
  <2>1. Open \/ rx'.at = "idle"
    BY <1>8 DEF Accept, Idle
  <2> QED BY <1>8, <2>1 DEF Accept, Open, LateOnce, flags
<1>9. ASSUME NEW admitted \in BOOLEAN, Dedupe(admitted) PROVE LateOnce'
  BY <1>9 DEF Dedupe, LateOnce
<1>10. CASE Enqueue
  <2>1. rx'.at = "idle" /\ lateQueued = 0 /\ cancelled' = cancelled
    BY <1>10 DEF Enqueue, LateOnce, Idle, flags
  <2>2. lateQueued' = lateQueued \/ (cancelled /\ lateQueued' = lateQueued + 1)
    BY <1>10 DEF Enqueue, Push
  <2> QED BY <2>1, <2>2 DEF LateOnce
<1>11. ASSUME NEW e \in Entity, Take(e) PROVE LateOnce'
  BY <1>11 DEF Take, LateOnce, flags, history
<1>12. CASE Cancel
  BY <1>12 DEF Cancel, LateOnce, history
<1>13. CASE StopAccepting
  BY <1>13 DEF StopAccepting, LateOnce, history
<1>14. CASE Shutdown
  BY <1>14 DEF Shutdown, LateOnce, history
<1>15. CASE UNCHANGED vars
  BY <1>15 DEF LateOnce, flags, history, vars
<1> QED
  BY <1>1, <1>2, <1>3, <1>4, <1>5, <1>6, <1>7, <1>8, <1>9, <1>10, <1>11, <1>12, <1>13, <1>14,
     <1>15 DEF Next, Callback
\* Whether or not connections overlap, every step keeps the base invariant.
LEMMA BaseStep == Base /\ [Next]_vars => Base'
BY TypeParts, FlagStep, RxStep, QueueStep, FilterTypes, WireStep, HistoryStep, InFlightStep,
   CarriedStep, LateStep, TypePartsNext DEF Base

\* The base invariant holds initially.
LEMMA BaseInit == Init => Base
<1> SUFFICES ASSUME Init PROVE Base
  OBVIOUS
<1>1. FlagTypes /\ RxTypes /\ WireTypes /\ HistoryTypes
  <2>1. /\ connections \in 0..MaxConnections /\ commands \in 0..MaxCommands
        /\ deliveries \in 0..MaxDeliveries
    BY IntakeAssumption DEF Init
  <2>2. enqueued \in [Command -> Nat] /\ lateQueued \in Nat
    BY DEF Init
  <2> QED BY <2>1, <2>2 DEF Init, FlagTypes, RxTypes, WireTypes, HistoryTypes
<1>2. QueueTypes
  <2>1. Len(<< >>) = 0 /\ << >> \in Seq(Command)
    OBVIOUS
  <2>2. \A e \in Entity : queue[e] = << >>
    BY DEF Init
  <2>3. \A e \in Entity : Len(queue[e]) <= Capacity
    <3>1. \A e \in Entity : Len(queue[e]) = 0
      BY <2>1, <2>2, Zenon
    <3>2. 0 <= Capacity
      BY IntakeAssumption
    <3> QED BY <3>1, <3>2, Zenon
  <2> QED BY <2>1, <2>3 DEF Init, QueueTypes
<1>3. Cache!TypeOK /\ Listed
  <2>1. Len(<< >>) = 0 /\ << >> \in Seq(Cache!Entry)
    OBVIOUS
  <2>2. Len(dedupeOrder) = 0 /\ dedupeSeq = 0 /\ dedupeOrder \in Seq(Cache!Entry)
    BY <2>1 DEF Init, Cache!Init
  <2>3. DOMAIN dedupe = {} /\ dedupe \in [DOMAIN dedupe -> 1..MaxDeliveries]
    BY DEF Init, Cache!Init
  <2> QED BY <2>2, <2>3, IntakeAssumption DEF Cache!TypeOK, Listed
<1>4. InFlight /\ Carried /\ LateOnce
  BY DEF Init, InFlight, Carried, LateOnce
<1> QED BY <1>1, <1>2, <1>3, <1>4, TypeParts DEF Base

\* Without overlapping connections, every step keeps what the filter's
\* entries mean.
LEMMA SessionStep == Base /\ Session /\ Sequential /\ Sequential' /\ [Next]_vars => Session'
<1> SUFFICES ASSUME Base /\ Session /\ Sequential /\ Sequential', [Next]_vars PROVE Session'
  OBVIOUS
<1> USE TypeParts DEF Base
<1>1. ASSUME NEW h \in Handler, Connect(h) PROVE Session'
  <2>1. handler'[h] = "session"
    BY <1>1 DEF Connect, FlagTypes
  <2>2. \A g \in Handler : handler'[g] # "subscribe"
    BY <2>1 DEF Sequential
  <2>3. Quiet'
    BY <1>1, <2>2 DEF Connect, Quiet
  <2> QED BY <2>3 DEF Session
<1>2. ASSUME NEW h \in Handler, SessionHandler(h) PROVE Session'
  <2>1. Quiet /\ \A g \in Handler \ {h} : handler[g] = "idle"
    BY <1>2 DEF SessionHandler, Session, Sequential
  <2>2. \A g \in Handler : handler'[g] # "session"
    BY <1>2, <2>1 DEF SessionHandler, FlagTypes
  <2>3. CASE clientOpen
    <3>1. DOMAIN dedupe' = {}
      BY <1>2, <2>3 DEF SessionHandler, Cache!Reset
    <3> QED BY <2>2, <3>1 DEF Session, Known
  <2>4. CASE ~clientOpen
    <3>1. \A g \in Handler : handler'[g] # "subscribe"
      BY <1>2, <2>1, <2>4 DEF SessionHandler, FlagTypes
    <3>2. Quiet'
      BY <1>2, <2>1, <3>1 DEF SessionHandler, Quiet, history
    <3> QED BY <2>2, <3>2 DEF Session
  <2> QED BY <2>3, <2>4
<1>3. ASSUME NEW h \in Handler, Subscribe(h) PROVE Session'
  <2>1. Known /\ \A g \in Handler \ {h} : handler[g] = "idle"
    BY <1>3 DEF Subscribe, Session, Quiet, Sequential
  <2>2. \A g \in Handler : handler'[g] # "session"
    BY <1>3, <2>1 DEF Subscribe, FlagTypes
  <2>3. Known'
    BY <1>3, <2>1 DEF Subscribe, Known, Pending, Barred, At, Open, flags, filter, wire, history
  <2> QED BY <2>2, <2>3 DEF Session
<1>4. ASSUME NEW e \in Entity, NEW id \in PacketId, NEW kind \in Kind, Send(e, id, kind)
      PROVE  Session'
  <2>p. PICK p : p = [cmd |-> commands + 1, entity |-> e, id |-> id, kind |-> kind, dup |-> FALSE]
    OBVIOUS
  <2>0. /\ Known /\ rx = Idle
        /\ \A g \in Handler : handler[g] # "session" /\ handler'[g] # "session"
    BY <1>4 DEF Send, Arrive, network, Session, Quiet
  <2>1. /\ rx'.at = "begin" /\ rx'.packet = p
        /\ UNCHANGED <<dedupe, passed, clientOpen, accepting, cancelled>>
    BY <1>4, <2>p DEF Send, Arrive, filter, flags, history
  <2>2. ASSUME NEW q \in inflight PROVE ~Pending(q) /\ (Barred(q) => Barred(q)')
    BY <2>0, <2>1 DEF Pending, Barred, At, Open
  <2>3. Pending(p)'
    BY <2>p, <2>1 DEF Pending, Copies, Idle
  <2>4. inflight' \subseteq inflight \cup {p}
    BY <1>4, <2>p DEF Send
  <2>5. Known'
    BY <2>0, <2>1, <2>2, <2>3, <2>4 DEF Known
  <2> QED BY <2>0, <2>5 DEF Session
<1>5. ASSUME NEW p \in inflight, Resend(p) PROVE Session'
  <2>0. /\ Known /\ rx = Idle
        /\ \A g \in Handler : handler[g] # "session" /\ handler'[g] # "session"
    BY <1>5 DEF Resend, Arrive, network, Session, Quiet
  <2>1. /\ rx'.at = "begin" /\ rx'.packet = [p EXCEPT !.dup = TRUE]
        /\ UNCHANGED <<dedupe, passed, clientOpen, accepting, cancelled>>
    BY <1>5 DEF Resend, Arrive, filter, flags, history
  <2>2. ASSUME NEW q \in inflight PROVE ~Pending(q) /\ (Barred(q) => Barred(q)')
    BY <2>0, <2>1 DEF Pending, Barred, At, Open
  <2>3. inflight' = inflight
    BY <1>5 DEF Resend
  <2>4. Known'
    BY <2>0, <2>1, <2>2, <2>3 DEF Known
  <2> QED BY <2>0, <2>4 DEF Session
<1>6. ASSUME NEW p \in inflight, Acknowledge(p) PROVE Session'
  BY <1>6 DEF Acknowledge, Session, Quiet, Known, Pending, Barred, At, Open, flags, network,
     history, filter
<1>7. CASE Begin
  <2>0. Known /\ \A g \in Handler : handler[g] # "session"
    BY <1>7, RxShape DEF Begin, Session, Quiet
  <2>1. /\ UNCHANGED <<inflight, dedupe, passed, clientOpen, accepting, cancelled>>
        /\ rx # Idle /\ rx.at = "begin"
        /\ (clientOpen /\ rx'.at = "accept" /\ rx' # Idle /\ rx'.packet = rx.packet)
           \/ (~clientOpen /\ rx'.at = "idle") \/ (rx.packet.kind = "big" /\ rx'.at = "idle")
    BY <1>7, RxShape, GotoKeeps DEF Begin, flags, filter, wire, history, Idle, Place
  <2>2. ASSUME NEW q \in inflight, Pending(q) PROVE Pending(q)' \/ Barred(q)'
    <3>1. rx.packet.kind # "big"
      BY <2>2 DEF Pending, Copies, InFlight
    <3> QED BY <2>1, <2>2, <3>1 DEF Pending, Barred, At
  <2>3. ASSUME NEW q \in inflight, Barred(q) PROVE Barred(q)'
    BY <2>1, <2>3 DEF Barred, At, Open
  <2>8. Known'
    BY <2>0, <2>1, <2>2, <2>3 DEF Known
  <2>9. \A g \in Handler : handler'[g] # "session"
    BY <1>7, <2>0 DEF Begin, network
  <2> QED BY <2>8, <2>9 DEF Session
<1>8. CASE Accept
  <2>0. Known /\ \A g \in Handler : handler[g] # "session"
    BY <1>8, RxShape DEF Accept, Session, Quiet
  <2>1. /\ UNCHANGED <<inflight, dedupe, clientOpen, accepting, cancelled>>
        /\ passed \subseteq passed'
        /\ rx # Idle /\ rx.at = "accept"
        /\ \/ /\ Open /\ rx'.at \in {"dedupe", "enqueue"} /\ rx' # Idle /\ rx'.packet = rx.packet
           \/ ~Open /\ rx'.at = "idle"
           \/ rx.packet.kind = "retained" /\ rx'.at = "idle"
    BY <1>8, RxShape, GotoKeeps DEF Accept, flags, filter, wire, Idle, Place
  <2>2. ASSUME NEW q \in inflight, Pending(q) PROVE Pending(q)' \/ Barred(q)'
    <3>1. rx.packet.kind # "retained"
      BY <2>2 DEF Pending, Copies, InFlight
    <3> QED BY <2>1, <2>2, <3>1 DEF Pending, Barred, At, Open
  <2>3. ASSUME NEW q \in inflight, Barred(q) PROVE Barred(q)'
    BY <2>1, <2>3 DEF Barred, At, Open
  <2>8. Known'
    BY <2>0, <2>1, <2>2, <2>3 DEF Known
  <2>9. \A g \in Handler : handler'[g] # "session"
    BY <1>8, <2>0 DEF Accept, network
  <2> QED BY <2>8, <2>9 DEF Session
<1>9. ASSUME NEW admitted \in BOOLEAN, Dedupe(admitted) PROVE Session'
  <2>0. Known /\ \A g \in Handler : handler[g] # "session"
    BY <1>9, RxShape DEF Dedupe, Session, Quiet
  <2> DEFINE k == <<rx.packet.entity, rx.packet.id>>
  <2>1. /\ UNCHANGED <<inflight, clientOpen, accepting, cancelled>>
        /\ rx # Idle /\ rx.at = "dedupe" /\ rx'.at \in {"enqueue", "idle"}
    BY <1>9, RxShape, GotoKeeps DEF Dedupe, flags, wire, Idle, Place
  <2>2. ASSUME NEW q \in inflight, Barred(q) PROVE Barred(q)'
    BY <2>1, <2>2 DEF Barred, At, Open
  <2>3. ASSUME admitted PROVE Known'
    <3>1. passed' = passed \cup {rx.packet.cmd} /\ Cache!Admit(k, rx.packet.dup)
      BY <1>9, <2>3 DEF Dedupe, Judge
    <3>2. rx.packet.dup \in BOOLEAN /\ k \in Key
      BY <2>1, RxShape, RxCommand DEF Packet
    <3>3. DOMAIN dedupe' \subseteq DOMAIN dedupe \cup {k}
      BY <3>1, <3>2, FilterStep DEF Listed
    <3>4. ASSUME NEW q \in inflight, <<q.entity, q.id>> = k PROVE q.cmd \in passed'
      <4>1. PICK r \in inflight : Copies(rx.packet, r)
        BY <2>1 DEF Carried
      <4>2. r = q
        BY <3>4, <4>1 DEF Copies, InFlight
      <4> QED BY <3>1, <4>1, <4>2 DEF Copies
    <3>5. ASSUME NEW q \in inflight, Pending(q) PROVE q.cmd \in passed'
      BY <3>1, <3>5 DEF Pending, Copies
    <3> HIDE DEF k
    <3> QED BY <2>0, <2>1, <2>2, <3>1, <3>3, <3>4, <3>5 DEF Known
  <2>4. ASSUME ~admitted PROVE Known'
    <3>1. passed' = passed /\ rx.packet.dup /\ dedupe' = dedupe
      BY <1>9, <2>4 DEF Dedupe, Judge, Cache!Refuse, Cache!Repeated
    <3>2. \A q \in inflight : ~Pending(q)
      BY <3>1 DEF Pending
    <3> QED BY <2>0, <2>1, <2>2, <3>1, <3>2 DEF Known
  <2>8. Known'
    BY <2>3, <2>4
  <2>9. \A g \in Handler : handler'[g] # "session"
    BY <1>9, <2>0 DEF Dedupe, network
  <2> QED BY <2>8, <2>9 DEF Session
<1>10. CASE Enqueue
  <2>0. Known /\ \A g \in Handler : handler[g] # "session"
    BY <1>10, RxShape DEF Enqueue, Session, Quiet
  <2>1. /\ UNCHANGED <<inflight, dedupe, passed, clientOpen, accepting, cancelled>>
        /\ rx # Idle /\ rx.at = "enqueue" /\ rx'.at = "idle"
    BY <1>10, RxShape DEF Enqueue, flags, filter, wire, Idle
  <2>2. ASSUME NEW q \in inflight, Barred(q) PROVE Barred(q)'
    BY <2>1, <2>2 DEF Barred, At, Open
  <2>3. ASSUME NEW q \in inflight, Pending(q) PROVE q.cmd \in passed
    BY <2>1, <2>3 DEF Pending, Copies, Carried
  <2>8. Known'
    BY <2>0, <2>1, <2>2, <2>3 DEF Known
  <2>9. \A g \in Handler : handler'[g] # "session"
    BY <1>10, <2>0 DEF Enqueue, network
  <2> QED BY <2>8, <2>9 DEF Session
<1>11. ASSUME NEW e \in Entity, Take(e) PROVE Session'
  BY <1>11 DEF Take, Session, Quiet, Known, Pending, Barred, At, Open, flags, network, wire,
     history, filter
<1>12. CASE Cancel
  BY <1>12 DEF Cancel, Session, Quiet, Known, Pending, Barred, At, Open, network, wire, history,
     filter
<1>13. CASE StopAccepting
  BY <1>13 DEF StopAccepting, Session, Quiet, Known, Pending, Barred, At, Open, network, wire,
     history, filter
<1>14. CASE Shutdown
  BY <1>14 DEF Shutdown, Session, Quiet, Known, Pending, Barred, At, Open, network, wire,
     history, filter
<1>15. CASE UNCHANGED vars
  BY <1>15 DEF Session, Quiet, Known, Pending, Barred, At, Open, flags, network, wire, history,
     filter, vars
<1> QED
  BY <1>1, <1>2, <1>3, <1>4, <1>5, <1>6, <1>7, <1>8, <1>9, <1>10, <1>11, <1>12, <1>13, <1>14,
     <1>15 DEF Next, Callback
\* Without overlapping connections, a refused packet belongs to a command that
\* was let pass: the filter knows its key, and its first copy is neither still
\* on its way nor dropped before the filter.
LEMMA RefusedStep == Base /\ Session /\ RefusedWasPassed /\ [Next]_vars => RefusedWasPassed'
<1> SUFFICES ASSUME Base, Session, RefusedWasPassed, [Next]_vars PROVE RefusedWasPassed'
  OBVIOUS
<1> USE TypeParts DEF Base
<1>1. ASSUME Dedupe(FALSE) PROVE rx.packet.cmd \in passed
  <2>1. rx # Idle /\ rx.at = "dedupe"
    BY <1>1, RxShape DEF Dedupe
  <2>2. rx.packet.dup /\ <<rx.packet.entity, rx.packet.id>> \in DOMAIN dedupe
    BY <1>1 DEF Dedupe, Judge, Cache!Refuse, Cache!Repeated, Cache!Seen
  <2>3. PICK q \in inflight : Copies(rx.packet, q)
    BY <2>1 DEF Carried
  <2>4. Known
    BY <2>1 DEF Session, Quiet
  <2>5. ~Pending(q) /\ ~Barred(q)
    BY <2>1, <2>2, <2>3 DEF Pending, Barred, At
  <2> QED BY <2>2, <2>3, <2>4, <2>5 DEF Known, Copies
<1>2. ASSUME NEW admitted \in BOOLEAN, Dedupe(admitted) PROVE RefusedWasPassed'
  <2>1. CASE admitted
    BY <1>2, <2>1 DEF Dedupe, RefusedWasPassed
  <2>2. CASE admitted = FALSE
    <3>1. Dedupe(FALSE)
      BY <1>2, <2>2
    <3>2. refused' = refused \cup {rx.packet.cmd} /\ passed' = passed
      BY <3>1 DEF Dedupe
    <3> QED BY <1>1, <3>1, <3>2 DEF RefusedWasPassed
  <2> QED BY <2>1, <2>2
<1>3. CASE Accept
  BY <1>3 DEF Accept, RefusedWasPassed
<1>4. ASSUME NEW h \in Handler, Connect(h) PROVE RefusedWasPassed'
  BY <1>4 DEF Connect, RefusedWasPassed
<1>5. CASE UNCHANGED <<passed, refused>>
  BY <1>5 DEF RefusedWasPassed
<1>6. UNCHANGED <<passed, refused>> \/ Accept \/ (\E admitted \in BOOLEAN : Dedupe(admitted))
      \/ (\E h \in Handler : Connect(h))
  BY DEF Next, Callback, SessionHandler, Subscribe, Send, Resend, Arrive, Acknowledge, Begin,
         Enqueue, Take, Cancel, StopAccepting, Shutdown, history, vars
<1> QED BY <1>2, <1>3, <1>4, <1>5, <1>6

\* As long as nothing is evicted, the filter remembers every command in
\* flight that it let pass.
LEMMA RememberedStep ==
    Base /\ Session /\ Remembered /\ Sequential /\ WithinCache' /\ [Next]_vars => Remembered'
<1> SUFFICES ASSUME Base /\ Session /\ Remembered /\ Sequential /\ WithinCache', [Next]_vars
             PROVE  Remembered'
  OBVIOUS
<1> USE TypeParts DEF Base
<1>1. ASSUME NEW h \in Handler, Connect(h) PROVE Remembered'
  BY <1>1 DEF Connect, Remembered
<1>2. ASSUME NEW h \in Handler, SessionHandler(h) PROVE Remembered'
  <2>1. passed = {} /\ rx = Idle
    BY <1>2 DEF SessionHandler, Session, Quiet
  <2> QED BY <1>2, <2>1 DEF SessionHandler, Remembered, Idle, history, wire
<1>3. ASSUME NEW h \in Handler, Subscribe(h) PROVE Remembered'
  BY <1>3 DEF Subscribe, Remembered, wire, history, filter
<1>4. ASSUME NEW e \in Entity, NEW id \in PacketId, NEW kind \in Kind, Send(e, id, kind)
      PROVE  Remembered'
  <2>p. PICK p : p = [cmd |-> commands + 1, entity |-> e, id |-> id, kind |-> kind, dup |-> FALSE]
    OBVIOUS
  <2>1. /\ rx' = [at |-> "begin", packet |-> p] /\ inflight' \subseteq inflight \cup {p}
        /\ commands' = commands + 1 /\ commands \in Nat /\ UNCHANGED <<passed, dedupe>>
    BY <1>4, <2>p DEF Send, Arrive, filter, history, WireTypes
  <2>2. p.cmd \notin passed
    BY <2>p, <2>1 DEF Remembered
  <2>3. \A n \in passed : n <= commands'
    BY <2>1 DEF Remembered, HistoryTypes, Command
  <2> QED BY <2>1, <2>2, <2>3 DEF Remembered
<1>5. ASSUME NEW p \in inflight, Resend(p) PROVE Remembered'
  <2>1. p \in Packet /\ rx'.packet.dup
    BY <1>5 DEF Resend, Arrive, WireTypes, Packet
  <2> QED BY <1>5, <2>1 DEF Resend, Arrive, Remembered, filter, history
<1>6. ASSUME NEW p \in inflight, Acknowledge(p) PROVE Remembered'
  BY <1>6 DEF Acknowledge, Remembered, filter, history
<1>7. CASE Begin
  <2>1. rx'.at = "idle" \/ (rx'.at = "accept" /\ rx'.packet = rx.packet)
    BY <1>7, GotoKeeps DEF Begin, Idle, Place
  <2> QED BY <1>7, <2>1 DEF Begin, Remembered, filter, wire, history
<1>8. CASE Accept
  <2>0. rx # Idle
    BY <1>8, RxShape DEF Accept
  <2>1. CASE rx.packet.kind = "qos0" /\ rx'.at = "enqueue" /\ passed' = passed \cup {rx.packet.cmd}
    <3>1. \A q \in inflight : q.cmd # rx.packet.cmd
      BY <2>0, <2>1 DEF Carried, InFlight, Copies
    <3>2. rx.packet.cmd <= commands
      BY <2>0 DEF Carried
    <3> QED BY <1>8, <2>1, <3>1, <3>2 DEF Accept, Remembered, filter, wire
  <2>2. CASE rx'.at = "dedupe" /\ rx'.packet = rx.packet /\ passed' = passed
    BY <1>8, <2>2 DEF Accept, Remembered, filter, wire
  <2>3. CASE rx'.at = "idle" /\ passed' = passed
    BY <1>8, <2>3 DEF Accept, Remembered, filter, wire
  <2> QED BY <1>8, <2>1, <2>2, <2>3, GotoKeeps DEF Accept, Idle, Place
<1>9. ASSUME NEW admitted \in BOOLEAN, Dedupe(admitted) PROVE Remembered'
  <2> DEFINE k == <<rx.packet.entity, rx.packet.id>>
  <2>0. /\ rx # Idle /\ rx.packet.cmd <= commands /\ inflight' = inflight /\ commands' = commands
        /\ rx'.at \in {"enqueue", "idle"}
    BY <1>9, RxShape, GotoKeeps DEF Dedupe, Carried, wire, Idle, Place
  <2>1. CASE admitted
    <3>1. passed' = passed \cup {rx.packet.cmd} /\ Cache!Admit(k, rx.packet.dup)
      BY <1>9, <2>1 DEF Dedupe, Judge
    <3>2. rx.packet.dup \in BOOLEAN /\ k \in Key
      BY <2>0, RxShape, RxCommand DEF Packet
    <3>3. DOMAIN dedupe' = DOMAIN dedupe \cup {k}
      BY <3>1, <3>2, FilterStep DEF Listed, WithinCache
    <3>4. \A q \in inflight : q.cmd = rx.packet.cmd => <<q.entity, q.id>> = k
      BY <2>0 DEF Carried, Copies
    <3> HIDE DEF k
    <3> QED BY <2>0, <3>1, <3>3, <3>4 DEF Remembered
  <2>2. CASE admitted = FALSE
    <3>1. passed' = passed /\ dedupe' = dedupe
      BY <1>9, <2>2 DEF Dedupe, Judge, Cache!Refuse
    <3> QED BY <2>0, <3>1 DEF Remembered
  <2> QED BY <2>1, <2>2
<1>10. CASE Enqueue
  BY <1>10 DEF Enqueue, Remembered, filter, wire, Idle
<1>11. ASSUME NEW e \in Entity, Take(e) PROVE Remembered'
  BY <1>11 DEF Take, Remembered, wire, history, filter
<1>12. CASE Cancel
  BY <1>12 DEF Cancel, Remembered, wire, history, filter
<1>13. CASE StopAccepting
  BY <1>13 DEF StopAccepting, Remembered, wire, history, filter
<1>14. CASE Shutdown
  BY <1>14 DEF Shutdown, Remembered, wire, history, filter
<1>15. CASE UNCHANGED vars
  BY <1>15 DEF Remembered, wire, history, filter, vars
<1> QED
  BY <1>1, <1>2, <1>3, <1>4, <1>5, <1>6, <1>7, <1>8, <1>9, <1>10, <1>11, <1>12, <1>13, <1>14,
     <1>15 DEF Next, Callback

\* As long as nothing is evicted, a command about to be queued was not queued.
LEMMA QueuedStep == Base /\ Remembered /\ QueuedOnce /\ [Next]_vars => QueuedOnce'
<1> SUFFICES ASSUME Base /\ Remembered /\ QueuedOnce, [Next]_vars PROVE QueuedOnce'
  OBVIOUS
<1> USE TypeParts DEF Base
<1>1. ASSUME NEW h \in Handler, Connect(h) PROVE QueuedOnce'
  BY <1>1 DEF Connect, QueuedOnce, AtMostOncePerConnection, Idle
<1>2. ASSUME NEW h \in Handler, SessionHandler(h) PROVE QueuedOnce'
  BY <1>2 DEF SessionHandler, Cache!Reset, QueuedOnce, AtMostOncePerConnection, history
<1>3. ASSUME NEW h \in Handler, Subscribe(h) PROVE QueuedOnce'
  BY <1>3 DEF Subscribe, QueuedOnce, AtMostOncePerConnection, history
<1>4. ASSUME NEW e \in Entity, NEW id \in PacketId, NEW kind \in Kind, Send(e, id, kind)
      PROVE  QueuedOnce'
  BY <1>4 DEF Send, Arrive, QueuedOnce, AtMostOncePerConnection, history
<1>5. ASSUME NEW p \in inflight, Resend(p) PROVE QueuedOnce'
  BY <1>5 DEF Resend, Arrive, QueuedOnce, AtMostOncePerConnection, history
<1>6. ASSUME NEW p \in inflight, Acknowledge(p) PROVE QueuedOnce'
  BY <1>6 DEF Acknowledge, QueuedOnce, AtMostOncePerConnection, history
<1>7. CASE Begin
  <2>1. rx'.at \in {"accept", "idle"}
    BY <1>7, GotoKeeps DEF Begin, Idle, Place
  <2> QED BY <1>7, <2>1 DEF Begin, QueuedOnce, AtMostOncePerConnection, history
<1>8. CASE Accept
  <2>0. rx # Idle /\ rx.packet \in Packet /\ rx.packet.cmd \in Command
    BY <1>8, RxShape, RxCommand DEF Accept
  <2>1. CASE rx.packet.kind = "qos0" /\ rx'.at = "enqueue" /\ rx'.packet = rx.packet
    <3>1. rx.packet.cmd \notin passed
      BY <1>8, <2>0, <2>1 DEF Accept, Carried, Remembered
    <3>2. enqueued[rx.packet.cmd] = 0
      BY <2>0, <3>1 DEF QueuedOnce, HistoryTypes
    <3> QED BY <1>8, <2>1, <3>2 DEF Accept, QueuedOnce, AtMostOncePerConnection
  <2>2. CASE rx'.at \in {"dedupe", "idle"}
    BY <1>8, <2>2 DEF Accept, QueuedOnce, AtMostOncePerConnection
  <2> QED BY <1>8, <2>1, <2>2, GotoKeeps DEF Accept, Idle, Place
<1>9. ASSUME NEW admitted \in BOOLEAN, Dedupe(admitted) PROVE QueuedOnce'
  <2>0. rx # Idle /\ rx.packet \in Packet /\ rx.packet.cmd \in Command /\ rx.at = "dedupe"
    BY <1>9, RxShape, RxCommand DEF Dedupe
  <2>1. CASE admitted
    <3>1. ~Cache!Repeated(<<rx.packet.entity, rx.packet.id>>, rx.packet.dup)
      BY <1>9, <2>1 DEF Dedupe, Judge, Cache!Admit
    <3>2. rx.packet.cmd \notin passed
      <4>1. PICK q \in inflight : Copies(rx.packet, q)
        BY <2>0 DEF Carried
      <4>2. CASE rx.packet.dup
        BY <3>1, <4>1, <4>2 DEF Cache!Repeated, Cache!Seen, Copies, Remembered
      <4>3. CASE ~rx.packet.dup
        BY <2>0, <4>3 DEF Remembered
      <4> QED BY <4>2, <4>3
    <3>3. enqueued[rx.packet.cmd] = 0
      BY <2>0, <3>2 DEF QueuedOnce, HistoryTypes
    <3>4. rx'.at = "enqueue" /\ rx'.packet = rx.packet
      BY <1>9, <2>1, GotoKeeps DEF Dedupe, Place
    <3> QED BY <1>9, <2>1, <3>3, <3>4 DEF Dedupe, QueuedOnce, AtMostOncePerConnection
  <2>2. CASE admitted = FALSE
    BY <1>9, <2>2 DEF Dedupe, QueuedOnce, AtMostOncePerConnection, Idle
  <2> QED BY <2>1, <2>2
<1>10. CASE Enqueue
  <2> DEFINE n == rx.packet.cmd
  <2>0. /\ n \in Command /\ n \in passed /\ enqueued[n] = 0 /\ rx'.at = "idle"
        /\ passed' = passed
    BY <1>10, RxShape, RxCommand DEF Enqueue, Carried, QueuedOnce, Idle
  <2>1. CASE HasRoom(rx.packet.entity)
    <3>1. enqueued' = [enqueued EXCEPT ![n] = enqueued[n] + 1]
      BY <1>10, <2>1 DEF Enqueue, Push
    <3> HIDE DEF n
    <3>2. enqueued'[n] = 1 /\ \A m \in Command \ {n} : enqueued'[m] = enqueued[m]
      BY <2>0, <3>1 DEF HistoryTypes
    <3> QED BY <2>0, <3>2 DEF QueuedOnce, AtMostOncePerConnection
  <2>2. CASE ~HasRoom(rx.packet.entity)
    BY <1>10, <2>0, <2>2 DEF Enqueue, Push, QueuedOnce, AtMostOncePerConnection
  <2> QED BY <2>1, <2>2
<1>11. ASSUME NEW e \in Entity, Take(e) PROVE QueuedOnce'
  BY <1>11 DEF Take, QueuedOnce, AtMostOncePerConnection, history
<1>12. CASE Cancel
  BY <1>12 DEF Cancel, QueuedOnce, AtMostOncePerConnection, history
<1>13. CASE StopAccepting
  BY <1>13 DEF StopAccepting, QueuedOnce, AtMostOncePerConnection, history
<1>14. CASE Shutdown
  BY <1>14 DEF Shutdown, QueuedOnce, AtMostOncePerConnection, history
<1>15. CASE UNCHANGED vars
  BY <1>15 DEF QueuedOnce, AtMostOncePerConnection, history, vars
<1> QED
  BY <1>1, <1>2, <1>3, <1>4, <1>5, <1>6, <1>7, <1>8, <1>9, <1>10, <1>11, <1>12, <1>13, <1>14,
     <1>15 DEF Next, Callback

-----------------------------------------------------------------------------
(* Results *)

\* The base invariant, for any number of overlapping connections.
THEOREM BaseInvariant == Spec => []Base
<1>1. Base /\ [Next]_vars => Base'
  BY BaseStep
<1> QED BY <1>1, BaseInit, PTL DEF Spec

\* Types and bounds of the intake: in particular no queue of an entity ever
\* holds more than EntityQueueCapacity commands, and the duplicate filter
\* never more than DuplicateCacheSize entries.
THEOREM TypeCorrect == Spec => []TypeOK
<1>1. Base => TypeOK
  BY DEF Base
<1> QED BY <1>1, BaseInvariant, PTL

\* After the context is cancelled at most one command still enters a queue,
\* whatever the broker sends and however connections overlap: acceptMessage
\* looks at the context once, and only one callback can be past that look.
THEOREM OneAfterCancel == Spec => []AtMostOneAfterCancel
<1>1. Base => AtMostOneAfterCancel
  BY DEF Base, LateOnce, AtMostOneAfterCancel
<1> QED BY <1>1, BaseInvariant, PTL

\* While connect goroutines do not overlap, acceptMessage refuses as a
\* duplicate only copies of a command it has let pass in this connection, for
\* every cache size: neither a reused identifier nor an entry of an earlier
\* connection costs a command.
THEOREM RefusalJustified == Spec /\ []Sequential => []RefusedWasPassed
<1> DEFINE J == Base /\ Session /\ RefusedWasPassed
<1>1. Init => J
  BY BaseInit DEF Init, Session, Known, RefusedWasPassed
<1>2. J /\ Sequential /\ Sequential' /\ [Next]_vars => J'
  BY BaseStep, SessionStep, RefusedStep
<1>3. J => RefusedWasPassed
  OBVIOUS
<1> QED BY <1>1, <1>2, <1>3, PTL DEF Spec

\* While connect goroutines do not overlap and a connection admits no more
\* packets than the cache has entries, no command is queued twice in one
\* connection, however often the broker sends it again.
THEOREM QueuedAtMostOnce ==
    Spec /\ []Sequential /\ []WithinCache => []AtMostOncePerConnection
<1> DEFINE J == Base /\ Session /\ Remembered /\ QueuedOnce
<1>1. Init => J
  <2>1. ASSUME Init PROVE Session /\ Remembered
    BY <2>1 DEF Init, Session, Known, Remembered
  <2>2. ASSUME Init PROVE QueuedOnce
    BY <2>2 DEF Init, QueuedOnce, AtMostOncePerConnection, Idle
  <2> QED BY <2>1, <2>2, BaseInit
<1>2. J /\ Sequential /\ Sequential' /\ WithinCache' /\ [Next]_vars => J'
  BY BaseStep, SessionStep, RememberedStep, QueuedStep
<1>3. J => AtMostOncePerConnection
  BY DEF QueuedOnce
<1> QED BY <1>1, <1>2, <1>3, PTL DEF Spec

====

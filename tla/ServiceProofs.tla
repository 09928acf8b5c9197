------------------------------ MODULE ServiceProofs ------------------------------
(***************************************************************************)
(* Proofs about Service, for any workers, connect goroutines, lines and    *)
(* quality of service, and any number of connections.                      *)
(***************************************************************************)
EXTENDS Service, TLAPS

\* What run() and the connection have to do with each other: before the first
\* connection nobody is at work, outputs are open from the start to the end, and
\* the connection is given up only when run() is about to leave.
Phase ==
    /\ main \in {"outputs", "connect"} => connections = 0
    /\ connections = 0 =>
          /\ link \in {"never", "off"} /\ out = << >>
          /\ \A h \in Handler : handler[h] = "idle"
          /\ \A w \in Worker : worker[w] # "acting"
    /\ main = "offline" => connections > 0
    /\ link = "off" => main \in {"gpio", "exited"}
    /\ main = "exited" => link = "off"
    /\ main \notin {"outputs", "gpio", "exited"} => Output \subseteq open

\* What has been closed to newcomers, and who is known to have left.
Stopped ==
    /\ main \in {"shutdown", "joining", "closing", "offline", "gpio"} => ~clientOpen
    /\ main \in {"joining", "closing", "offline", "gpio"} => ~accepting /\ cancelled
    /\ main \in {"closing", "offline", "gpio"} => wg = {}
    /\ main \in {"offline", "gpio"} => callbacks = {}

\* Everybody at work is counted.
Counted ==
    /\ \A w \in Worker : worker[w] # "exited" => w \in wg
    /\ \A h \in Handler : handler[h] = "states" => h \in wg
    /\ \A h \in Handler : handler[h] \in {"subscribe", "online", "states"} => h \in callbacks
    /\ \A i \in Input : input[i] = "publishing" => i \in wg

\* Who holds a line is at work, and the line is open.  Nobody holds one while
\* run() opens inputs or takes them back.
Holding ==
    \A u \in Worker \cup Handler :
        /\ held[u] # {} =>
              \/ u \in Worker /\ worker[u] = "acting"
              \/ u \in Handler /\ handler[u] = "states"
        /\ held[u] \subseteq open
        /\ main \in {"outputs", "connect", "inputs", "rollback"} => held[u] = {}

\* The status as the broker has it or will have it: a connection that is not up
\* leaves "offline" or the will, a publication of QoS 0 does not survive a loss,
\* and once Close has published nothing comes after its "offline".
Farewelled ==
    /\ will => link \in {"lost", "off"}
    /\ link # "up" => will \/ status # "online"
    /\ qos = 0 /\ link \in {"never", "lost"} => out = << >>
    /\ main = "offline" =>
          IF out = << >> THEN link = "up" => status # "online"
          ELSE out[Len(out)].value = "offline"

\* The inductive invariant.
IInv == TypeOK /\ Phase /\ Stopped /\ Counted /\ Holding /\ Farewelled /\ LinesReleased

-----------------------------------------------------------------------------

\* The inductive invariant holds when run() starts.
LEMMA InitIInv == Init => IInv
<1> SUFFICES ASSUME Init PROVE IInv
  OBVIOUS
<1>1. TypeOK
  <2>1. connections \in 0..MaxConnections /\ out \in Seq(Message)
    BY ServiceAssumption DEF Init
  <2> QED
    BY <2>1, ServiceAssumption DEF Init, TypeOK, Line
<1>2. Phase /\ Stopped /\ Counted /\ Holding /\ Farewelled /\ LinesReleased
  BY ServiceAssumption DEF Init, Phase, Stopped, Counted, Holding, Farewelled, LinesReleased
<1> QED
  BY <1>1, <1>2 DEF IInv

\* Every action keeps the types.
LEMMA TypeStep == IInv /\ [Next]_vars => TypeOK'
<1> SUFFICES ASSUME IInv, [Next]_vars PROVE TypeOK'
  OBVIOUS
<1>1. CASE UNCHANGED vars
  BY <1>1 DEF IInv, TypeOK, vars, flags, counts, mqtt, users
<1>2. ASSUME NEW l \in Line, OpenOutput(l) PROVE TypeOK'
  BY <1>2 DEF IInv, TypeOK, flags, counts, mqtt, users, OpenOutput
<1>3. ASSUME NEW l \in Line, OpenInput(l) PROVE TypeOK'
  BY <1>3 DEF IInv, TypeOK, flags, counts, mqtt, users, OpenInput
<1>4. ASSUME NEW l \in Line, RollbackInput(l) PROVE TypeOK'
  BY <1>4 DEF IInv, TypeOK, flags, counts, mqtt, users, RollbackInput
<1>5. ASSUME NEW l \in Line, CloseLine(l) PROVE TypeOK'
  BY <1>5 DEF IInv, TypeOK, flags, counts, mqtt, users, CloseLine
<1>6. CASE OutputFails
  BY <1>6 DEF IInv, TypeOK, flags, counts, users, OutputFails, Exit, RolledBack
<1>7. CASE OutputsOpen
  BY <1>7 DEF IInv, TypeOK, flags, counts, mqtt, users, OutputsOpen
<1>8. ASSUME NEW h \in Handler, Connected(h) PROVE TypeOK'
  <2>1. connections' \in 0..MaxConnections
    BY <1>8, ServiceAssumption DEF IInv, TypeOK, Connected, Established
  <2> QED
    BY <1>8, <2>1 DEF IInv, TypeOK, flags, counts, Connected, Established
<1>9. CASE ConnectFails
  BY <1>9 DEF IInv, TypeOK, flags, counts, mqtt, users, ConnectFails
<1>10. CASE InputFails
  BY <1>10 DEF IInv, TypeOK, flags, counts, mqtt, users, InputFails
<1>11. CASE InputsOpen
  BY <1>11 DEF IInv, TypeOK, flags, counts, mqtt, users, InputsOpen
<1>12. CASE InputsFailed
  BY <1>12 DEF IInv, TypeOK, flags, counts, mqtt, users, InputsFailed
<1>13. CASE StatesPublished
  BY <1>13 DEF IInv, TypeOK, flags, counts, mqtt, users, StatesPublished
<1>14. CASE StopAccepting
  BY <1>14 DEF IInv, TypeOK, counts, mqtt, users, StopAccepting
<1>15. CASE Shutdown
  BY <1>15 DEF IInv, TypeOK, counts, mqtt, users, Shutdown
<1>16. CASE Joined
  BY <1>16 DEF IInv, TypeOK, flags, counts, mqtt, users, Joined
<1>17. CASE JoinTimeout
  BY <1>17 DEF IInv, TypeOK, flags, counts, users, JoinTimeout, Exit
<1>18. CASE NotConnected
  BY <1>18 DEF IInv, TypeOK, flags, counts, mqtt, users, NotConnected
<1>19. CASE PublishOffline
  <2>1. [who |-> "main", value |-> "offline"] \in Message
    BY DEF Message
  <2>2. out \in Seq(Message)
    BY DEF IInv, TypeOK
  <2>3. out' \in Seq(Message)
    BY <1>19, <2>1, <2>2 DEF PublishOffline, Farewell, Send
  <2> QED
    BY <1>19, <2>3 DEF IInv, TypeOK, flags, counts, users, PublishOffline
<1>20. CASE CloseTimeout
  BY <1>20 DEF IInv, TypeOK, flags, counts, users, CloseTimeout, Exit
<1>21. ASSUME NEW sent \in BOOLEAN, Disconnect(sent) PROVE TypeOK'
  <2>1. out \in Seq(Message)
    BY DEF IInv, TypeOK
  <2>2. out # << >> => out[Len(out)] \in Message
    BY <2>1
  <2>3. status' \in {"none", "online", "offline"}
    BY <1>21, <2>2 DEF IInv, TypeOK, Disconnect, Message
  <2>4. out' \in Seq(Message)
    BY <1>21 DEF Disconnect
  <2> QED
    BY <1>21, <2>3, <2>4 DEF IInv, TypeOK, flags, counts, users, Disconnect
<1>22. CASE Closed
  BY <1>22 DEF IInv, TypeOK, flags, counts, users, Closed, Exit
<1>23. CASE Signal
  BY <1>23 DEF IInv, TypeOK, counts, mqtt, users, Signal
<1>24. CASE Expire
  BY <1>24 DEF IInv, TypeOK, flags, counts, mqtt, users, Expire
<1>25. CASE Lost
  BY <1>25 DEF IInv, TypeOK, flags, counts, users, Lost
<1>26. CASE Will
  BY <1>26 DEF IInv, TypeOK, flags, counts, users, Will
<1>27. CASE BrokerHandles
  <2>1. out \in Seq(Message) /\ out # << >>
    BY <1>27 DEF IInv, TypeOK, BrokerHandles
  <2>2. Head(out) \in Message /\ Tail(out) \in Seq(Message)
    BY <2>1
  <2>3. out' \in Seq(Message) /\ status' \in {"none", "online", "offline"}
    BY <1>27, <2>1, <2>2 DEF BrokerHandles, Message
  <2> QED
    BY <1>27, <2>3 DEF IInv, TypeOK, flags, counts, users, BrokerHandles
<1>28. ASSUME NEW h \in Handler, Reconnect(h) PROVE TypeOK'
  <2>1. connections' \in 0..MaxConnections
    BY <1>28, ServiceAssumption DEF IInv, TypeOK, Reconnect, Established
  <2> QED
    BY <1>28, <2>1 DEF IInv, TypeOK, flags, counts, Reconnect, Established
<1>29. ASSUME NEW h \in Handler, BeginConnect(h) PROVE TypeOK'
  BY <1>29 DEF IInv, TypeOK, flags, mqtt, BeginConnect
<1>30. ASSUME NEW h \in Handler, Online(h) PROVE TypeOK'
  <2>1. [who |-> h, value |-> Available] \in Message
    BY DEF Available, Message
  <2>2. out \in Seq(Message)
    BY DEF IInv, TypeOK
  <2>3. out' \in Seq(Message)
    BY <1>30, <2>1, <2>2 DEF Online, Send
  <2> QED
    BY <1>30, <2>3 DEF IInv, TypeOK, flags, counts, Online
<1>31. ASSUME NEW h \in Handler, OnlineDone(h) PROVE TypeOK'
  BY <1>31 DEF IInv, TypeOK, flags, mqtt, OnlineDone
<1>32. ASSUME NEW h \in Handler, EndConnect(h) PROVE TypeOK'
  BY <1>32 DEF IInv, TypeOK, flags, mqtt, EndConnect
<1>33. CASE BeginMessage
  BY <1>33 DEF IInv, TypeOK, flags, mqtt, users, BeginMessage
<1>34. CASE EndMessage
  BY <1>34 DEF IInv, TypeOK, flags, mqtt, users, EndMessage
<1>35. ASSUME NEW w \in Worker, Act(w) PROVE TypeOK'
  BY <1>35 DEF IInv, TypeOK, flags, counts, mqtt, Act
<1>36. ASSUME NEW w \in Worker, EndAct(w) PROVE TypeOK'
  BY <1>36 DEF IInv, TypeOK, flags, mqtt, EndAct
<1>37. ASSUME NEW u \in Worker \cup Handler, NEW l \in Line, LookUp(u, l) PROVE TypeOK'
  BY <1>37 DEF IInv, TypeOK, flags, counts, mqtt, LookUp
<1>38. ASSUME NEW i \in Input, BeginInput(i) PROVE TypeOK'
  BY <1>38 DEF IInv, TypeOK, flags, mqtt, BeginInput
<1>39. ASSUME NEW i \in Input, EndInput(i) PROVE TypeOK'
  BY <1>39 DEF IInv, TypeOK, flags, mqtt, EndInput
<1> QED
  BY <1>1, <1>2, <1>3, <1>4, <1>5, <1>6, <1>7, <1>8, <1>9, <1>10, <1>11, <1>12, <1>13, <1>14,
     <1>15, <1>16, <1>17, <1>18, <1>19, <1>20, <1>21, <1>22, <1>23, <1>24, <1>25, <1>26, <1>27,
     <1>28, <1>29, <1>30, <1>31, <1>32, <1>33, <1>34, <1>35, <1>36, <1>37, <1>38, <1>39 DEF Next,
     Main, ConnectHandler

\* Connections begin and end where run() says.
LEMMA PhaseStep == IInv /\ [Next]_vars => Phase'
<1> SUFFICES ASSUME IInv, [Next]_vars PROVE Phase'
  OBVIOUS
<1>1. CASE UNCHANGED vars
  BY <1>1 DEF IInv, Phase, vars, mqtt, users
<1>2. ASSUME NEW l \in Line, OpenOutput(l) PROVE Phase'
  BY <1>2 DEF IInv, Phase, mqtt, users, OpenOutput
<1>3. ASSUME NEW l \in Line, OpenInput(l) PROVE Phase'
  BY <1>3 DEF IInv, Phase, mqtt, users, OpenInput
<1>4. ASSUME NEW l \in Line, RollbackInput(l) PROVE Phase'
  BY <1>4, ServiceAssumption DEF IInv, Phase, mqtt, users, RollbackInput
<1>5. ASSUME NEW l \in Line, CloseLine(l) PROVE Phase'
  BY <1>5 DEF IInv, Phase, mqtt, users, CloseLine
<1>6. CASE OutputFails
  BY <1>6 DEF IInv, Phase, users, OutputFails, Exit
<1>7. CASE OutputsOpen
  BY <1>7 DEF IInv, Phase, mqtt, users, OutputsOpen
<1>8. ASSUME NEW h \in Handler, Connected(h) PROVE Phase'
  BY <1>8 DEF IInv, Phase, Connected, Established
<1>9. CASE ConnectFails
  BY <1>9 DEF IInv, Phase, mqtt, users, ConnectFails
<1>10. CASE InputFails
  BY <1>10 DEF IInv, Phase, mqtt, users, InputFails
<1>11. CASE InputsOpen
  BY <1>11 DEF IInv, Phase, mqtt, users, InputsOpen
<1>12. CASE InputsFailed
  BY <1>12 DEF IInv, Phase, mqtt, users, InputsFailed
<1>13. CASE StatesPublished
  BY <1>13 DEF IInv, Phase, mqtt, users, StatesPublished
<1>14. CASE StopAccepting
  BY <1>14 DEF IInv, Phase, mqtt, users, StopAccepting
<1>15. CASE Shutdown
  BY <1>15 DEF IInv, Phase, mqtt, users, Shutdown
<1>16. CASE Joined
  BY <1>16 DEF IInv, Phase, mqtt, users, Joined, WorkersDone
<1>17. CASE JoinTimeout
  BY <1>17 DEF IInv, Phase, users, JoinTimeout, Exit
<1>18. CASE NotConnected
  BY <1>18 DEF IInv, Phase, mqtt, users, NotConnected
<1>19. CASE PublishOffline
  BY <1>19 DEF IInv, TypeOK, Phase, PublishOffline, CallbacksDone, IsConnected
<1>20. CASE CloseTimeout
  BY <1>20 DEF IInv, Phase, users, CloseTimeout, Exit
<1>21. ASSUME NEW sent \in BOOLEAN, Disconnect(sent) PROVE Phase'
  BY <1>21 DEF IInv, Phase, Disconnect
<1>22. CASE Closed
  BY <1>22 DEF IInv, Phase, users, Closed, Exit
<1>23. CASE Lost
  BY <1>23 DEF IInv, Phase, Lost
<1>24. CASE BrokerHandles
  BY <1>24 DEF IInv, Phase, BrokerHandles
<1>25. ASSUME NEW h \in Handler, Reconnect(h) PROVE Phase'
  BY <1>25 DEF IInv, TypeOK, Phase, Reconnect, Established
<1>26. ASSUME NEW h \in Handler, BeginConnect(h) PROVE Phase'
  BY <1>26 DEF IInv, Phase, mqtt, BeginConnect
<1>27. ASSUME NEW h \in Handler, Online(h) PROVE Phase'
  BY <1>27 DEF IInv, Phase, Online
<1>28. ASSUME NEW h \in Handler, OnlineDone(h) PROVE Phase'
  BY <1>28 DEF IInv, Phase, mqtt, OnlineDone
<1>29. ASSUME NEW h \in Handler, EndConnect(h) PROVE Phase'
  BY <1>29 DEF IInv, Phase, mqtt, EndConnect
<1>30. ASSUME NEW w \in Worker, Act(w) PROVE Phase'
  BY <1>30 DEF IInv, TypeOK, Phase, mqtt, Act, Alive
<1>31. ASSUME NEW w \in Worker, EndAct(w) PROVE Phase'
  BY <1>31 DEF IInv, TypeOK, Phase, mqtt, EndAct
<1>32. CASE Signal \/ Expire \/ Will \/ BeginMessage \/ EndMessage
  BY <1>32 DEF IInv, Phase, mqtt, users, Signal, Expire, Will, BeginMessage, EndMessage
<1>33. ASSUME NEW u \in Worker \cup Handler, NEW l \in Line, LookUp(u, l) PROVE Phase'
  BY <1>33 DEF IInv, Phase, mqtt, LookUp
<1>34. ASSUME NEW i \in Input, BeginInput(i) \/ EndInput(i) PROVE Phase'
  BY <1>34 DEF IInv, Phase, mqtt, BeginInput, EndInput
<1> QED
  BY <1>1, <1>2, <1>3, <1>4, <1>5, <1>6, <1>7, <1>8, <1>9, <1>10, <1>11, <1>12, <1>13, <1>14,
     <1>15, <1>16, <1>17, <1>18, <1>19, <1>20, <1>21, <1>22, <1>23, <1>24, <1>25, <1>26, <1>27,
     <1>28, <1>29, <1>30, <1>31, <1>32, <1>33, <1>34 DEF Next, Main, ConnectHandler

\* What shutdownService has closed stays closed, and a wait that succeeded stays true.
LEMMA StoppedStep == IInv /\ [Next]_vars => Stopped'
<1> SUFFICES ASSUME IInv, [Next]_vars PROVE Stopped'
  OBVIOUS
<1>1. CASE UNCHANGED vars
  BY <1>1 DEF IInv, Stopped, vars, flags, counts
<1>2. CASE OutputFails
  BY <1>2 DEF IInv, Stopped, OutputFails, Exit
<1>3. CASE OutputsOpen
  BY <1>3 DEF IInv, Stopped, OutputsOpen
<1>4. ASSUME NEW h \in Handler, Connected(h) PROVE Stopped'
  BY <1>4 DEF IInv, Stopped, Connected
<1>5. CASE ConnectFails
  BY <1>5 DEF IInv, Stopped, ConnectFails
<1>6. CASE InputFails
  BY <1>6 DEF IInv, Stopped, InputFails
<1>7. CASE InputsOpen
  BY <1>7 DEF IInv, Stopped, InputsOpen
<1>8. CASE InputsFailed
  BY <1>8 DEF IInv, Stopped, InputsFailed
<1>9. CASE StatesPublished
  BY <1>9 DEF IInv, Stopped, StatesPublished
<1>10. CASE StopAccepting
  BY <1>10 DEF IInv, Stopped, StopAccepting
<1>11. CASE Shutdown
  BY <1>11 DEF IInv, Stopped, Shutdown
<1>12. CASE Joined
  BY <1>12 DEF IInv, Stopped, flags, counts, Joined, WorkersDone
<1>13. CASE JoinTimeout
  BY <1>13 DEF IInv, Stopped, JoinTimeout, Exit
<1>14. CASE NotConnected
  BY <1>14 DEF IInv, Stopped, flags, counts, NotConnected, CallbacksDone
<1>15. CASE PublishOffline
  BY <1>15 DEF IInv, Stopped, flags, counts, PublishOffline, CallbacksDone
<1>16. CASE CloseTimeout
  BY <1>16 DEF IInv, Stopped, CloseTimeout, Exit
<1>17. ASSUME NEW sent \in BOOLEAN, Disconnect(sent) PROVE Stopped'
  BY <1>17 DEF IInv, Stopped, flags, counts, Disconnect
<1>18. CASE Closed
  BY <1>18 DEF IInv, Stopped, Closed, Exit
<1>19. CASE Signal
  BY <1>19 DEF IInv, Stopped, Signal
<1>20. ASSUME NEW h \in Handler, BeginConnect(h) PROVE Stopped'
  BY <1>20 DEF IInv, Stopped, flags, BeginConnect, Admitted
<1>21. ASSUME NEW h \in Handler, OnlineDone(h) PROVE Stopped'
  BY <1>21 DEF IInv, Stopped, flags, OnlineDone
<1>22. ASSUME NEW h \in Handler, EndConnect(h) PROVE Stopped'
  BY <1>22 DEF IInv, Stopped, flags, EndConnect
<1>23. CASE BeginMessage
  BY <1>23 DEF IInv, Stopped, BeginMessage, Admitted
<1>24. CASE EndMessage
  BY <1>24 DEF IInv, Stopped, flags, EndMessage
<1>25. ASSUME NEW w \in Worker, EndAct(w) PROVE Stopped'
  BY <1>25 DEF IInv, Stopped, flags, EndAct
<1>26. ASSUME NEW i \in Input, BeginInput(i) PROVE Stopped'
  BY <1>26 DEF IInv, Stopped, flags, BeginInput
<1>27. ASSUME NEW i \in Input, EndInput(i) PROVE Stopped'
  BY <1>27 DEF IInv, Stopped, flags, EndInput
<1>28. CASE Expire \/ Lost \/ Will \/ BrokerHandles
  BY <1>28 DEF IInv, Stopped, flags, counts, Expire, Lost, Will, BrokerHandles
<1>29. ASSUME NEW l \in Line, OpenOutput(l) \/ OpenInput(l) \/ RollbackInput(l) \/ CloseLine(l)
       PROVE  Stopped'
  BY <1>29 DEF IInv, Stopped, flags, counts, OpenOutput, OpenInput, RollbackInput, CloseLine
<1>30. ASSUME NEW h \in Handler, Reconnect(h) \/ Online(h) PROVE Stopped'
  BY <1>30 DEF IInv, Stopped, flags, counts, Reconnect, Online
<1>31. ASSUME NEW w \in Worker, Act(w) PROVE Stopped'
  BY <1>31 DEF IInv, Stopped, flags, counts, Act
<1>32. ASSUME NEW u \in Worker \cup Handler, NEW l \in Line, LookUp(u, l) PROVE Stopped'
  BY <1>32 DEF IInv, Stopped, flags, counts, LookUp
<1> QED
  BY <1>1, <1>2, <1>3, <1>4, <1>5, <1>6, <1>7, <1>8, <1>9, <1>10, <1>11, <1>12, <1>13, <1>14,
     <1>15, <1>16, <1>17, <1>18, <1>19, <1>20, <1>21, <1>22, <1>23, <1>24, <1>25, <1>26, <1>27,
     <1>28, <1>29, <1>30, <1>31, <1>32 DEF Next, Main, ConnectHandler

\* Whoever starts is counted first, and leaves the count last.
LEMMA CountedStep == IInv /\ [Next]_vars => Counted'
<1> SUFFICES ASSUME IInv, [Next]_vars PROVE Counted'
  OBVIOUS
<1>1. CASE UNCHANGED vars
  BY <1>1 DEF IInv, Counted, vars, counts, users
<1>2. ASSUME NEW h \in Handler, Connected(h) PROVE Counted'
  BY <1>2 DEF IInv, Counted, counts, Connected, Established
<1>3. ASSUME NEW h \in Handler, Reconnect(h) PROVE Counted'
  BY <1>3 DEF IInv, Counted, counts, Reconnect, Established
<1>4. ASSUME NEW h \in Handler, BeginConnect(h) PROVE Counted'
  BY <1>4 DEF IInv, TypeOK, Counted, BeginConnect
<1>5. ASSUME NEW h \in Handler, Online(h) PROVE Counted'
  BY <1>5 DEF IInv, Counted, counts, Online
<1>6. ASSUME NEW h \in Handler, OnlineDone(h) PROVE Counted'
  <2>1. CASE accepting /\ ~cancelled
    BY <1>6, <2>1 DEF IInv, TypeOK, Counted, OnlineDone
  <2>2. CASE ~(accepting /\ ~cancelled)
    BY <1>6, <2>2 DEF IInv, TypeOK, Counted, OnlineDone
  <2> QED
    BY <2>1, <2>2
<1>7. ASSUME NEW h \in Handler, EndConnect(h) PROVE Counted'
  BY <1>7, ServiceAssumption DEF IInv, TypeOK, Counted, EndConnect
<1>8. CASE BeginMessage
  BY <1>8 DEF IInv, Counted, users, BeginMessage
<1>9. CASE EndMessage
  BY <1>9, ServiceAssumption DEF IInv, Counted, users, EndMessage
<1>10. ASSUME NEW w \in Worker, Act(w) PROVE Counted'
  BY <1>10 DEF IInv, Counted, counts, Act
<1>11. ASSUME NEW w \in Worker, EndAct(w) PROVE Counted'
  BY <1>11, ServiceAssumption DEF IInv, TypeOK, Counted, EndAct
<1>12. ASSUME NEW i \in Input, BeginInput(i) PROVE Counted'
  BY <1>12 DEF IInv, Counted, BeginInput
<1>13. ASSUME NEW i \in Input, EndInput(i) PROVE Counted'
  BY <1>13, ServiceAssumption DEF IInv, TypeOK, Counted, EndInput
<1>14. CASE \/ OutputFails \/ OutputsOpen \/ ConnectFails \/ InputFails \/ InputsOpen
            \/ InputsFailed \/ StatesPublished \/ StopAccepting \/ Shutdown \/ Joined
            \/ JoinTimeout \/ NotConnected \/ PublishOffline \/ CloseTimeout \/ Closed \/ Signal
            \/ Expire \/ Lost \/ Will \/ BrokerHandles
  BY <1>14 DEF IInv, Counted, counts, users, OutputFails, OutputsOpen, ConnectFails, InputFails,
     InputsOpen, InputsFailed, StatesPublished, StopAccepting, Shutdown, Joined, JoinTimeout,
     NotConnected, PublishOffline, CloseTimeout, Closed, Signal, Expire, Lost, Will, BrokerHandles
<1>15. ASSUME NEW l \in Line, OpenOutput(l) \/ OpenInput(l) \/ RollbackInput(l) \/ CloseLine(l)
       PROVE  Counted'
  BY <1>15 DEF IInv, Counted, counts, users, OpenOutput, OpenInput, RollbackInput, CloseLine
<1>16. ASSUME NEW u \in Worker \cup Handler, NEW l \in Line, LookUp(u, l) PROVE Counted'
  BY <1>16 DEF IInv, Counted, counts, LookUp
<1>17. ASSUME NEW sent \in BOOLEAN, Disconnect(sent) PROVE Counted'
  BY <1>17 DEF IInv, Counted, counts, users, Disconnect
<1> QED
  BY <1>1, <1>2, <1>3, <1>4, <1>5, <1>6, <1>7, <1>8, <1>9, <1>10, <1>11, <1>12, <1>13, <1>14,
     <1>15, <1>16, <1>17 DEF Next, Main, ConnectHandler

\* No step closes a line that is held.
LEMMA HoldingStep == IInv /\ [Next]_vars => Holding'
<1> SUFFICES ASSUME IInv, [Next]_vars PROVE Holding'
  OBVIOUS
<1>1. CASE UNCHANGED vars
  BY <1>1 DEF IInv, Holding, vars, users
<1>2. ASSUME NEW l \in Line, OpenOutput(l) PROVE Holding'
  BY <1>2 DEF IInv, Holding, users, OpenOutput
<1>3. ASSUME NEW l \in Line, OpenInput(l) PROVE Holding'
  BY <1>3 DEF IInv, Holding, users, OpenInput
<1>4. ASSUME NEW l \in Line, RollbackInput(l) PROVE Holding'
  BY <1>4 DEF IInv, Holding, users, RollbackInput
<1>5. ASSUME NEW l \in Line, CloseLine(l) PROVE Holding'
  BY <1>5 DEF IInv, Stopped, Counted, Holding, users, CloseLine
<1>6. CASE OutputFails
  BY <1>6 DEF IInv, Holding, users, OutputFails
<1>7. CASE OutputsOpen
  BY <1>7 DEF IInv, Holding, users, OutputsOpen
<1>8. ASSUME NEW h \in Handler, Connected(h) PROVE Holding'
  BY <1>8 DEF IInv, Holding, Connected
<1>9. CASE ConnectFails
  BY <1>9 DEF IInv, Holding, users, ConnectFails
<1>10. CASE InputFails
  BY <1>10 DEF IInv, Holding, users, InputFails
<1>11. CASE InputsOpen
  BY <1>11 DEF IInv, Holding, users, InputsOpen
<1>12. CASE InputsFailed
  BY <1>12 DEF IInv, Holding, users, InputsFailed
<1>13. CASE StatesPublished
  BY <1>13 DEF IInv, Holding, users, StatesPublished
<1>14. CASE StopAccepting
  BY <1>14 DEF IInv, Holding, users, StopAccepting
<1>15. CASE Shutdown
  BY <1>15 DEF IInv, Holding, users, Shutdown
<1>16. CASE Joined
  BY <1>16 DEF IInv, Holding, users, Joined
<1>17. CASE JoinTimeout
  BY <1>17 DEF IInv, Holding, users, JoinTimeout, Exit
<1>18. CASE NotConnected
  BY <1>18 DEF IInv, Holding, users, NotConnected
<1>19. CASE PublishOffline
  BY <1>19 DEF IInv, Holding, users, PublishOffline
<1>20. CASE CloseTimeout
  BY <1>20 DEF IInv, Holding, users, CloseTimeout, Exit
<1>21. ASSUME NEW sent \in BOOLEAN, Disconnect(sent) PROVE Holding'
  BY <1>21 DEF IInv, Holding, users, Disconnect
<1>22. CASE Closed
  BY <1>22 DEF IInv, Holding, users, Closed
<1>23. ASSUME NEW h \in Handler, Reconnect(h) PROVE Holding'
  BY <1>23 DEF IInv, Holding, Reconnect, Established
<1>24. ASSUME NEW h \in Handler, BeginConnect(h) PROVE Holding'
  BY <1>24 DEF IInv, TypeOK, Holding, BeginConnect
<1>25. ASSUME NEW h \in Handler, Online(h) PROVE Holding'
  BY <1>25 DEF IInv, Holding, Online
<1>26. ASSUME NEW h \in Handler, OnlineDone(h) PROVE Holding'
  BY <1>26 DEF IInv, TypeOK, Holding, OnlineDone
<1>27. ASSUME NEW h \in Handler, EndConnect(h) PROVE Holding'
  BY <1>27 DEF IInv, TypeOK, Holding, EndConnect
<1>28. ASSUME NEW w \in Worker, Act(w) PROVE Holding'
  BY <1>28 DEF IInv, Holding, Act
<1>29. ASSUME NEW w \in Worker, EndAct(w) PROVE Holding'
  BY <1>29 DEF IInv, TypeOK, Holding, EndAct
<1>30. ASSUME NEW u \in Worker \cup Handler, NEW l \in Line, LookUp(u, l) PROVE Holding'
  BY <1>30 DEF IInv, Phase, Holding, LookUp, GpioLocked
<1>31. CASE Signal \/ Expire \/ Lost \/ Will \/ BrokerHandles \/ BeginMessage \/ EndMessage
  BY <1>31 DEF IInv, Holding, users, Signal, Expire, Lost, Will, BrokerHandles, BeginMessage,
     EndMessage
<1>32. ASSUME NEW i \in Input, BeginInput(i) \/ EndInput(i) PROVE Holding'
  BY <1>32 DEF IInv, Holding, BeginInput, EndInput
<1> QED
  BY <1>1, <1>2, <1>3, <1>4, <1>5, <1>6, <1>7, <1>8, <1>9, <1>10, <1>11, <1>12, <1>13, <1>14,
     <1>15, <1>16, <1>17, <1>18, <1>19, <1>20, <1>21, <1>22, <1>23, <1>24, <1>25, <1>26, <1>27,
     <1>28, <1>29, <1>30, <1>31, <1>32 DEF Next, Main, ConnectHandler

\* No step lets "online" be the last word of a connection that is given up.
LEMMA FarewellStep == IInv /\ [Next]_vars => Farewelled'
<1> SUFFICES ASSUME IInv, [Next]_vars PROVE Farewelled'
  OBVIOUS
<1>1. CASE UNCHANGED vars
  BY <1>1 DEF IInv, Farewelled, vars, mqtt
<1>2. CASE OutputFails
  BY <1>2 DEF IInv, Farewelled, OutputFails, Exit
<1>3. CASE OutputsOpen
  BY <1>3 DEF IInv, Farewelled, mqtt, OutputsOpen
<1>4. ASSUME NEW h \in Handler, Connected(h) PROVE Farewelled'
  BY <1>4 DEF IInv, Farewelled, Connected, Established
<1>5. CASE ConnectFails
  BY <1>5 DEF IInv, Farewelled, mqtt, ConnectFails
<1>6. CASE InputFails
  BY <1>6 DEF IInv, Farewelled, mqtt, InputFails
<1>7. CASE InputsOpen
  BY <1>7 DEF IInv, Farewelled, mqtt, InputsOpen
<1>8. CASE InputsFailed
  BY <1>8 DEF IInv, Farewelled, mqtt, InputsFailed
<1>9. CASE StatesPublished
  BY <1>9 DEF IInv, Farewelled, mqtt, StatesPublished
<1>10. CASE StopAccepting
  BY <1>10 DEF IInv, Farewelled, mqtt, StopAccepting
<1>11. CASE Shutdown
  BY <1>11 DEF IInv, Farewelled, mqtt, Shutdown
<1>12. CASE Joined
  BY <1>12 DEF IInv, Farewelled, mqtt, Joined
<1>13. CASE JoinTimeout
  BY <1>13 DEF IInv, Farewelled, JoinTimeout, Exit
<1>14. CASE NotConnected
  BY <1>14 DEF IInv, Farewelled, mqtt, NotConnected
<1>15. CASE PublishOffline
  BY <1>15 DEF IInv, TypeOK, Farewelled, PublishOffline, Farewell, IsConnected, Send
<1>16. CASE CloseTimeout
  BY <1>16 DEF IInv, Farewelled, CloseTimeout, Exit
<1>17. ASSUME NEW sent \in BOOLEAN, Disconnect(sent) PROVE Farewelled'
  BY <1>17 DEF IInv, Farewelled, Disconnect
<1>18. CASE Closed
  BY <1>18 DEF IInv, Farewelled, Closed, Exit
<1>19. CASE Lost
  BY <1>19 DEF IInv, Farewelled, Lost
<1>20. CASE Will
  BY <1>20 DEF IInv, Farewelled, Will
<1>21. CASE BrokerHandles
  <2>1. out \in Seq(Message)
    BY DEF IInv, TypeOK
  <2>2. out # << >> /\ status' = Head(out).value /\ (out' = Tail(out) \/ out' = out)
    BY <1>21 DEF BrokerHandles
  <2>3. CASE out' = out
    BY <1>21, <2>3 DEF IInv, Farewelled, BrokerHandles
  <2>4. CASE out' = Tail(out) /\ out' # << >>
    <3>1. out'[Len(out')] = out[Len(out)]
      BY <2>1, <2>2, <2>4
    <3> QED
      BY <1>21, <2>4, <3>1 DEF IInv, Farewelled, BrokerHandles
  <2>5. CASE out' = Tail(out) /\ out' = << >>
    <3>1. Len(Tail(out)) = Len(out) - 1 /\ Head(out) = out[1] /\ Len(out) \in Nat
      BY <2>1, <2>2
    <3>2. Len(<< >>) = 0
      OBVIOUS
    <3>3. Len(Tail(out)) = Len(<< >>)
      BY <2>5, Zenon
    <3>4. Len(out) = 1
      BY <3>1, <3>2, <3>3
    <3> QED
      BY <1>21, <2>2, <2>5, <3>1, <3>4 DEF IInv, Farewelled, BrokerHandles
  <2> QED
    BY <2>2, <2>3, <2>4, <2>5
<1>22. ASSUME NEW h \in Handler, Reconnect(h) PROVE Farewelled'
  BY <1>22 DEF IInv, Farewelled, Reconnect, Established
<1>23. ASSUME NEW h \in Handler, Online(h) PROVE Farewelled'
  BY <1>23 DEF IInv, Stopped, Counted, Farewelled, Online, Send
<1>24. CASE Signal \/ Expire \/ BeginMessage \/ EndMessage
  BY <1>24 DEF IInv, Farewelled, mqtt, Signal, Expire, BeginMessage, EndMessage
<1>25. ASSUME NEW l \in Line, OpenOutput(l) \/ OpenInput(l) \/ RollbackInput(l) \/ CloseLine(l)
       PROVE  Farewelled'
  BY <1>25 DEF IInv, Farewelled, mqtt, OpenOutput, OpenInput, RollbackInput, CloseLine
<1>26. ASSUME NEW h \in Handler, BeginConnect(h) \/ OnlineDone(h) \/ EndConnect(h) PROVE Farewelled'
  BY <1>26 DEF IInv, Farewelled, mqtt, BeginConnect, OnlineDone, EndConnect
<1>27. ASSUME NEW w \in Worker, Act(w) \/ EndAct(w) PROVE Farewelled'
  BY <1>27 DEF IInv, Farewelled, mqtt, Act, EndAct
<1>28. ASSUME NEW u \in Worker \cup Handler, NEW l \in Line, LookUp(u, l) PROVE Farewelled'
  BY <1>28 DEF IInv, Farewelled, mqtt, LookUp
<1>29. ASSUME NEW i \in Input, BeginInput(i) \/ EndInput(i) PROVE Farewelled'
  BY <1>29 DEF IInv, Farewelled, mqtt, BeginInput, EndInput
<1> QED
  BY <1>1, <1>2, <1>3, <1>4, <1>5, <1>6, <1>7, <1>8, <1>9, <1>10, <1>11, <1>12, <1>13, <1>14,
     <1>15, <1>16, <1>17, <1>18, <1>19, <1>20, <1>21, <1>22, <1>23, <1>24, <1>25, <1>26, <1>27,
     <1>28, <1>29 DEF Next, Main, ConnectHandler

\* No step makes run() return with a line that is not released.
LEMMA ReleasedStep == IInv /\ [Next]_vars => LinesReleased'
<1> SUFFICES ASSUME IInv, [Next]_vars PROVE LinesReleased'
  OBVIOUS
<1>1. CASE UNCHANGED vars
  BY <1>1 DEF IInv, LinesReleased, vars, mqtt
<1>2. ASSUME NEW l \in Line, OpenOutput(l) PROVE LinesReleased'
  BY <1>2 DEF IInv, LinesReleased, OpenOutput
<1>3. ASSUME NEW l \in Line, OpenInput(l) PROVE LinesReleased'
  BY <1>3 DEF IInv, LinesReleased, OpenInput
<1>4. ASSUME NEW l \in Line, RollbackInput(l) PROVE LinesReleased'
  BY <1>4 DEF IInv, LinesReleased, RollbackInput
<1>5. ASSUME NEW l \in Line, CloseLine(l) PROVE LinesReleased'
  BY <1>5 DEF IInv, LinesReleased, CloseLine
<1>6. CASE OutputFails
  BY <1>6 DEF IInv, LinesReleased, OutputFails, RolledBack
<1>7. CASE OutputsOpen
  BY <1>7 DEF IInv, LinesReleased, OutputsOpen
<1>8. ASSUME NEW h \in Handler, Connected(h) PROVE LinesReleased'
  BY <1>8 DEF IInv, LinesReleased, Connected
<1>9. CASE ConnectFails
  BY <1>9 DEF IInv, LinesReleased, ConnectFails
<1>10. CASE InputFails
  BY <1>10 DEF IInv, LinesReleased, InputFails
<1>11. CASE InputsOpen
  BY <1>11 DEF IInv, LinesReleased, InputsOpen
<1>12. CASE InputsFailed
  BY <1>12 DEF IInv, LinesReleased, InputsFailed
<1>13. CASE StatesPublished
  BY <1>13 DEF IInv, LinesReleased, StatesPublished
<1>14. CASE StopAccepting
  BY <1>14 DEF IInv, LinesReleased, StopAccepting
<1>15. CASE Shutdown
  BY <1>15 DEF IInv, LinesReleased, Shutdown
<1>16. CASE Joined
  BY <1>16 DEF IInv, LinesReleased, Joined
<1>17. CASE JoinTimeout
  BY <1>17 DEF IInv, LinesReleased, JoinTimeout, Exit
<1>18. CASE NotConnected
  BY <1>18 DEF IInv, LinesReleased, NotConnected
<1>19. CASE PublishOffline
  BY <1>19 DEF IInv, LinesReleased, PublishOffline
<1>20. CASE CloseTimeout
  BY <1>20 DEF IInv, LinesReleased, CloseTimeout, Exit
<1>21. ASSUME NEW sent \in BOOLEAN, Disconnect(sent) PROVE LinesReleased'
  BY <1>21 DEF IInv, Phase, LinesReleased, Disconnect
<1>22. CASE Closed
  BY <1>22 DEF IInv, LinesReleased, Closed
<1>23. CASE Expire
  BY <1>23 DEF IInv, LinesReleased, Expire
<1>24. ASSUME NEW h \in Handler, Reconnect(h) PROVE LinesReleased'
  BY <1>24 DEF IInv, Phase, LinesReleased, Reconnect
<1>25. CASE Signal \/ Lost \/ Will \/ BrokerHandles \/ BeginMessage \/ EndMessage
  BY <1>25 DEF IInv, LinesReleased, mqtt, Signal, Lost, Will, BrokerHandles, BeginMessage,
     EndMessage
<1>26. ASSUME NEW h \in Handler, BeginConnect(h) \/ Online(h) \/ OnlineDone(h) \/ EndConnect(h)
       PROVE  LinesReleased'
  BY <1>26 DEF IInv, LinesReleased, mqtt, BeginConnect, Online, OnlineDone, EndConnect
<1>27. ASSUME NEW w \in Worker, Act(w) \/ EndAct(w) PROVE LinesReleased'
  BY <1>27 DEF IInv, LinesReleased, mqtt, Act, EndAct
<1>28. ASSUME NEW u \in Worker \cup Handler, NEW l \in Line, LookUp(u, l) PROVE LinesReleased'
  BY <1>28 DEF IInv, LinesReleased, mqtt, LookUp
<1>29. ASSUME NEW i \in Input, BeginInput(i) \/ EndInput(i) PROVE LinesReleased'
  BY <1>29 DEF IInv, LinesReleased, mqtt, BeginInput, EndInput
<1> QED
  BY <1>1, <1>2, <1>3, <1>4, <1>5, <1>6, <1>7, <1>8, <1>9, <1>10, <1>11, <1>12, <1>13, <1>14,
     <1>15, <1>16, <1>17, <1>18, <1>19, <1>20, <1>21, <1>22, <1>23, <1>24, <1>25, <1>26, <1>27,
     <1>28, <1>29 DEF Next, Main, ConnectHandler

-----------------------------------------------------------------------------
\* Every step keeps the inductive invariant.
LEMMA NextIInv == IInv /\ [Next]_vars => IInv'
BY TypeStep, PhaseStep, StoppedStep, CountedStep, HoldingStep, FarewellStep, ReleasedStep DEF IInv

\* The inductive invariant holds in every state of every behaviour.
THEOREM Invariant == Spec => []IInv
<1>1. Init => IInv
  BY InitIInv
<1>2. IInv /\ [Next]_vars => IInv'
  BY NextIInv
<1> QED
  BY <1>1, <1>2, PTL DEF Spec

\* Every variable of the service keeps its type; the only statuses that are
\* published are the two that Home Assistant was told of.
THEOREM TypeCorrect == Spec => []TypeOK
<1>1. IInv => TypeOK
  BY DEF IInv
<1> QED
  BY <1>1, Invariant, PTL

\* shutdownService closes neither MQTT nor a GPIO line under a worker, a connect
\* goroutine or an input callback that still uses it, for any number of them and
\* wherever the deadline strikes.
THEOREM OpenWhileUsed == Spec => []ResourcesOutliveUsers
<1>1. IInv => ResourcesOutliveUsers
  <2> SUFFICES ASSUME IInv, Alive PROVE ResourcesOutliveUsers
    BY DEF ResourcesOutliveUsers
  <2>1. Phase /\ Stopped /\ Counted /\ Holding
    BY DEF IInv
  <2>2. link = "off" => main = "gpio"
    BY <2>1 DEF Phase, Alive
  <2>3. \A u \in Worker \cup Handler : held[u] \subseteq open
    BY <2>1 DEF Holding
  <2>4. \A w \in Worker : worker[w] = "acting" => main \notin {"outputs", "gpio", "exited"}
    BY <2>1 DEF Phase, Stopped, Counted, Alive
  <2>5. \A h \in Handler : handler[h] = "states" => main \notin {"outputs", "gpio", "exited"}
    BY <2>1 DEF Phase, Stopped, Counted, Alive
  <2>6. \A i \in Input : input[i] = "publishing" => main # "gpio"
    BY <2>1 DEF Stopped, Counted
  <2>7. callbacks # {} => main # "gpio"
    BY <2>1 DEF Stopped
  <2>8. main \notin {"outputs", "gpio", "exited"} => Output \subseteq open
    BY <2>1 DEF Phase
  <2> QED
    BY <2>2, <2>3, <2>4, <2>5, <2>6, <2>7, <2>8 DEF ResourcesOutliveUsers
<1> QED
  BY <1>1, Invariant, PTL

\* When the process is gone the broker retains "offline" or still has the will
\* to publish, although connect goroutines, losses and reconnections interleave
\* with Close and every wait of Close may time out.
THEOREM OfflineAtTheEnd == Spec => []OfflineIsLast
<1>1. IInv => OfflineIsLast
  BY DEF IInv, Phase, Farewelled, OfflineIsLast
<1> QED
  BY <1>1, Invariant, PTL

\* A run() that returns nil, and a start that fails before the first connection
\* within the budget, have released every GPIO line.
THEOREM AllLinesReleased == Spec => []LinesReleased
<1>1. IInv => LinesReleased
  BY DEF IInv
<1> QED
  BY <1>1, Invariant, PTL
=============================================================================

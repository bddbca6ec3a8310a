------------------------ MODULE TunnelClientProofs -------------------------
(***************************************************************************)
(* Proofs, for any set of tunnels, of the safety properties of TunnelClient *)
(* and of its refinement of TunnelLifecycle.                               *)
(***************************************************************************)
EXTENDS TunnelClient, TLAPS

\* The steps of one attempt before login has been called.
Undialled == {"prepare", "lookup", "reset", "create", "dial"}

\* stop() has been called exactly when the client has left Idle, it has
\* nothing to close or shut before its sweep, and stop_async returns when
\* nothing of it is left.
StopProgress ==
  /\ client_state = "Idle" <=> stopper = "idle"
  /\ stopper \in {"idle", "sync", "async", "joined"} => toClose = {} /\ toShut = {}

\* What the position of a task says of its connection.
ConnMatchesTask ==
  \A t \in Tunnels :
    /\ pc[t] \in {"open", "send", "recv", "register"} \cup ServeSteps => conn[t] # "none"
    /\ pc[t] = "gate" => conn[t] # "none" \/ Quitting
    /\ pc[t] \in {"closed", "announce", "remove", "again"} => conn[t] = "closed"

\* An open connection is known to someone who will close it.
OpenIsKnown ==
  /\ \A t \in Tunnels : conn[t] = "open" =>
       \/ t \in connections \cup toClose
       \/ pc[t] \in LoginStages \cup {"gate", "register"}
       \/ pc[t] = "done" /\ t \in beating
  /\ listening \subseteq servers \cup toShut \cup terminated

\* A task that has posted Connecting after the stop will not dial again.
LateTasksEnd ==
  \A t \in Tunnels :
    late[t] = 0 \/ (late[t] = 1 /\ Quitting /\ pc[t] \notin Undialled)

\* What the position of a task says of the last state it has posted.
ShownMatchesTask ==
  \A t \in Tunnels :
    /\ pc[t] \in Undialled \cup {"failed", "clear", "retry"} =>
         shown[t] \in {"none", "Connecting", "Reconnecting"}
    /\ pc[t] \in LoginStages => shown[t] = "Connecting"
    /\ pc[t] = "gate" => shown[t] = "Connected" \/ Quitting
    /\ pc[t] \in {"register", "setup", "bind", "start"} => shown[t] = "Connected"
    /\ pc[t] = "tunnel" => shown[t] = "Tunneling"
    /\ pc[t] \in {"closed", "announce"} => shown[t] \in {"Connected", "Tunneling"}
    /\ pc[t] \in {"remove", "again"} => shown[t] = "Reconnecting" \/ Quitting

IInv ==
  /\ TypeOK /\ StopProgress /\ ConnMatchesTask /\ OpenIsKnown /\ LateTasksEnd
  /\ ShownMatchesTask /\ RetriesUntilStopped /\ RegistryMatchesTasks /\ TcpReceiverKept

\* The state in which start() spawns the tunnel tasks satisfies the inductive
\* invariant.
LEMMA InitIInv == Init => IInv
<1> SUFFICES ASSUME Init PROVE IInv
  OBVIOUS
<1> USE DEF Init
<1>1. TypeOK
  BY DEF TypeOK, Steps, States, LoginStages, ServeSteps
<1>2. StopProgress /\ OpenIsKnown /\ LateTasksEnd /\ TcpReceiverKept
  BY KindAssumption DEF StopProgress, OpenIsKnown, LateTasksEnd, TcpReceiverKept
<1>3. ConnMatchesTask /\ RetriesUntilStopped
  BY DEF ConnMatchesTask, RetriesUntilStopped, ServeSteps
<1>4. ShownMatchesTask /\ RegistryMatchesTasks
  BY DEF ShownMatchesTask, RegistryMatchesTasks, LoginStages, Registered, Undialled
<1> QED
  BY <1>1, <1>2, <1>3, <1>4 DEF IInv

\* Every step of a tunnel task, of its connection, of DNS and of stop_async
\* preserves the inductive invariant.
LEMMA NextIInv == IInv /\ [Next]_vars => IInv'
<1> SUFFICES ASSUME IInv, [Next]_vars PROVE IInv'
  OBVIOUS
<1> USE KindAssumption, FamilyAssumption DEF IInv, TypeOK, StopProgress, ConnMatchesTask,
     OpenIsKnown, LateTasksEnd, ShownMatchesTask, RetriesUntilStopped,
     RegistryMatchesTasks, TcpReceiverKept, Steps, States, LoginStages, ServeSteps,
     Registered, Undialled, Quitting, Swept, Goto, stopVars, dialVars, connVars, serverVars,
       showVars
<1>1. ASSUME NEW t \in Tunnels, Resolve(t) PROVE IInv'
  BY <1>1 DEF Resolve
<1>2. ASSUME NEW t \in Tunnels, ResolveFails(t) PROVE IInv'
  BY <1>2 DEF ResolveFails
<1>3. ASSUME NEW t \in Tunnels, LookupEndpoint(t) PROVE IInv'
  BY <1>3 DEF LookupEndpoint
<1>4. ASSUME NEW t \in Tunnels, ResetEndpoint(t) PROVE IInv'
  BY <1>4 DEF ResetEndpoint, ClearEndpointIfIdle, ResetsEndpoint, Idle
<1>5. ASSUME NEW t \in Tunnels, CreateEndpoint(t) PROVE IInv'
  BY <1>5 DEF CreateEndpoint
<1>6. ASSUME NEW t \in Tunnels, CreateFails(t) PROVE IInv'
  BY <1>6 DEF CreateFails, DropAddresses
<1>7. ASSUME NEW t \in Tunnels, Dial(t) PROVE IInv'
  BY <1>7 DEF Dial, CanDial, DropAddresses, Post
<1>8. ASSUME NEW t \in Tunnels, Handshake(t) PROVE IInv'
  BY <1>8 DEF Handshake
<1>9. ASSUME NEW t \in Tunnels, OpenLogin(t) PROVE IInv'
  BY <1>9 DEF OpenLogin
<1>10. ASSUME NEW t \in Tunnels, SendLogin(t) PROVE IInv'
  BY <1>10 DEF SendLogin
<1>11. ASSUME NEW t \in Tunnels, LoginDone(t) PROVE IInv'
  BY <1>11 DEF LoginDone, Post
<1>12. ASSUME NEW t \in Tunnels, StageFails(t) PROVE IInv'
  BY <1>12 DEF StageFails
<1>13. ASSUME NEW t \in Tunnels, CheckFailure(t) PROVE IInv'
  BY <1>13 DEF CheckFailure
<1>14. ASSUME NEW t \in Tunnels, ClearAfterFailure(t) PROVE IInv'
  BY <1>14 DEF ClearAfterFailure, ClearEndpointIfIdle, Idle
<1>15. ASSUME NEW t \in Tunnels, Retry(t) PROVE IInv'
  BY <1>15 DEF Retry
<1>16. ASSUME NEW t \in Tunnels, Gate(t) PROVE IInv'
  BY <1>16 DEF Gate, DropHandle
<1>17. ASSUME NEW t \in Tunnels, Register(t) PROVE IInv'
  BY <1>17 DEF Register
<1>18. ASSUME NEW t \in Tunnels, Setup(t) PROVE IInv'
  BY <1>18 DEF Setup, Post
<1>19. ASSUME NEW t \in Tunnels, Bind(t) PROVE IInv'
  BY <1>19 DEF Bind
<1>20. ASSUME NEW t \in Tunnels, BindFails(t) PROVE IInv'
  BY <1>20 DEF BindFails, EndTask
<1>21. ASSUME NEW t \in Tunnels, StartTcp(t) PROVE IInv'
  BY <1>21 DEF StartTcp, Post, EndTask
<1>22. ASSUME NEW t \in Tunnels, StartUdp(t) PROVE IInv'
  BY <1>22 DEF StartUdp, Post, EndTask
<1>23. ASSUME NEW t \in Tunnels, TaskReturns(t) PROVE IInv'
  BY <1>23 DEF TaskReturns, EndTask, DropReceiver
<1>24. ASSUME NEW t \in Tunnels, Cancelled(t) PROVE IInv'
  BY <1>24 DEF Cancelled, EndTask, DropReceiver
<1>25. ASSUME NEW t \in Tunnels, CancelledEarly(t) PROVE IInv'
  BY <1>25 DEF CancelledEarly, EndTask
<1>26. ASSUME NEW t \in Tunnels, CheckAnnounce(t) PROVE IInv'
  BY <1>26 DEF CheckAnnounce
<1>27. ASSUME NEW t \in Tunnels, Announce(t) PROVE IInv'
  BY <1>27 DEF Announce, Post
<1>28. ASSUME NEW t \in Tunnels, Unregister(t) PROVE IInv'
  BY <1>28 DEF Unregister
<1>29. ASSUME NEW t \in Tunnels, Again(t) PROVE IInv'
  BY <1>29 DEF Again
<1>30. ASSUME NEW t \in Tunnels, ConnLost(t) PROVE IInv'
  BY <1>30 DEF ConnLost
<1>31. ASSUME NEW t \in Tunnels, HeartbeatStops(t) PROVE IInv'
  BY <1>31 DEF HeartbeatStops
<1>32. ASSUME NEW t \in Tunnels, ServerHangsUp(t) PROVE IInv'
  BY <1>32 DEF ServerHangsUp, LoggedIn
<1>33. ASSUME NEW t \in Tunnels, LoopEnds(t) PROVE IInv'
  BY <1>33 DEF LoopEnds
<1>34. ASSUME NEW t \in Tunnels, CloseConn(t) PROVE IInv'
  BY <1>34 DEF CloseConn
<1>35. ASSUME NEW t \in Tunnels, ShutServer(t) PROVE IInv'
  BY <1>35 DEF ShutServer
<1>36. CASE DnsChanges
  BY <1>36 DEF DnsChanges
<1>37. CASE BeginStop
  BY <1>37 DEF BeginStop
<1>38. CASE Sweep
  BY <1>38 DEF Sweep
<1>39. CASE Terminate
  BY <1>39 DEF Terminate
<1>40. CASE UNCHANGED vars
  BY <1>40 DEF vars
<1> QED
  BY <1>1, <1>2, <1>3, <1>4, <1>5, <1>6, <1>7, <1>8, <1>9, <1>10, <1>11, <1>12, <1>13,
    <1>14, <1>15, <1>16, <1>17, <1>18, <1>19, <1>20, <1>21, <1>22, <1>23, <1>24, <1>25,
    <1>26, <1>27, <1>28, <1>29, <1>30, <1>31, <1>32, <1>33, <1>34, <1>35, <1>36, <1>37,
    <1>38, <1>39, <1>40 DEF Next, TunnelStep, StopStep

\* Every reachable state satisfies the inductive invariant.
LEMMA InvariantHolds == Spec => []IInv
BY InitIInv, NextIInv, PTL DEF Spec

\* The client's shared state and its tasks' locals keep their types.
THEOREM TypeCorrect == Spec => []TypeOK
<1>1. IInv => TypeOK
  BY DEF IInv
<1> QED
  BY <1>1, InvariantHolds, PTL

\* connect_and_serve never gives up on its own: a tunnel's task has ended only
\* if stop() or stop_async() was called.
THEOREM NeverGivesUp == Spec => []RetriesUntilStopped
<1>1. IInv => RetriesUntilStopped
  BY DEF IInv
<1> QED
  BY <1>1, InvariantHolds, PTL

\* State.connections is exact until stop() clears it and never holds a
\* connection whose task has gone on.
THEOREM RegistryExact == Spec => []RegistryMatchesTasks
<1>1. IInv => RegistryMatchesTasks
  BY DEF IInv
<1> QED
  BY <1>1, InvariantHolds, PTL

\* After stop() every tunnel posts Connecting at most once more.
THEOREM AtMostOneLateAttempt == Spec => []OneLateAttempt
<1>1. IInv => OneLateAttempt
  BY DEF IInv, LateTasksEnd, OneLateAttempt
<1> QED
  BY <1>1, InvariantHolds, PTL

\* stop_async returns only when what its sweep saw is closed or closing.
THEOREM JoinedStopIsComplete == Spec => []JoinedStopClosesWhatItSaw
<1>1. IInv => JoinedStopClosesWhatItSaw
  BY DEF IInv, StopProgress, OpenIsKnown, JoinedStopClosesWhatItSaw
<1> QED
  BY <1>1, InvariantHolds, PTL

\* No dropped connection takes a TCP receiver with it.
THEOREM TcpReceiverSurvives == Spec => []TcpReceiverKept
<1>1. IInv => TcpReceiverKept
  BY DEF IInv
<1> QED
  BY <1>1, InvariantHolds, PTL

-----------------------------------------------------------------------------
LifecycleStep == Lifecycle!Next \/ UNCHANGED Lifecycle!vars

\* A step that ends no task leaves the set of ended tasks and the stop alone.
LEMMA NoneEnds ==
  ASSUME NEW t \in Tunnels, pc \in [Tunnels -> Steps], NEW s \in Steps,
         pc' = [pc EXCEPT ![t] = s], pc[t] # "done", s # "done", UNCHANGED client_state
  PROVE  /\ {u \in Tunnels : pc[u] = "done"}' = {u \in Tunnels : pc[u] = "done"}
         /\ t \notin {u \in Tunnels : pc[u] = "done"}
         /\ Quitting' = Quitting
BY DEF Quitting

\* A step that shows nothing and ends no task is a stutter of the life cycle.
LEMMA Unseen ==
  ASSUME NEW t \in Tunnels, pc \in [Tunnels -> Steps], NEW s \in Steps,
         pc' = [pc EXCEPT ![t] = s], pc[t] # "done", s # "done",
         UNCHANGED <<client_state, shown, late>>
  PROVE  UNCHANGED Lifecycle!vars
BY DEF Lifecycle!vars, Quitting

\* A task that ends because the client is stopping finishes its life cycle.
LEMMA Finishes ==
  ASSUME NEW t \in Tunnels, pc \in [Tunnels -> Steps],
         pc' = [pc EXCEPT ![t] = "done"], pc[t] # "done", Quitting,
         UNCHANGED <<client_state, shown, late>>
  PROVE  Lifecycle!Finish(t)
BY DEF Lifecycle!Finish, Quitting

\* No tunnel task has posted an event when the client starts.
LEMMA InitRefines == Init => Lifecycle!Init
BY DEF Init, Lifecycle!Init, Quitting

\* Every step of the client is a step of the life cycle of one tunnel or shows
\* nothing of it.
LEMMA NextRefines == IInv /\ [Next]_vars => [Lifecycle!Next]_Lifecycle!vars
<1> SUFFICES ASSUME IInv, [Next]_vars PROVE LifecycleStep
  BY DEF LifecycleStep
<1> USE DEF LifecycleStep, IInv, TypeOK, Goto, stopVars, dialVars, connVars, serverVars, showVars
<1>1. ASSUME NEW t \in Tunnels, Resolve(t) PROVE LifecycleStep
  BY <1>1, Unseen DEF Resolve, LoginStages, ServeSteps, Steps
<1>2. ASSUME NEW t \in Tunnels, ResolveFails(t) PROVE LifecycleStep
  BY <1>2, Unseen DEF ResolveFails, LoginStages, ServeSteps, Steps
<1>3. ASSUME NEW t \in Tunnels, LookupEndpoint(t) PROVE LifecycleStep
  BY <1>3, Unseen DEF LookupEndpoint, LoginStages, ServeSteps, Steps
<1>4. ASSUME NEW t \in Tunnels, ResetEndpoint(t) PROVE LifecycleStep
  BY <1>4, Unseen DEF ResetEndpoint, ClearEndpointIfIdle, ResetsEndpoint, Idle, LoginStages,
    ServeSteps, Steps
<1>5. ASSUME NEW t \in Tunnels, CreateEndpoint(t) PROVE LifecycleStep
  BY <1>5, Unseen DEF CreateEndpoint, LoginStages, ServeSteps, Steps
<1>6. ASSUME NEW t \in Tunnels, CreateFails(t) PROVE LifecycleStep
  BY <1>6, Unseen DEF CreateFails, DropAddresses, LoginStages, ServeSteps, Steps
<1>7. ASSUME NEW t \in Tunnels, Dial(t) PROVE LifecycleStep
  <2>1. {u \in Tunnels : pc[u] = "done"}' = {u \in Tunnels : pc[u] = "done"}
        /\ t \notin {u \in Tunnels : pc[u] = "done"} /\ Quitting' = Quitting
    BY <1>7, NoneEnds DEF Dial, Steps, LoginStages
  <2>2. shown[t] \in {"none", "Connecting", "Reconnecting"} /\ late[t] = 0
    BY <1>7 DEF Dial, ShownMatchesTask, LateTasksEnd, Undialled
  <2>3. late' = IF Quitting THEN [late EXCEPT ![t] = 1] ELSE late
    <3>1. late' = [late EXCEPT ![t] = IF Quitting THEN late[t] + 1 ELSE late[t]]
      BY <1>7 DEF Dial, Post
    <3>2. CASE Quitting
      BY <2>2, <3>1, <3>2
    <3>3. CASE ~Quitting
      BY <3>1, <3>3
    <3> QED
      BY <3>2, <3>3
  <2>4. Lifecycle!Connect(t)
    BY <1>7, <2>1, <2>2, <2>3 DEF Dial, Post, Lifecycle!Connect, Lifecycle!Post
  <2> QED
    BY <2>4 DEF Lifecycle!Next
<1>8. ASSUME NEW t \in Tunnels, Handshake(t) PROVE LifecycleStep
  BY <1>8, Unseen DEF Handshake, LoginStages, ServeSteps, Steps
<1>9. ASSUME NEW t \in Tunnels, OpenLogin(t) PROVE LifecycleStep
  BY <1>9, Unseen DEF OpenLogin, LoginStages, ServeSteps, Steps
<1>10. ASSUME NEW t \in Tunnels, SendLogin(t) PROVE LifecycleStep
  BY <1>10, Unseen DEF SendLogin, LoginStages, ServeSteps, Steps
<1>11. ASSUME NEW t \in Tunnels, LoginDone(t) PROVE LifecycleStep
  BY <1>11, Unseen DEF LoginDone, Post, Quitting, ShownMatchesTask, LateTasksEnd, Undialled,
    LoginStages, Steps, States,
    Lifecycle!Next, Lifecycle!Establish, Lifecycle!Post
<1>12. ASSUME NEW t \in Tunnels, StageFails(t) PROVE LifecycleStep
  BY <1>12, Unseen DEF StageFails, LoginStages, ServeSteps, Steps
<1>13. ASSUME NEW t \in Tunnels, CheckFailure(t) PROVE LifecycleStep
  BY <1>13, Unseen DEF CheckFailure, LoginStages, ServeSteps, Steps
<1>14. ASSUME NEW t \in Tunnels, ClearAfterFailure(t) PROVE LifecycleStep
  BY <1>14, Unseen DEF ClearAfterFailure, ClearEndpointIfIdle, Idle, LoginStages,
    ServeSteps, Steps
<1>15. ASSUME NEW t \in Tunnels, Retry(t) PROVE LifecycleStep
  BY <1>15, Unseen DEF Retry, LoginStages, ServeSteps, Steps
<1>16. ASSUME NEW t \in Tunnels, Gate(t) PROVE LifecycleStep
  BY <1>16, Unseen, Finishes DEF Gate, DropHandle, ConnMatchesTask, Steps, Lifecycle!Next
<1>17. ASSUME NEW t \in Tunnels, Register(t) PROVE LifecycleStep
  BY <1>17, Unseen DEF Register, LoginStages, ServeSteps, Steps
<1>18. ASSUME NEW t \in Tunnels, Setup(t) PROVE LifecycleStep
  <2>1. CASE t \in TcpOut \cup UdpOut
    BY <1>18, <2>1, Unseen DEF Setup, ServeSteps, Steps
  <2>2. CASE t \notin TcpOut \cup UdpOut
    <3>1. Lifecycle!Serve(t)
      BY <1>18, <2>2, NoneEnds DEF Setup, Post, ShownMatchesTask, ServeSteps, Steps,
        Lifecycle!Serve, Lifecycle!Post
    <3> QED
      BY <3>1 DEF Lifecycle!Next
  <2> QED
    BY <2>1, <2>2
<1>19. ASSUME NEW t \in Tunnels, Bind(t) PROVE LifecycleStep
  BY <1>19, Unseen DEF Bind, LoginStages, ServeSteps, Steps
<1>20. ASSUME NEW t \in Tunnels, BindFails(t) PROVE LifecycleStep
  BY <1>20, Unseen DEF BindFails, EndTask, LoginStages, ServeSteps, Steps
<1>21. ASSUME NEW t \in Tunnels, StartTcp(t) PROVE LifecycleStep
  BY <1>21, Unseen DEF StartTcp, Post, EndTask, Quitting, ShownMatchesTask, LateTasksEnd,
    Undialled, LoginStages, Steps, States,
    Lifecycle!Next, Lifecycle!Serve, Lifecycle!Post
<1>22. ASSUME NEW t \in Tunnels, StartUdp(t) PROVE LifecycleStep
  <2>1. PICK s \in {"tunnel", "closed"} : pc' = [pc EXCEPT ![t] = s]
    BY <1>22 DEF StartUdp, EndTask
  <2>2. Lifecycle!Serve(t)
    BY <1>22, <2>1, NoneEnds DEF StartUdp, Post, ShownMatchesTask, ServeSteps, Steps,
      Lifecycle!Serve, Lifecycle!Post
  <2> QED
    BY <2>2 DEF Lifecycle!Next
<1>23. ASSUME NEW t \in Tunnels, TaskReturns(t) PROVE LifecycleStep
  BY <1>23, Unseen DEF TaskReturns, EndTask, DropReceiver, LoginStages, ServeSteps, Steps
<1>24. ASSUME NEW t \in Tunnels, Cancelled(t) PROVE LifecycleStep
  BY <1>24, Unseen DEF Cancelled, EndTask, DropReceiver, LoginStages, ServeSteps, Steps
<1>25. ASSUME NEW t \in Tunnels, CancelledEarly(t) PROVE LifecycleStep
  BY <1>25, Unseen DEF CancelledEarly, EndTask, LoginStages, ServeSteps, Steps
<1>26. ASSUME NEW t \in Tunnels, CheckAnnounce(t) PROVE LifecycleStep
  BY <1>26, Unseen DEF CheckAnnounce, LoginStages, ServeSteps, Steps
<1>27. ASSUME NEW t \in Tunnels, Announce(t) PROVE LifecycleStep
  BY <1>27, Unseen DEF Announce, Post, Quitting, ShownMatchesTask, LateTasksEnd, Undialled,
    LoginStages, Steps, States,
    Lifecycle!Next, Lifecycle!Lose, Lifecycle!Post
<1>28. ASSUME NEW t \in Tunnels, Unregister(t) PROVE LifecycleStep
  BY <1>28, Unseen DEF Unregister, LoginStages, ServeSteps, Steps
<1>29. ASSUME NEW t \in Tunnels, Again(t) PROVE LifecycleStep
  BY <1>29, Unseen, Finishes DEF Again, ConnMatchesTask, Steps, Lifecycle!Next
<1>30. ASSUME NEW t \in Tunnels, ConnLost(t) PROVE LifecycleStep
  BY <1>30 DEF ConnLost, Quitting, Lifecycle!vars
<1>31. ASSUME NEW t \in Tunnels, HeartbeatStops(t) PROVE LifecycleStep
  BY <1>31 DEF HeartbeatStops, Quitting, Lifecycle!vars
<1>32. ASSUME NEW t \in Tunnels, ServerHangsUp(t) PROVE LifecycleStep
  BY <1>32 DEF ServerHangsUp, Quitting, Lifecycle!vars
<1>33. ASSUME NEW t \in Tunnels, LoopEnds(t) PROVE LifecycleStep
  BY <1>33 DEF LoopEnds, Quitting, Lifecycle!vars
<1>34. ASSUME NEW t \in Tunnels, CloseConn(t) PROVE LifecycleStep
  BY <1>34 DEF CloseConn, Quitting, Lifecycle!vars
<1>35. ASSUME NEW t \in Tunnels, ShutServer(t) PROVE LifecycleStep
  BY <1>35 DEF ShutServer, Quitting, Lifecycle!vars
<1>36. CASE DnsChanges
  BY <1>36 DEF DnsChanges, Quitting, Lifecycle!vars
<1>37. CASE BeginStop
  BY <1>37 DEF BeginStop, Quitting, Lifecycle!vars, StopProgress, Lifecycle!Next,
    Lifecycle!Stop
<1>38. CASE Sweep
  BY <1>38 DEF Sweep, Quitting, Lifecycle!vars
<1>39. CASE Terminate
  BY <1>39 DEF Terminate, Quitting, Lifecycle!vars, StopProgress
<1>40. CASE UNCHANGED vars
  BY <1>40 DEF vars, Quitting, Lifecycle!vars
<1> QED
  BY <1>1, <1>2, <1>3, <1>4, <1>5, <1>6, <1>7, <1>8, <1>9, <1>10, <1>11, <1>12, <1>13,
    <1>14, <1>15, <1>16, <1>17, <1>18, <1>19, <1>20, <1>21, <1>22, <1>23, <1>24, <1>25,
    <1>26, <1>27, <1>28, <1>29, <1>30, <1>31, <1>32, <1>33, <1>34, <1>35, <1>36, <1>37,
    <1>38, <1>39, <1>40 DEF Next, TunnelStep, StopStep

\* The TunnelState events of every tunnel follow the life cycle of
\* TunnelLifecycle, whatever the tasks, the network and stop() do.
THEOREM ImplementsLifecycle == Spec => FollowsLifecycle
BY InitRefines, NextRefines, InvariantHolds, PTL DEF Spec, FollowsLifecycle, Lifecycle!Spec
=============================================================================

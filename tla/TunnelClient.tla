---------------------------- MODULE TunnelClient ----------------------------
(***************************************************************************)
(* The client's tunnel supervisors (src/client.rs).  Every configured      *)
(* tunnel has one task running connect_and_serve: it connects and logs in, *)
(* retrying with backoff, registers the connection, serves it until it is  *)
(* closed, and starts over, until stop() or stop_async() is called.  The   *)
(* tasks share the State behind one mutex: the cached endpoint, the        *)
(* connection map, the local servers and the client state.                 *)
(*                                                                         *)
(* A step is what a task does between two points where another task can    *)
(* run: an await or the release of the mutex.  Left out: wording of logs,  *)
(* backoff delays, traffic counters, and what flows over the connection.   *)
(* A connection is named by its tunnel: a task has at most one at a time,  *)
(* because it does not go on before the old one is closed.                 *)
(***************************************************************************)
EXTENDS Naturals, FiniteSets

CONSTANTS
  Tunnels,           \* the configured tunnels
  TcpOut, UdpOut,    \* those with a local listener; the others serve without
  Channel,           \* those fed by a channel of the embedding program
  Families,          \* address families the server name may resolve to
  HeartbeatEnabled   \* heartbeat_interval_ms and heartbeat_timeout_ms nonzero

ASSUME KindAssumption ==
  /\ TcpOut \subseteq Tunnels
  /\ UdpOut \subseteq Tunnels /\ UdpOut \cap TcpOut = {}
  /\ Channel \subseteq Tunnels \ (TcpOut \cup UdpOut)
ASSUME FamilyAssumption == Families \subseteq {"v4", "v6"} /\ Families # {}
ASSUME HeartbeatAssumption == HeartbeatEnabled \in BOOLEAN

VARIABLES
  client_state,  \* ClientState
  stopper,       \* where stop()/stop_async() is
  toClose,       \* connections whose close stop() has spawned, not yet run
  toShut,        \* local servers whose shutdown stop() has spawned, not yet run
  pc,            \* where each tunnel's task is
  dns,           \* the family the server name resolves to now
  remote,        \* family of login_cfg.remote_addr until the attempt has dialled
  endpoint,      \* family of the cached endpoint, or "none"
  local,         \* the task's own clone of an endpoint until it has dialled
  conn,          \* the tunnel's connection: "none", "open" or "closed"
  beating,       \* tunnels whose heartbeat task runs
  connections,   \* State.connections
  servers,       \* State.tcp_servers and State.udp_servers
  listening,     \* local servers whose loop runs (the port is bound)
  terminated,    \* local servers that have been told to quit
  receiver,      \* where the receiving half of the local server's channel is
  shown,         \* the last TunnelState posted for the tunnel
  late           \* history: Connecting posts made after stop() was called

stopVars == <<client_state, stopper, toClose, toShut>>
dialVars == <<dns, remote, endpoint, local>>
connVars == <<conn, beating, connections>>
serverVars == <<servers, listening, terminated, receiver>>
showVars == <<shown, late>>
vars == <<stopVars, dialVars, connVars, serverVars, showVars, pc>>

LoginStages == {"connect", "open", "send", "recv"}
ServeSteps == {"setup", "bind", "start", "tunnel"}
Steps == {"prepare", "lookup", "reset", "create", "dial"} \cup LoginStages
           \cup {"failed", "clear", "retry", "gate", "register"} \cup ServeSteps
           \cup {"closed", "announce", "remove", "again", "done"}
States == {"none", "Connecting", "Connected", "Tunneling", "Reconnecting"}

Init ==
  /\ client_state = "Idle" /\ stopper = "idle" /\ toClose = {} /\ toShut = {}
  /\ pc = [t \in Tunnels |-> "prepare"]
  /\ dns \in Families /\ remote = [t \in Tunnels |-> "none"]
  /\ endpoint = "none" /\ local = [t \in Tunnels |-> "none"]
  /\ conn = [t \in Tunnels |-> "none"] /\ beating = {} /\ connections = {}
  /\ servers = {} /\ listening = {} /\ terminated = {} /\ receiver = [t \in Tunnels |-> "home"]
  /\ shown = [t \in Tunnels |-> "none"] /\ late = [t \in Tunnels |-> 0]

-----------------------------------------------------------------------------
\* should_quit(), and the closures of run_login_stage, retry and heartbeat.
Quitting == client_state \in {"Stopping", "Terminated"}

Goto(t, from, to) == pc[t] = from /\ pc' = [pc EXCEPT ![t] = to]

Post(t, s) ==
  /\ shown' = [shown EXCEPT ![t] = s]
  /\ late' = [late EXCEPT ![t] = IF s = "Connecting" /\ Quitting THEN @ + 1 ELSE @]

\* clear_cached_endpoint_if_idle takes the cached endpoint unless a connection
\* is registered; it answers whether it took one.
Idle == connections = {}
ResetsEndpoint == Idle /\ endpoint # "none"
ClearEndpointIfIdle == endpoint' = IF Idle THEN "none" ELSE endpoint

-----------------------------------------------------------------------------
\* connect_once: prepare_login_config resolves the server address, or fails.
Resolve(t) ==
  /\ Goto(t, "prepare", "lookup")
  /\ remote' = [remote EXCEPT ![t] = dns]
  /\ UNCHANGED <<stopVars, connVars, serverVars, showVars, dns, endpoint, local>>

ResolveFails(t) ==
  /\ Goto(t, "prepare", "failed")
  /\ UNCHANGED <<stopVars, dialVars, connVars, serverVars, showVars>>

\* The cached endpoint is cloned and kept if its local_addr is known and of
\* the family of the remote address.
LookupEndpoint(t) ==
  /\ pc[t] = "lookup"
  /\ local' = [local EXCEPT ![t] = endpoint]
  /\ \E addrKnown \in BOOLEAN :
       pc' = [pc EXCEPT ![t] =
                IF endpoint = "none" THEN "create"
                ELSE IF addrKnown /\ endpoint = remote[t] THEN "dial" ELSE "reset"]
  /\ UNCHANGED <<stopVars, connVars, serverVars, showVars, dns, remote, endpoint>>

\* An endpoint of the wrong family is given up if it could be reset, and used
\* nevertheless if it could not.
ResetEndpoint(t) ==
  /\ pc[t] = "reset"
  /\ ClearEndpointIfIdle
  /\ pc' = [pc EXCEPT ![t] = IF ResetsEndpoint THEN "create" ELSE "dial"]
  /\ UNCHANGED <<stopVars, connVars, serverVars, showVars, dns, remote, local>>

\* The attempt's addresses and its clone of the endpoint are not used any more.
DropAddresses(t) ==
  local' = [local EXCEPT ![t] = "none"] /\ remote' = [remote EXCEPT ![t] = "none"]

\* create_client_endpoint binds a socket, which may fail; the new endpoint
\* replaces whatever is cached by now.
CreateEndpoint(t) ==
  /\ Goto(t, "create", "dial")
  /\ endpoint' = remote[t]
  /\ local' = [local EXCEPT ![t] = remote[t]]
  /\ UNCHANGED <<stopVars, connVars, serverVars, showVars, dns, remote>>

CreateFails(t) ==
  /\ Goto(t, "create", "failed") /\ DropAddresses(t)
  /\ UNCHANGED <<stopVars, connVars, serverVars, showVars, dns, endpoint>>

\* A v4 socket cannot reach a v6 address (endpoint.connect fails at once); a
\* v6 socket may reach a v4 one.
CanDial(t) == local[t] = "v4" => remote[t] = "v4"

\* login posts Connecting, then calls endpoint.connect.
Dial(t) ==
  /\ pc[t] = "dial"
  /\ pc' = [pc EXCEPT ![t] = IF CanDial(t) THEN "connect" ELSE "failed"]
  /\ Post(t, "Connecting") /\ DropAddresses(t)
  /\ UNCHANGED <<stopVars, connVars, serverVars, dns, endpoint>>

\* The first three login stages: the QUIC handshake, open_bi, and sending the
\* login request.
Handshake(t) ==
  /\ Goto(t, "connect", "open")
  /\ conn' = [conn EXCEPT ![t] = "open"]
  /\ UNCHANGED <<stopVars, dialVars, serverVars, showVars, beating, connections>>

OpenLogin(t) ==
  /\ conn[t] = "open" /\ Goto(t, "open", "send")
  /\ UNCHANGED <<stopVars, dialVars, connVars, serverVars, showVars>>

SendLogin(t) ==
  /\ conn[t] = "open" /\ Goto(t, "send", "recv")
  /\ UNCHANGED <<stopVars, dialVars, connVars, serverVars, showVars>>

\* A login stage times out, fails, is answered RespFailure, or is aborted
\* because the client is stopping: login returns and drops the connection.
StageFails(t) ==
  /\ pc[t] \in LoginStages
  /\ pc' = [pc EXCEPT ![t] = "failed"]
  /\ conn' = [conn EXCEPT ![t] = "none"]
  /\ UNCHANGED <<stopVars, dialVars, serverVars, showVars, beating, connections>>

\* RespSuccess is received (it may have been buffered before the connection
\* was lost): Connected is posted and the heartbeat task started.  With the
\* heartbeat disabled the login stream is dropped instead.
LoginDone(t) ==
  /\ Goto(t, "recv", "gate")
  /\ Post(t, "Connected")
  /\ beating' = IF HeartbeatEnabled /\ conn[t] = "open" THEN beating \cup {t} ELSE beating
  /\ UNCHANGED <<stopVars, dialVars, serverVars, conn, connections>>

\* The end of connect_once after an error: unless the client is stopping, the
\* cached endpoint is cleared.
CheckFailure(t) ==
  /\ Goto(t, "failed", IF Quitting THEN "retry" ELSE "clear")
  /\ UNCHANGED <<stopVars, dialVars, connVars, serverVars, showVars>>

ClearAfterFailure(t) ==
  /\ Goto(t, "clear", "retry")
  /\ ClearEndpointIfIdle
  /\ UNCHANGED <<stopVars, connVars, serverVars, showVars, dns, remote, local>>

\* Mutants: the retries are used up; when() does not look at the client state.
RetryGivesUp(t) ==
  /\ \E next \in {"gate", "prepare"} : Goto(t, "retry", next)
  /\ UNCHANGED <<stopVars, dialVars, connVars, serverVars, showVars>>

RetryAlways(t) ==
  /\ Goto(t, "retry", "prepare")
  /\ UNCHANGED <<stopVars, dialVars, connVars, serverVars, showVars>>

\* The retry's when(): another attempt after the backoff, unless stopping.
\* The state is not looked at again after the sleep.
Retry(t) ==
  /\ Goto(t, "retry", IF Quitting THEN "gate" ELSE "prepare")
  /\ UNCHANGED <<stopVars, dialVars, connVars, serverVars, showVars>>

-----------------------------------------------------------------------------
\* A task that ends drops its handle: the connection closes unless the
\* heartbeat task still holds one.
DropHandle(t) ==
  conn' = [conn EXCEPT ![t] = IF @ = "open" /\ t \notin beating THEN "closed" ELSE @]

\* connect_and_serve after the retry loop: quit, break on an error, or go on.
Gate(t) ==
  /\ \/ /\ Quitting \/ conn[t] = "none"
        /\ Goto(t, "gate", "done") /\ DropHandle(t)
     \/ /\ ~Quitting /\ conn[t] # "none"
        /\ Goto(t, "gate", "register") /\ UNCHANGED conn
  /\ UNCHANGED <<stopVars, dialVars, serverVars, showVars, beating, connections>>

Register(t) ==
  /\ Goto(t, "register", "setup")
  /\ connections' = connections \cup {t}
  /\ UNCHANGED <<stopVars, dialVars, serverVars, showVars, conn, beating>>

\* serve_*: a tunnel without a local listener serves at once; one with a
\* listener looks for the local server started by an earlier connection.
Setup(t) ==
  /\ IF t \in TcpOut \cup UdpOut
     THEN Goto(t, "setup", IF t \in servers THEN "start" ELSE "bind") /\ UNCHANGED showVars
     ELSE Goto(t, "setup", "tunnel") /\ Post(t, "Tunneling")
  /\ UNCHANGED <<stopVars, dialVars, connVars, serverVars>>

\* start_tcp_server / start_udp_server: bind, then insert into the map.
Bind(t) ==
  /\ t \notin listening
  /\ Goto(t, "bind", "start")
  /\ servers' = servers \cup {t} /\ listening' = listening \cup {t}
  /\ terminated' = terminated \ {t}
  /\ receiver' = [receiver EXCEPT ![t] = "home"]
  /\ UNCHANGED <<stopVars, dialVars, connVars, showVars>>

\* The tunnel task returned: the connection is closed if it is not closed yet.
EndTask(t) ==
  /\ pc' = [pc EXCEPT ![t] = "closed"]
  /\ conn' = [conn EXCEPT ![t] = "closed"] /\ beating' = beating \ {t}

BindFails(t) ==
  /\ pc[t] = "bind" /\ EndTask(t)
  /\ UNCHANGED <<stopVars, dialVars, serverVars, showVars, connections>>

\* serve_outbound_tcp: the receiver is taken once and stays in tcp_receivers.
StartTcp(t) ==
  /\ t \in TcpOut /\ pc[t] = "start"
  /\ IF receiver[t] \in {"home", "shared"}
     THEN /\ Goto(t, "start", "tunnel") /\ Post(t, "Tunneling")
          /\ receiver' = [receiver EXCEPT ![t] = "shared"]
          /\ UNCHANGED <<conn, beating>>
     ELSE EndTask(t) /\ UNCHANGED <<receiver, showVars>>
  /\ UNCHANGED <<stopVars, dialVars, connections, servers, listening, terminated>>

\* serve_outbound_udp: Tunneling is posted, then the receiver is taken.
StartUdp(t) ==
  /\ t \in UdpOut /\ pc[t] = "start"
  /\ Post(t, "Tunneling")
  /\ IF receiver[t] = "home"
     THEN /\ Goto(t, "start", "tunnel")
          /\ receiver' = [receiver EXCEPT ![t] = "held"]
          /\ UNCHANGED <<conn, beating>>
     ELSE EndTask(t) /\ UNCHANGED receiver
  /\ UNCHANGED <<stopVars, dialVars, connections, servers, listening, terminated>>

\* Mutant: the TCP receiver, too, is a local of the serving future.
DropAnyReceiver(t) ==
  receiver' = [receiver EXCEPT ![t] = IF @ \in {"held", "shared"} THEN "gone" ELSE @]

\* What becomes of the receiver when the serving future is dropped: the UDP
\* receiver is a local of that future; the TCP one survives in tcp_receivers
\* as long as stop() has not cleared that map.
DropReceiver(t) == receiver' = [receiver EXCEPT ![t] = IF @ = "held" THEN "gone" ELSE @]

\* The serving loop returns because the connection or the local server is
\* gone, or the embedding program ended its channel; serve_outbound_udp then
\* puts the receiver back.
TaskReturns(t) ==
  /\ pc[t] = "tunnel"
  /\ \/ conn[t] = "closed"
     \/ t \in TcpOut \cup UdpOut /\ t \notin listening
     \/ t \in Channel
  /\ EndTask(t)
  /\ IF t \in UdpOut THEN receiver' = [receiver EXCEPT ![t] = "home"] ELSE DropReceiver(t)
  /\ UNCHANGED <<stopVars, dialVars, showVars, connections, servers, listening, terminated>>

\* The outer wait_for_connection_close takes its conn_closed branch: the
\* serving future is dropped wherever it is suspended.
Cancelled(t) ==
  /\ pc[t] \in {"bind", "tunnel"} /\ conn[t] = "closed"
  /\ EndTask(t) /\ DropReceiver(t)
  /\ UNCHANGED <<stopVars, dialVars, showVars, connections, servers, listening, terminated>>

\* The same before the serving future has run at all.  handle_channel_based_tunnel
\* posts Tunneling outside that future, so it is not affected.
CancelledEarly(t) ==
  /\ t \notin Channel /\ pc[t] = "setup" /\ conn[t] = "closed"
  /\ EndTask(t)
  /\ UNCHANGED <<stopVars, dialVars, serverVars, showVars, connections>>

\* Mutant: the loss of the connection is not announced.
SkipAnnounce(t) ==
  /\ Goto(t, "closed", "remove")
  /\ UNCHANGED <<stopVars, dialVars, connVars, serverVars, showVars>>

\* if !should_quit() { post Reconnecting }: the check, then the post.
CheckAnnounce(t) ==
  /\ Goto(t, "closed", IF Quitting THEN "remove" ELSE "announce")
  /\ UNCHANGED <<stopVars, dialVars, connVars, serverVars, showVars>>

Announce(t) ==
  /\ Goto(t, "announce", "remove") /\ Post(t, "Reconnecting")
  /\ UNCHANGED <<stopVars, dialVars, connVars, serverVars>>

\* Mutant: the entry of a closed connection stays in the map.
ForgetToUnregister(t) ==
  /\ Goto(t, "remove", "again")
  /\ UNCHANGED <<stopVars, dialVars, connVars, serverVars, showVars>>

Unregister(t) ==
  /\ Goto(t, "remove", "again")
  /\ connections' = connections \ {t}
  /\ UNCHANGED <<stopVars, dialVars, serverVars, showVars, conn, beating>>

Again(t) ==
  /\ Goto(t, "again", IF Quitting THEN "done" ELSE "prepare")
  /\ conn' = [conn EXCEPT ![t] = "none"]
  /\ UNCHANGED <<stopVars, dialVars, serverVars, showVars, beating, connections>>

TunnelStep(t) ==
  \/ Resolve(t) \/ ResolveFails(t) \/ LookupEndpoint(t) \/ ResetEndpoint(t)
  \/ CreateEndpoint(t) \/ CreateFails(t) \/ Dial(t)
  \/ Handshake(t) \/ OpenLogin(t) \/ SendLogin(t) \/ LoginDone(t) \/ StageFails(t)
  \/ CheckFailure(t) \/ ClearAfterFailure(t) \/ Retry(t)
  \/ Gate(t) \/ Register(t) \/ Setup(t) \/ Bind(t) \/ BindFails(t)
  \/ StartTcp(t) \/ StartUdp(t) \/ TaskReturns(t) \/ Cancelled(t) \/ CancelledEarly(t)
  \/ CheckAnnounce(t) \/ Announce(t) \/ Unregister(t) \/ Again(t)

-----------------------------------------------------------------------------
\* The connection is closed by the server, by the heartbeat, or by the network.
ConnLost(t) ==
  /\ conn[t] = "open"
  /\ conn' = [conn EXCEPT ![t] = "closed"] /\ beating' = beating \ {t}
  /\ UNCHANGED <<stopVars, dialVars, serverVars, showVars, connections, pc>>

\* Mutant: the heartbeat does not look at the client state.
HeartbeatOutlivesStop(t) ==
  /\ t \in beating /\ conn[t] = "closed"
  /\ beating' = beating \ {t}
  /\ UNCHANGED <<stopVars, dialVars, serverVars, showVars, conn, connections, pc>>

\* client_heartbeat sees on its next tick that the client is stopping and
\* returns, dropping the login stream and its handle of the connection.
HeartbeatStops(t) ==
  /\ t \in beating /\ Quitting
  /\ beating' = beating \ {t}
  /\ conn' = [conn EXCEPT ![t] = IF pc[t] = "done" THEN "closed" ELSE @]
  /\ UNCHANGED <<stopVars, dialVars, serverVars, showVars, connections, pc>>

\* The server's heartbeat responder sees the login stream end and closes the
\* connection (start_heartbeat_responder in src/server.rs).
LoggedIn(t) == pc[t] \in {"gate", "register", "done"} \cup ServeSteps
ServerHangsUp(t) ==
  /\ LoggedIn(t) /\ conn[t] = "open" /\ t \notin beating
  /\ conn' = [conn EXCEPT ![t] = "closed"]
  /\ UNCHANGED <<stopVars, dialVars, serverVars, showVars, beating, connections, pc>>

\* The loop of a local server ends: it was told to quit, or it has a stream or
\* packet to forward and the receiver is gone.
LoopEnds(t) ==
  /\ t \in listening /\ (t \in terminated \/ receiver[t] = "gone")
  /\ listening' = listening \ {t}
  /\ UNCHANGED <<stopVars, dialVars, connVars, showVars, pc, servers, terminated, receiver>>

DnsChanges ==
  /\ dns' \in Families \ {dns}
  /\ UNCHANGED <<stopVars, connVars, serverVars, showVars, pc, remote, endpoint, local>>

-----------------------------------------------------------------------------
\* stop() and stop_async(): the state is set first, in a lock of its own.
BeginStop ==
  /\ stopper = "idle"
  /\ \E how \in {"sync", "async"} : stopper' = how
  /\ client_state' = "Stopping"
  /\ UNCHANGED <<dialVars, connVars, serverVars, showVars, pc, toClose, toShut>>

\* Under the lock: shutdowns and closes are spawned for all that is registered,
\* and the four maps are cleared.  A receiver in tcp_receivers survives in the
\* serving future that uses it.
Sweep ==
  /\ stopper \in {"sync", "async"}
  /\ stopper' = IF stopper = "sync" THEN "sleeping" ELSE "joining"
  /\ toClose' = connections /\ toShut' = servers
  /\ connections' = {} /\ servers' = {}
  /\ receiver' = [t \in Tunnels |->
       IF receiver[t] = "shared" THEN IF pc[t] = "tunnel" THEN "held" ELSE "gone"
       ELSE receiver[t]]
  /\ UNCHANGED <<dialVars, showVars, pc, client_state, conn, beating, listening, terminated>>

CloseConn(t) ==
  /\ t \in toClose
  /\ toClose' = toClose \ {t}
  /\ conn' = [conn EXCEPT ![t] = IF @ = "open" THEN "closed" ELSE @]
  /\ beating' = beating \ {t}
  /\ UNCHANGED <<dialVars, serverVars, showVars, pc, client_state, stopper, toShut, connections>>

\* shutdown() tells the server that was swept to quit, not one that has been
\* bound since.
ShutServer(t) ==
  /\ t \in toShut
  /\ toShut' = toShut \ {t}
  /\ terminated' = IF t \in servers THEN terminated ELSE terminated \cup {t}
  /\ UNCHANGED <<dialVars, connVars, showVars, pc, client_state, stopper, toClose,
                 servers, listening, receiver>>

\* Mutant: stop_async returns without joining the tasks it spawned.
TerminateUnjoined ==
  /\ stopper \in {"sleeping", "joining"}
  /\ stopper' = IF stopper = "joining" THEN "joined" ELSE "slept"
  /\ client_state' = "Terminated"
  /\ UNCHANGED <<dialVars, connVars, serverVars, showVars, pc, toClose, toShut>>

\* stop_async joins the spawned tasks; stop sleeps three seconds instead.
Terminate ==
  /\ stopper = "sleeping" \/ (stopper = "joining" /\ toClose = {} /\ toShut = {})
  /\ stopper' = IF stopper = "joining" THEN "joined" ELSE "slept"
  /\ client_state' = "Terminated"
  /\ UNCHANGED <<dialVars, connVars, serverVars, showVars, pc, toClose, toShut>>

StopStep == Sweep \/ Terminate \/ \E t \in Tunnels : CloseConn(t) \/ ShutServer(t)

Next ==
  \/ \E t \in Tunnels : TunnelStep(t) \/ ConnLost(t) \/ HeartbeatStops(t)
                          \/ ServerHangsUp(t) \/ LoopEnds(t)
  \/ DnsChanges \/ BeginStop \/ StopStep

Spec == Init /\ [][Next]_vars

\* The runtime polls every task that can run: tunnels, heartbeats, the server's
\* responder and the tasks spawned by stop().  Nothing makes stop() be called,
\* the network drop a connection or the DNS answer change.
Fairness ==
  /\ \A t \in Tunnels : /\ WF_vars(TunnelStep(t))
                         /\ WF_vars(HeartbeatStops(t))
                         /\ WF_vars(ServerHangsUp(t))
                         /\ WF_vars(t \in terminated /\ LoopEnds(t))
  /\ WF_vars(StopStep)

FairSpec == Spec /\ Fairness

\* From some time on the outside world is healthy: the name resolves, always
\* to the same family, ports are free, and no login stage or connection fails.
HealthyInTheEnd ==
  <>[][/\ ~DnsChanges
       /\ \A t \in Tunnels : ~(\/ ResolveFails(t) \/ CreateFails(t) \/ StageFails(t)
                                \/ BindFails(t) \/ ConnLost(t))]_vars

-----------------------------------------------------------------------------
\* Type invariant of the client's shared state and of its tasks' locals.
TypeOK ==
  /\ client_state \in {"Idle", "Stopping", "Terminated"}
  /\ stopper \in {"idle", "sync", "async", "sleeping", "joining", "slept", "joined"}
  /\ toClose \subseteq Tunnels /\ toShut \subseteq Tunnels
  /\ pc \in [Tunnels -> Steps]
  /\ dns \in Families /\ remote \in [Tunnels -> Families \cup {"none"}]
  /\ endpoint \in Families \cup {"none"} /\ local \in [Tunnels -> Families \cup {"none"}]
  /\ conn \in [Tunnels -> {"none", "open", "closed"}]
  /\ beating \subseteq Tunnels /\ connections \subseteq Tunnels
  /\ servers \subseteq Tunnels /\ listening \subseteq Tunnels
  /\ terminated \subseteq Tunnels
  /\ receiver \in [Tunnels -> {"home", "held", "shared", "gone"}]
  /\ shown \in [Tunnels -> States] /\ late \in [Tunnels -> Nat]

Swept == stopper \in {"sleeping", "joining", "slept", "joined"}
Registered == {"setup", "bind", "start", "tunnel", "closed", "announce", "remove"}

\* A tunnel's task ends only after stop() or stop_async() was called: the
\* retry loop of connect_and_serve never returns an error on its own.
RetriesUntilStopped == \A t \in Tunnels : pc[t] = "done" => client_state # "Idle"

\* The connection map holds exactly the connections being served, until stop()
\* clears it, and never one whose task has gone on: a stale entry would keep
\* clear_cached_endpoint_if_idle from ever dropping a broken endpoint.
RegistryMatchesTasks ==
  /\ \A t \in connections : pc[t] \in Registered
  /\ ~Swept => \A t \in Tunnels : pc[t] \in Registered => t \in connections

\* After stop() a tunnel makes at most one more attempt: the one whose backoff
\* sleep was already running when Stopping was set.
OneLateAttempt == \A t \in Tunnels : late[t] <= 1

\* When stop_async returns, a connection that is still open is one that stop
\* could not see: its task is still logging in, or had passed the quit check
\* and not yet registered it, or has quit and left it to its heartbeat task.
\* A port that is still bound was bound since, or its server is about to quit.
JoinedStopClosesWhatItSaw ==
  stopper = "joined" =>
    /\ \A t \in Tunnels : conn[t] = "open" =>
         \/ t \in connections
         \/ pc[t] \in LoginStages \cup {"gate", "register"}
         \/ pc[t] = "done" /\ t \in beating
    /\ listening \subseteq servers \cup terminated

\* The TCP receiver is never lost to a dropped connection.
TcpReceiverKept ==
  \A t \in TcpOut : client_state = "Idle" => receiver[t] \in {"home", "shared"}

\* stop() and stop_async() end every tunnel's task and leave no connection
\* open, also one that was registered after the sweep; the only ports still
\* bound are those of servers started after the sweep.
StopEndsEverything ==
  Quitting ~> /\ \A t \in Tunnels : pc[t] = "done" /\ conn[t] # "open"
              /\ listening \subseteq servers

\* README: "Reconnects automatically when a tunnel drops."  Once the outside
\* world is healthy, a tunnel that is not served is served, unless stopped.
Reconnects ==
  HealthyInTheEnd =>
    \A t \in Tunnels : (pc[t] # "tunnel") ~> (Quitting \/ pc[t] = "tunnel")

-----------------------------------------------------------------------------
\* What a listener on the event bus sees of each tunnel.
Lifecycle == INSTANCE TunnelLifecycle WITH
  stopped <- Quitting,
  over <- {t \in Tunnels : pc[t] = "done"}

\* The states a tunnel posts follow the life cycle of TunnelLifecycle.
FollowsLifecycle == Lifecycle!Spec
=============================================================================

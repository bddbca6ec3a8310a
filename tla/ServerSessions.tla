--------------------------- MODULE ServerSessions ---------------------------
(***************************************************************************)
(* The server's connection tasks (src/server.rs): login, the listener that *)
(* an inbound (IN) tunnel asks for, the session registry, and the sweep    *)
(* that ends the sessions of closed connections so that their ports become *)
(* free for the client's next login.  The listeners are TcpServer and      *)
(* UdpServer (src/tcp, src/udp) as the server uses them.                   *)
(*                                                                         *)
(* Conns are slots for the successive connections of one client: it logs   *)
(* in again once it has given its last connection up, for a tunnel of any  *)
(* kind.  All its TCP IN tunnels ask for one port, and so do its UDP ones. *)
(***************************************************************************)
EXTENDS Naturals, Sequences, FiniteSets

CONSTANTS
  Conns,          \* slots for connections
  Kinds,          \* the kinds of tunnels it asks for
  QueueLen        \* capacity of a listener's channel (4 in the code)

ASSUME KindAssumption == Kinds \subseteq {"tcp", "udp", "out"}
ASSUME QueueAssumption == QueueLen \in Nat \ {0}

VARIABLES
  pc,           \* where the connection's task is
  conn,         \* the connection as the server sees it
  kind,         \* what it logs in for: a TCP or UDP IN tunnel, or an OUT tunnel
  abandoned,    \* connections the client has given up
  connections,  \* State.connections
  sessions,     \* State.tcp_sessions and State.udp_sessions
  bound,        \* listeners whose loop runs
  active,       \* listeners whose receiver has been taken
  terminated,   \* listeners told to quit (TCP: the flag; UDP: Quit is queued)
  mailbox,      \* channel from a listener to its connection's task
  quitting,     \* sessions whose Quit the sweep has spawned, not yet sent
  orphaned      \* kinds whose port has a listener that nobody knows

listenVars == <<bound, active, terminated, mailbox>>
registryVars == <<connections, sessions, quitting>>
vars == <<pc, conn, kind, abandoned, registryVars, listenVars, orphaned>>

Steps == {"new", "login", "derive", "reject", "respond", "push", "session", "take",
          "serve", "shutdown", "over"}

Init ==
  /\ pc = [c \in Conns |-> "new"] /\ conn = [c \in Conns |-> "closed"]
  /\ kind = [c \in Conns |-> "out"]
  /\ abandoned = {} /\ connections = {} /\ sessions = {} /\ quitting = {}
  /\ bound = {} /\ active = {} /\ terminated = {}
  /\ mailbox = [c \in Conns |-> <<>>] /\ orphaned = {}

Goto(c, from, to) == pc[c] = from /\ pc' = [pc EXCEPT ![c] = to]
TcpIn == {c \in Conns : kind[c] = "tcp"}
UdpIn == {c \in Conns : kind[c] = "udp"}
SamePort(c) == IF c \in TcpIn THEN TcpIn ELSE UdpIn

\* An error return before the login is answered drops the last handles of the
\* connection, which closes it.
Drops(c) == pc' = [pc EXCEPT ![c] = "over"] /\ conn' = [conn EXCEPT ![c] = "closed"]

-----------------------------------------------------------------------------
\* The client connects, using a slot of which nothing is left, once its other
\* connections are closed or given up.
Arrive(c) ==
  /\ pc[c] \in {"new", "over"} /\ conn[c] = "closed"
  /\ c \notin connections \cup sessions \cup quitting \cup bound
  /\ \A d \in Conns \ {c} : conn[d] = "closed" \/ d \in abandoned
  /\ pc' = [pc EXCEPT ![c] = "login"] /\ conn' = [conn EXCEPT ![c] = "open"]
  /\ \E k \in Kinds : kind' = [kind EXCEPT ![c] = k]
  /\ abandoned' = abandoned \ {c} /\ active' = active \ {c} /\ terminated' = terminated \ {c}
  /\ mailbox' = [mailbox EXCEPT ![c] = <<>>]
  /\ UNCHANGED <<registryVars, bound, orphaned>>

\* authenticate_connection: the login request arrives and the password is right.
Login(c) ==
  /\ conn[c] = "open" /\ Goto(c, "login", "derive")
  /\ UNCHANGED <<conn, abandoned, kind, registryVars, listenVars, orphaned>>

\* No request, a wrong password, or (derive_tunnel_type) no acceptable upstream.
LoginFails(c) ==
  /\ pc[c] \in {"login", "derive"} /\ Drops(c)
  /\ UNCHANGED <<abandoned, kind, registryVars, listenVars, orphaned>>

\* derive_tunnel_type: an OUT tunnel needs nothing; an IN tunnel binds its port,
\* and is refused with RespFailure if another listener still has it.
Derive(c) ==
  /\ IF c \in TcpIn \cup UdpIn
     THEN IF bound \cap SamePort(c) = {} /\ kind[c] \notin orphaned
          THEN Goto(c, "derive", "respond") /\ bound' = bound \cup {c}
          ELSE Goto(c, "derive", "reject") /\ UNCHANGED bound
     ELSE Goto(c, "derive", "respond") /\ UNCHANGED bound
  /\ UNCHANGED <<conn, abandoned, kind, registryVars, active, terminated, mailbox, orphaned>>

Reject(c) ==
  /\ pc[c] = "reject" /\ Drops(c)
  /\ UNCHANGED <<abandoned, kind, registryVars, listenVars, orphaned>>

\* RespSuccess is sent and the heartbeat responder started.
Respond(c) ==
  /\ conn[c] = "open" /\ Goto(c, "respond", "push")
  /\ UNCHANGED <<conn, abandoned, kind, registryVars, listenVars, orphaned>>

\* RespSuccess cannot be sent because the client has gone: the error return
\* drops the TcpServer or UdpServer, whose loop goes on running.  The slot is
\* free again, the port is not.
RespondFails(c) ==
  /\ pc[c] = "respond" /\ (conn[c] = "closed" \/ c \in abandoned)
  /\ Drops(c)
  /\ bound' = bound \ {c}
  /\ orphaned' = orphaned \cup {kind[d] : d \in bound \cap {c}}
  /\ UNCHANGED <<abandoned, kind, registryVars, active, terminated, mailbox>>

\* serve(): the connection is registered, then an IN tunnel's session.
Push(c) ==
  /\ Goto(c, "push", IF c \in TcpIn \cup UdpIn THEN "session" ELSE "serve")
  /\ connections' = connections \cup {c}
  /\ UNCHANGED <<conn, abandoned, kind, sessions, quitting, listenVars, orphaned>>

\* Mutant: the session is not registered.
SkipSession(c) ==
  /\ Goto(c, "session", "take")
  /\ UNCHANGED <<conn, abandoned, kind, registryVars, listenVars, orphaned>>

PushSession(c) ==
  /\ Goto(c, "session", "take")
  /\ sessions' = sessions \cup {c}
  /\ UNCHANGED <<conn, abandoned, kind, connections, quitting, listenVars, orphaned>>

TakeReceiver(c) ==
  /\ Goto(c, "take", "serve")
  /\ active' = active \cup {c}
  /\ UNCHANGED <<conn, abandoned, kind, registryVars, bound, terminated, mailbox, orphaned>>

\* start_accepting of an OUT tunnel returns when the connection is closed.
AcceptingEnds(c) ==
  /\ c \notin TcpIn \cup UdpIn /\ conn[c] = "closed" /\ Goto(c, "serve", "over")
  /\ UNCHANGED <<conn, abandoned, kind, registryVars, listenVars, orphaned>>

\* start_serving of an IN tunnel: a stream or packet is forwarded (a packet of a
\* flow that is in stream_map even after the connection was closed) ...
Forward(c) ==
  /\ pc[c] = "serve" /\ mailbox[c] # <<>> /\ Head(mailbox[c]) = "item" /\ (conn[c] = "open" \/ c \in UdpIn)
  /\ mailbox' = [mailbox EXCEPT ![c] = Tail(@)]
  /\ UNCHANGED <<pc, conn, abandoned, kind, registryVars, bound, active, terminated, orphaned>>

\* ... and the loop ends on Quit, on an item that cannot be forwarded because
\* the connection is closed, or when the channel's sender is gone.
ServingEnds(c) ==
  /\ c \in TcpIn \cup UdpIn /\ Goto(c, "serve", "shutdown")
  /\ \/ mailbox[c] # <<>> /\ (Head(mailbox[c]) = "quit" \/ conn[c] = "closed")
     \/ mailbox[c] = <<>> /\ c \notin bound
  /\ UNCHANGED <<conn, abandoned, kind, registryVars, listenVars, orphaned>>

\* Mutant: the task ends without shutting its listener down.
SkipShutdown(c) ==
  /\ Goto(c, "shutdown", "over")
  /\ UNCHANGED <<conn, abandoned, kind, registryVars, listenVars, orphaned>>

\* shutdown(): the listener is told to quit, and the task ends.
Shutdown(c) ==
  /\ Goto(c, "shutdown", "over")
  /\ terminated' = terminated \cup {c}
  /\ UNCHANGED <<conn, abandoned, kind, registryVars, bound, active, mailbox, orphaned>>

-----------------------------------------------------------------------------
\* start_serving owns the TCP receiver; the UDP one lives as long as the task.
Receiving(c) == pc[c] = "serve" \/ (c \in UdpIn /\ pc[c] = "shutdown")

\* The listener accepts a stream or receives a packet: dropped unless the
\* receiver has been taken and the channel has room.
Incoming(c) ==
  /\ c \in bound \ terminated /\ c \in active /\ Receiving(c)
  /\ Len(mailbox[c]) < QueueLen
  /\ mailbox' = [mailbox EXCEPT ![c] = Append(@, "item")]
  /\ UNCHANGED <<pc, conn, abandoned, kind, registryVars, bound, active, terminated, orphaned>>

\* The loop ends: told to quit, or it has an item and the receiver is gone.
LoopEnds(c) ==
  /\ c \in bound /\ (c \in terminated \/ (c \in active /\ ~Receiving(c)))
  /\ bound' = bound \ {c}
  /\ UNCHANGED <<pc, conn, abandoned, kind, registryVars, active, terminated, mailbox, orphaned>>

-----------------------------------------------------------------------------
\* Mutant: only the connections that have a session are swept.
ClearExpiredSessionsOnly ==
  LET expired == {c \in Conns : conn[c] = "closed"} IN
  /\ sessions \cap expired # {}
  /\ connections' = connections \ (sessions \cap expired)
  /\ sessions' = sessions \ expired
  /\ quitting' = quitting \cup (sessions \cap expired)
  /\ UNCHANGED <<pc, conn, abandoned, kind, listenVars, orphaned>>

\* Mutant: with one connection expired all sessions are told to quit.
ClearAllSessions ==
  LET expired == {c \in Conns : conn[c] = "closed"} IN
  /\ (connections \cup sessions) \cap expired # {}
  /\ connections' = connections \ expired
  /\ sessions' = {} /\ quitting' = quitting \cup sessions
  /\ UNCHANGED <<pc, conn, abandoned, kind, listenVars, orphaned>>

\* clear_expired_sessions, every 2400 ms: closed connections are forgotten, and
\* for each of their sessions a task is spawned that sends Quit.
ClearExpired ==
  LET expired == {c \in Conns : conn[c] = "closed"} IN
  /\ (connections \cup sessions) \cap expired # {}
  /\ connections' = connections \ expired
  /\ sessions' = sessions \ expired
  /\ quitting' = quitting \cup (sessions \cap expired)
  /\ UNCHANGED <<pc, conn, abandoned, kind, listenVars, orphaned>>

\* Mutant: Quit reaches nobody.
SendQuitLost(c) ==
  /\ c \in quitting /\ quitting' = quitting \ {c}
  /\ UNCHANGED <<pc, conn, abandoned, kind, connections, sessions, listenVars, orphaned>>

\* The spawned task: to a TCP session Quit goes through the listener's channel,
\* to a UDP session it goes to the listener.  It fails if nobody listens.
SendQuit(c) ==
  /\ c \in quitting /\ quitting' = quitting \ {c}
  /\ IF c \in UdpIn
     THEN terminated' = terminated \cup {c} /\ UNCHANGED mailbox
     ELSE IF pc[c] \in {"shutdown", "over"}
          THEN UNCHANGED <<mailbox, terminated>>
          ELSE /\ Len(mailbox[c]) < QueueLen
               /\ mailbox' = [mailbox EXCEPT ![c] = Append(@, "quit")]
               /\ UNCHANGED terminated
  /\ UNCHANGED <<pc, conn, abandoned, kind, connections, sessions, bound, active, orphaned>>

-----------------------------------------------------------------------------
\* The client gives the connection up (timeout, restart, lost network); the
\* server learns of it by a close frame or its idle timeout.
Abandon(c) ==
  /\ conn[c] = "open" /\ c \notin abandoned
  /\ abandoned' = abandoned \cup {c}
  /\ UNCHANGED <<pc, conn, kind, registryVars, listenVars, orphaned>>

ConnCloses(c) ==
  /\ conn[c] = "open" /\ c \in abandoned
  /\ conn' = [conn EXCEPT ![c] = "closed"]
  /\ UNCHANGED <<pc, abandoned, kind, registryVars, listenVars, orphaned>>

TaskStep(c) ==
  \/ Login(c) \/ LoginFails(c) \/ Derive(c) \/ Reject(c) \/ Respond(c) \/ RespondFails(c)
  \/ Push(c) \/ PushSession(c) \/ TakeReceiver(c) \/ AcceptingEnds(c)
  \/ Forward(c) \/ ServingEnds(c) \/ Shutdown(c)

Next ==
  \/ \E c \in Conns : \/ TaskStep(c) \/ Arrive(c) \/ Abandon(c) \/ ConnCloses(c)
                      \/ Incoming(c) \/ LoopEnds(c) \/ SendQuit(c)
  \/ ClearExpired

Spec == Init /\ [][Next]_vars

\* Tasks are polled, the sweep's interval ticks, a client that has gone is
\* noticed by the idle timeout, and the client keeps trying.
Fairness ==
  /\ WF_vars(ClearExpired) /\ WF_vars(\E c \in Conns : Arrive(c))
  /\ \A c \in Conns : /\ WF_vars(TaskStep(c)) /\ WF_vars(ConnCloses(c))
                       /\ WF_vars(c \in terminated /\ LoopEnds(c)) /\ WF_vars(SendQuit(c))

FairSpec == Spec /\ Fairness

-----------------------------------------------------------------------------
\* Type invariant of the server's shared state and of its connection tasks.
TypeOK ==
  /\ pc \in [Conns -> Steps] /\ conn \in [Conns -> {"open", "closed"}]
  /\ kind \in [Conns -> {"tcp", "udp", "out"}]
  /\ abandoned \subseteq Conns /\ connections \subseteq Conns /\ sessions \subseteq Conns
  /\ quitting \subseteq Conns /\ bound \subseteq TcpIn \cup UdpIn /\ active \subseteq Conns
  /\ terminated \subseteq Conns /\ orphaned \subseteq {"tcp", "udp"}
  /\ mailbox \in [Conns -> Seq({"item", "quit"})]

QuitQueued(c) == \E i \in 1 .. Len(mailbox[c]) : mailbox[c][i] = "quit"

\* No port is lost: a bound listener is on the way to its session, has one, or
\* is about to be told to quit.  (Listeners whose login answer could not be
\* sent are not in bound, but orphaned.)
ListenersAreOwned ==
  \A c \in bound :
    \/ c \in sessions \cup quitting \cup terminated
    \/ pc[c] \in {"respond", "push", "session", "shutdown"}
    \/ QuitQueued(c)

\* A live IN tunnel is left alone: while its connection is open, its listener
\* is bound and not told to quit, the registry keeps it, and its task serves,
\* although the sweep runs next to it, connections that are gone may still hold
\* their sessions, and Quit takes two tasks and a channel.
LiveTunnelKept ==
  \A c \in TcpIn \cup UdpIn : conn[c] = "open" =>
    /\ pc[c] \notin {"shutdown", "over"} /\ c \notin quitting \cup terminated /\ ~QuitQueued(c)
    /\ pc[c] \in {"respond", "push", "session", "take", "serve"} => c \in bound
    /\ pc[c] \in {"session", "take", "serve"} => c \in connections
    /\ pc[c] \in {"take", "serve"} => c \in sessions

\* A served IN tunnel's port becomes free after its connection is closed.
PortReleased ==
  \A c \in Conns :
    (pc[c] \in {"session", "take", "serve"} /\ conn[c] = "closed") ~> (c \notin bound)

\* Closed connections are forgotten.
ClosedForgotten ==
  \A c \in Conns : (c \in connections /\ conn[c] = "closed") ~> (c \notin connections)

\* From some time on no login fails and no client gives up.
HealthyInTheEnd == <>[][\A c \in Conns : ~LoginFails(c) /\ ~Abandon(c)]_vars
Served == \E c \in Conns : pc[c] = "serve" /\ conn[c] = "open"

\* README: "Reconnects automatically when a tunnel drops."  In the end a client
\* that keeps logging in is served.
InboundReconnects == HealthyInTheEnd => []<>Served

\* The same as long as no login answer failed to be sent after a bind: the
\* port of a connection that the server has not yet noticed to be dead delays
\* the client but does not shut it out.
OnlyOrphansBlock == HealthyInTheEnd /\ [](orphaned = {}) => []<>Served
=============================================================================

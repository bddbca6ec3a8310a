---------------------------- MODULE TcpHandover ----------------------------
(***************************************************************************)
(* How accepted TCP streams reach the tunnel: the accept loop of TcpServer *)
(* (src/tcp/tcp_server.rs), the bounded channel behind it, and             *)
(* TcpTunnel::start_serving (src/tcp/tcp_tunnel.rs), which is run once per *)
(* connection and keeps a request it could not forward in pending_request  *)
(* for the next connection.  A channel-based tunnel is served by the same  *)
(* loop, with the embedding program in the place of the accept loop.       *)
(*                                                                         *)
(* Streams are numbered in the order in which they are accepted.  Zero is  *)
(* no stream; Quit is a message of its own.                                *)
(***************************************************************************)
EXTENDS Naturals, Sequences

CONSTANTS
  MaxStream,  \* bound on the number of streams that arrive
  QueueLen,   \* capacity of the channel (4 in the code)
  BadTarget   \* requests whose target cannot be encoded (a domain name of
              \* illegal length; only an embedding program can make one)

ASSUME BoundAssumption == MaxStream \in Nat /\ QueueLen \in Nat \ {0}
ASSUME TargetAssumption == BadTarget \subseteq 1 .. MaxStream

VARIABLES
  arrived,     \* number of streams accepted
  held,        \* the stream the accept loop is sending to the channel
  loop,        \* the accept loop: "accept", "send", "quit" or "ended"
  active, terminated,   \* TcpServer's flags
  stopping,    \* the client is stopping and has dropped its registries
  queue,       \* the channel
  serving,     \* start_serving: "off", "recv", "open", "target" or "ended"
  hand,        \* the request start_serving has in its hands
  pending,     \* pending_request
  conn,        \* the connection
  forwarded,   \* streams given to start_flowing_with_codec, in order
  dropped,     \* streams dropped by the accept loop
  lost         \* streams dropped with a cancelled start_serving

loopVars == <<arrived, held, loop, active, terminated, stopping>>
serveVars == <<serving, hand, pending, conn>>
vars == <<loopVars, serveVars, queue, forwarded, dropped, lost>>

Quit == 0

Init ==
  /\ arrived = 0 /\ held = 0 /\ loop = "accept" /\ active = FALSE
  /\ terminated = FALSE /\ stopping = FALSE
  /\ queue = <<>> /\ serving = "off" /\ hand = 0 /\ pending = 0 /\ conn = "closed"
  /\ forwarded = <<>> /\ dropped = {} /\ lost = {}

-----------------------------------------------------------------------------
\* accept() returns a stream: it is dropped while nobody has taken the
\* receiver, and sent otherwise.
Accept ==
  /\ loop = "accept" /\ ~terminated /\ arrived < MaxStream
  /\ arrived' = arrived + 1
  /\ IF active
     THEN loop' = "send" /\ held' = arrived + 1 /\ UNCHANGED dropped
     ELSE dropped' = dropped \cup {arrived + 1} /\ UNCHANGED <<loop, held>>
  /\ UNCHANGED <<active, terminated, stopping, serveVars, queue, forwarded, lost>>

\* stop_async clears tcp_receivers; start_serving's own clone of the receiver
\* goes with it.  A receiver that was never taken stays in TcpServer's state.
ReceiverGone == stopping /\ active /\ serving \in {"off", "ended"}

SendOk ==
  /\ loop = "send" /\ Len(queue) < QueueLen /\ ~ReceiverGone
  /\ queue' = Append(queue, held) /\ held' = 0 /\ loop' = "accept"
  /\ UNCHANGED <<arrived, active, terminated, stopping, serveVars, forwarded, dropped, lost>>

\* send_timeout expires after three seconds on a full channel.
SendTimeout ==
  /\ loop = "send" /\ Len(queue) = QueueLen /\ ~ReceiverGone
  /\ dropped' = dropped \cup {held} /\ held' = 0 /\ loop' = "accept"
  /\ UNCHANGED <<arrived, active, terminated, stopping, serveVars, queue, forwarded, lost>>

\* The channel is closed: the accept loop breaks.
SendFails ==
  /\ loop = "send" /\ ReceiverGone
  /\ dropped' = dropped \cup {held} /\ held' = 0 /\ loop' = "ended"
  /\ UNCHANGED <<arrived, active, terminated, stopping, serveVars, queue, forwarded, lost>>

\* terminated is seen once accept() returns, which shutdown() makes it do.
WokenUp ==
  /\ loop = "accept" /\ terminated
  /\ loop' = "quit"
  /\ UNCHANGED <<arrived, held, active, terminated, stopping, serveVars, queue, forwarded,
                 dropped, lost>>

\* Mutant: Quit waits for room also when nobody receives.
SendQuitWaits ==
  /\ loop = "quit" /\ Len(queue) < QueueLen
  /\ queue' = Append(queue, Quit) /\ loop' = "ended"
  /\ UNCHANGED <<arrived, held, active, terminated, stopping, serveVars, forwarded, dropped, lost>>

\* Quit waits for room in the channel, and its failure is ignored.
SendQuit ==
  /\ loop = "quit" /\ (Len(queue) < QueueLen \/ ReceiverGone)
  /\ queue' = IF ReceiverGone THEN queue ELSE Append(queue, Quit)
  /\ loop' = "ended"
  /\ UNCHANGED <<arrived, held, active, terminated, stopping, serveVars, forwarded, dropped, lost>>

\* stop_async: the client's state and registries, then the task it spawns
\* to shut the server down.
Stop ==
  /\ ~stopping /\ stopping' = TRUE
  /\ UNCHANGED <<arrived, held, loop, active, terminated, serveVars, queue, forwarded, dropped, lost>>

Shutdown ==
  /\ stopping /\ ~terminated /\ terminated' = TRUE
  /\ UNCHANGED <<arrived, held, loop, active, stopping, serveVars, queue, forwarded, dropped, lost>>

-----------------------------------------------------------------------------
\* A new connection: get_or_init_tcp_receiver takes the receiver the first
\* time, and start_serving begins.
Connect ==
  /\ serving = "off" /\ conn = "closed" /\ ~stopping
  /\ conn' = "open" /\ serving' = "recv" /\ active' = TRUE
  /\ UNCHANGED <<arrived, held, loop, terminated, stopping, hand, pending, queue, forwarded,
                 dropped, lost>>

\* A pending request goes first.
TakePending ==
  /\ serving = "recv" /\ pending # 0
  /\ hand' = pending /\ pending' = 0 /\ serving' = "open"
  /\ UNCHANGED <<loopVars, conn, queue, forwarded, dropped, lost>>

\* Mutant: the channel is read although a request is pending.
ReceiveFirst ==
  /\ serving = "recv" /\ queue # <<>> /\ Head(queue) # Quit
  /\ hand' = Head(queue) /\ queue' = Tail(queue) /\ serving' = "open"
  /\ UNCHANGED <<loopVars, pending, conn, forwarded, dropped, lost>>

Receive ==
  /\ serving = "recv" /\ pending = 0 /\ queue # <<>> /\ Head(queue) # Quit
  /\ hand' = Head(queue) /\ queue' = Tail(queue) /\ serving' = "open"
  /\ UNCHANGED <<loopVars, pending, conn, forwarded, dropped, lost>>

\* Quit: start_serving returns, and the connection is closed with the reason
\* "tunnel task ended".  The supervisor then sees that the client is stopping.
ReceiveQuit ==
  /\ serving = "recv" /\ pending = 0 /\ queue # <<>> /\ Head(queue) = Quit
  /\ queue' = Tail(queue) /\ serving' = "ended" /\ conn' = "closed"
  /\ UNCHANGED <<loopVars, hand, pending, forwarded, dropped, lost>>

Open ==
  /\ serving = "open" /\ conn = "open"
  /\ serving' = "target"
  /\ UNCHANGED <<loopVars, hand, pending, conn, queue, forwarded, dropped, lost>>

\* Mutants: the request goes to the end of the channel; the request is dropped.
OpenFailsRequeues ==
  /\ serving = "open" /\ conn = "closed" /\ Len(queue) < QueueLen
  /\ queue' = Append(queue, hand) /\ hand' = 0 /\ serving' = "off"
  /\ UNCHANGED <<loopVars, pending, conn, forwarded, dropped, lost>>

OpenFailsDrops ==
  /\ serving = "open" /\ conn = "closed"
  /\ hand' = 0 /\ serving' = "off"
  /\ UNCHANGED <<loopVars, pending, conn, queue, forwarded, dropped, lost>>

\* open_bi fails: the request is kept for the next connection.
OpenFails ==
  /\ serving = "open" /\ conn = "closed"
  /\ pending' = hand /\ hand' = 0 /\ serving' = "off"
  /\ UNCHANGED <<loopVars, conn, queue, forwarded, dropped, lost>>

\* write_tunnel_target, then the stream is handed to its own tasks.
WriteTarget ==
  /\ serving = "target" /\ conn = "open" /\ hand \notin BadTarget
  /\ forwarded' = Append(forwarded, hand) /\ hand' = 0 /\ serving' = "recv"
  /\ UNCHANGED <<loopVars, pending, conn, queue, dropped, lost>>

\* write_tunnel_target fails: the request goes into pending_request and the
\* loop, without waiting, takes it out again.
WriteTargetFails ==
  /\ serving = "target" /\ (conn = "closed" \/ hand \in BadTarget)
  /\ serving' = "open"
  /\ UNCHANGED <<loopVars, hand, pending, conn, queue, forwarded, dropped, lost>>

\* wait_for_connection_close drops start_serving wherever it waits: recv()
\* takes nothing then, but a request waiting in open_bi or write is dropped.
Cancelled ==
  /\ serving \in {"recv", "open", "target"} /\ conn = "closed"
  /\ lost' = lost \cup ({hand} \ {0}) /\ hand' = 0 /\ serving' = "off"
  /\ UNCHANGED <<loopVars, pending, conn, queue, forwarded, dropped>>

Disconnect ==
  /\ conn = "open" /\ conn' = "closed"
  /\ UNCHANGED <<loopVars, serving, hand, pending, queue, forwarded, dropped, lost>>

\* stop_async closes the connections it finds.
StopCloses == stopping /\ Disconnect

LoopStep == SendOk \/ SendTimeout \/ SendFails \/ WokenUp \/ SendQuit \/ Shutdown
ServeStep == \/ Connect \/ TakePending \/ Receive \/ ReceiveQuit \/ Open \/ OpenFails
             \/ WriteTarget \/ WriteTargetFails \/ Cancelled
Next == Accept \/ Stop \/ LoopStep \/ ServeStep \/ Disconnect

Spec == Init /\ [][Next]_vars
FairSpec ==
  Spec /\ WF_vars(LoopStep) /\ WF_vars(Shutdown) /\ WF_vars(ServeStep) /\ WF_vars(StopCloses)

-----------------------------------------------------------------------------
Streams == 1 .. MaxStream

\* Type invariant of the accept loop, the channel and start_serving.
TypeOK ==
  /\ arrived \in 0 .. MaxStream /\ held \in 0 .. MaxStream
  /\ loop \in {"accept", "send", "quit", "ended"}
  /\ active \in BOOLEAN /\ terminated \in BOOLEAN /\ stopping \in BOOLEAN
  /\ queue \in Seq(0 .. MaxStream) /\ Len(queue) <= QueueLen
  /\ serving \in {"off", "recv", "open", "target", "ended"}
  /\ hand \in 0 .. MaxStream /\ pending \in 0 .. MaxStream /\ conn \in {"open", "closed"}
  /\ forwarded \in Seq(Streams) /\ dropped \subseteq Streams /\ lost \subseteq Streams

\* Streams are forwarded in the order in which they were accepted and none
\* twice, across any number of reconnects and retries of a pending request.
ForwardedInOrder ==
  \A i, j \in 1 .. Len(forwarded) : i < j => forwarded[i] < forwarded[j]

\* start_serving never holds two requests: putting one back into
\* pending_request overwrites nothing.
OneRequestAtATime == hand = 0 \/ pending = 0

Elements(s) == {s[i] : i \in 1 .. Len(s)}

\* Every accepted stream is somewhere: nothing disappears without being counted.
NothingVanishes ==
  1 .. arrived \subseteq
    Elements(forwarded) \cup Elements(queue) \cup {held, hand, pending} \cup dropped \cup lost

\* The streams between the accept loop and start_flowing_with_codec.
Waiting == (Elements(queue) \cup {held, hand, pending}) \ {0}

Queue == INSTANCE LossyQueue WITH waiting <- Waiting, dropped <- dropped \cup lost

\* Accept loop, channel, pending_request and start_serving are together a queue
\* that loses streams at its two ends only: start_serving forwards the oldest
\* stream that waits, what it had in its hand when it was cancelled was the
\* oldest and what the accept loop drops is the newest, and no stream that was
\* forwarded or dropped comes back.
IsLossyQueue == Queue!Spec

\* Once connections stop failing, a stream in the channel is forwarded or went
\* down with a cancelled serving loop, unless the client stops or a request
\* whose target cannot be encoded is ahead of it: that one is tried for ever.
QueuedIsServed ==
  <>[][~Disconnect]_vars =>
    \A k \in {s \in Streams : \A b \in BadTarget : s < b} :
      (k \in Elements(queue)) ~> (k \in Elements(forwarded) \cup lost \/ stopping)

\* Stopping the client ends the accept loop and so frees the port, whatever
\* the channel, the serving loop and the connection are doing.
AcceptLoopEnds == stopping ~> (loop = "ended")
=============================================================================

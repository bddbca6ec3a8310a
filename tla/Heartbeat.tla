----------------------------- MODULE Heartbeat -----------------------------
(***************************************************************************)
(* The heartbeat on the login stream (src/heartbeat.rs, and the tasks that *)
(* run it in src/client.rs and src/server.rs).  The client sends           *)
(* ReqHeartbeat(seq), waits for RespHeartbeat for at most the timeout, and *)
(* closes the connection when none comes; the server answers every request *)
(* and closes the connection when the stream ends.                         *)
(*                                                                         *)
(* A stream direction is reliable and ordered: what was sent is on the way *)
(* until the link delivers it, then buffered until it is read; the end of  *)
(* the stream travels the same way.  The model starts when login is done.  *)
(***************************************************************************)
EXTENDS Naturals, Sequences

CONSTANTS
  IntervalArg, TimeoutArg,   \* the heartbeat settings as they are given, in ms
  MaxMs,                     \* the largest of them: 2^64 - 1
  SeqMod                     \* seq is a u64: it wraps at 2^64

ASSUME SettingsAssumption ==
  MaxMs \in Nat /\ MaxMs >= 15000 /\ IntervalArg \in 0 .. MaxMs /\ TimeoutArg \in 0 .. MaxMs
ASSUME SeqModAssumption == SeqMod \in Nat \ {0}

\* Mutant: two zeros disable the heartbeat like one.
ZeroDisables(interval, timeout) ==
  IF interval = 0 \/ timeout = 0 THEN <<0, 0>> ELSE <<interval, timeout>>

\* ClientConfig::create: two zeros select the defaults, one zero disables the
\* heartbeat, and a timeout below the interval is raised (saturating_mul).
Settings(interval, timeout) ==
  IF interval = 0 /\ timeout = 0 THEN <<5000, 15000>>
  ELSE IF interval = 0 \/ timeout = 0 THEN <<0, 0>>
  ELSE IF timeout >= interval THEN <<interval, timeout>>
  ELSE <<interval, IF 2 * interval <= MaxMs THEN 2 * interval ELSE MaxMs>>

\* start_heartbeat_task runs the heartbeat unless a setting is zero.
Enabled == Settings(IntervalArg, TimeoutArg)[1] # 0 /\ Settings(IntervalArg, TimeoutArg)[2] # 0

VARIABLES
  stopping,          \* client_state is Stopping or Terminated
  link, wasDown,     \* the network; history: it has been down at some time
  impaired,          \* the network was down at some time since the last request
  client, server,    \* where the two heartbeat tasks are
  seq, pong,         \* the client's counter; the request the server answers
  upNet, upBuf,      \* client to server: on the way; arrived
  downNet, downBuf,  \* server to client: on the way; arrived
  cconn, sconn       \* the connection as each side sees it

linkVars == <<link, wasDown, impaired>>
upVars == <<upNet, upBuf>>
downVars == <<downNet, downBuf>>
vars == <<stopping, linkVars, client, server, seq, pong, upVars, downVars, cconn, sconn>>

Seqs == 0 .. SeqMod - 1
Fin == SeqMod       \* the end of the stream: no sequence number

\* start_heartbeat_task with the heartbeat disabled drops both halves of the
\* login stream, which finishes it.
Init ==
  /\ stopping = FALSE /\ link = "up" /\ wasDown = FALSE /\ impaired = FALSE
  /\ client = IF Enabled THEN "tick" ELSE "ended"
  /\ upNet = IF Enabled THEN <<>> ELSE <<Fin>>
  /\ server = "recv" /\ seq = 0 /\ pong = 0
  /\ upBuf = <<>> /\ downNet = <<>> /\ downBuf = <<>>
  /\ cconn = "open" /\ sconn = "open"

-----------------------------------------------------------------------------
\* The client's heartbeat task ends and drops its halves of the stream.
ClientEnds == client' = "ended" /\ upNet' = Append(upNet, Fin)

\* Mutant: a stopping client keeps its halves of the stream.
TickStoppingKeepsStream ==
  /\ client = "tick" /\ cconn = "open" /\ stopping
  /\ client' = "ended"
  /\ UNCHANGED <<stopping, linkVars, server, seq, pong, upVars, downVars, cconn, sconn>>

\* A tick while the client is stopping: client_heartbeat returns Ok and the
\* connection is left alone.
TickStopping ==
  /\ client = "tick" /\ cconn = "open" /\ stopping
  /\ ClientEnds
  /\ UNCHANGED <<stopping, linkVars, server, seq, pong, upBuf, downVars, cconn, sconn>>

\* Mutant: the next tick does not wait for the answer.
TickWithoutWaiting ==
  /\ client \in {"tick", "wait"} /\ cconn = "open" /\ ~stopping
  /\ client' = "wait" /\ seq' = (seq + 1) % SeqMod
  /\ upNet' = Append(upNet, (seq + 1) % SeqMod)
  /\ impaired' = (link = "down")
  /\ UNCHANGED <<stopping, link, wasDown, server, pong, upBuf, downVars, cconn, sconn>>

\* A tick otherwise: the next request is sent.
Tick ==
  /\ client = "tick" /\ cconn = "open" /\ ~stopping
  /\ client' = "wait" /\ seq' = (seq + 1) % SeqMod
  /\ upNet' = Append(upNet, (seq + 1) % SeqMod)
  /\ impaired' = (link = "down")
  /\ UNCHANGED <<stopping, link, wasDown, server, pong, upBuf, downVars, cconn, sconn>>

\* A response in time: matching or not, the loop goes on.
Response ==
  /\ client = "wait" /\ cconn = "open" /\ downBuf # <<>>
  /\ downBuf' = Tail(downBuf)
  /\ client' = "tick"
  /\ UNCHANGED <<stopping, linkVars, server, seq, pong, upVars, downNet, cconn, sconn>>

\* Mutants: after a timeout the loop goes on; the task ends without closing the
\* connection.
TimeoutGoesOn ==
  /\ client = "wait" /\ cconn = "open" /\ impaired
  /\ client' = "tick"
  /\ UNCHANGED <<stopping, linkVars, server, seq, pong, upVars, downVars, cconn, sconn>>

TimeoutWithoutClose ==
  /\ client = "wait" /\ cconn = "open" /\ impaired
  /\ ClientEnds
  /\ UNCHANGED <<stopping, linkVars, server, seq, pong, upBuf, downVars, cconn, sconn>>

\* No response for the whole timeout, which takes a network that was down or
\* too slow since the request: the connection is closed.
HeartbeatTimeout ==
  /\ client = "wait" /\ cconn = "open" /\ impaired
  /\ ClientEnds /\ cconn' = "closed"
  /\ UNCHANGED <<stopping, linkVars, server, seq, pong, upBuf, downVars, sconn>>

\* The select's conn.closed() branch.
ClientSeesClose ==
  /\ client # "ended" /\ cconn = "closed"
  /\ ClientEnds
  /\ UNCHANGED <<stopping, linkVars, server, seq, pong, upBuf, downVars, cconn, sconn>>

-----------------------------------------------------------------------------
\* server_heartbeat reads a request, then answers it.
Request ==
  /\ server = "recv" /\ sconn = "open" /\ upBuf # <<>> /\ Head(upBuf) # Fin
  /\ pong' = Head(upBuf) /\ upBuf' = Tail(upBuf)
  /\ server' = "reply"
  /\ UNCHANGED <<stopping, linkVars, client, seq, upNet, downVars, cconn, sconn>>

Reply ==
  /\ server = "reply" /\ sconn = "open"
  /\ downNet' = Append(downNet, pong)
  /\ server' = "recv"
  /\ UNCHANGED <<stopping, linkVars, client, seq, pong, upVars, downBuf, cconn, sconn>>

\* The stream has ended: recv_from fails and the responder closes the connection.
StreamEnds ==
  /\ server = "recv" /\ sconn = "open" /\ upBuf # <<>> /\ Head(upBuf) = Fin
  /\ server' = "ended" /\ sconn' = "closed"
  /\ UNCHANGED <<stopping, linkVars, client, seq, pong, upVars, downVars, cconn>>

ServerSeesClose ==
  /\ server # "ended" /\ sconn = "closed"
  /\ server' = "ended"
  /\ UNCHANGED <<stopping, linkVars, client, seq, pong, upVars, downVars, cconn, sconn>>

-----------------------------------------------------------------------------
DeliverUp ==
  /\ link = "up" /\ upNet # <<>>
  /\ upBuf' = Append(upBuf, Head(upNet)) /\ upNet' = Tail(upNet)
  /\ UNCHANGED <<stopping, linkVars, client, server, seq, pong, downVars, cconn, sconn>>

DeliverDown ==
  /\ link = "up" /\ downNet # <<>>
  /\ downBuf' = Append(downBuf, Head(downNet)) /\ downNet' = Tail(downNet)
  /\ UNCHANGED <<stopping, linkVars, client, server, seq, pong, upVars, cconn, sconn>>

LinkDown ==
  /\ link = "up" /\ link' = "down" /\ wasDown' = TRUE /\ impaired' = TRUE
  /\ UNCHANGED <<stopping, client, server, seq, pong, upVars, downVars, cconn, sconn>>

LinkUp ==
  /\ link = "down" /\ link' = "up"
  /\ UNCHANGED <<stopping, wasDown, impaired, client, server, seq, pong, upVars, downVars,
                 cconn, sconn>>

\* A side learns that the other has closed, or its idle timeout expires because
\* the other has gone silent.
CloseSpreads ==
  /\ cconn # sconn /\ cconn' = "closed" /\ sconn' = "closed"
  /\ UNCHANGED <<stopping, linkVars, client, server, seq, pong, upVars, downVars>>

\* QUIC's idle timeout closes the connection on either side first.
IdleTimeout ==
  /\ link = "down"
  /\ \/ cconn = "open" /\ cconn' = "closed" /\ UNCHANGED sconn
     \/ sconn = "open" /\ sconn' = "closed" /\ UNCHANGED cconn
  /\ UNCHANGED <<stopping, linkVars, client, server, seq, pong, upVars, downVars>>

Stop ==
  /\ ~stopping /\ stopping' = TRUE
  /\ UNCHANGED <<linkVars, client, server, seq, pong, upVars, downVars, cconn, sconn>>

Next ==
  \/ Tick \/ TickStopping \/ Response \/ HeartbeatTimeout \/ ClientSeesClose
  \/ Request \/ Reply \/ StreamEnds \/ ServerSeesClose
  \/ DeliverUp \/ DeliverDown \/ LinkDown \/ LinkUp \/ CloseSpreads
  \/ IdleTimeout \/ Stop

Spec == Init /\ [][Next]_vars

\* Timers fire, ready tasks are polled, and a working link delivers; nothing
\* makes the link fail or recover, or the client stop.
Fairness ==
  /\ WF_vars(Tick) /\ WF_vars(TickStopping) /\ WF_vars(Response)
  /\ WF_vars(HeartbeatTimeout) /\ WF_vars(ClientSeesClose)
  /\ WF_vars(Request) /\ WF_vars(Reply) /\ WF_vars(StreamEnds) /\ WF_vars(ServerSeesClose)
  /\ WF_vars(DeliverUp) /\ WF_vars(DeliverDown) /\ WF_vars(CloseSpreads)

FairSpec == Spec /\ Fairness

-----------------------------------------------------------------------------
\* Type invariant of the two tasks, the stream and the connection.
TypeOK ==
  /\ stopping \in BOOLEAN /\ wasDown \in BOOLEAN /\ impaired \in BOOLEAN
  /\ link \in {"up", "down"} /\ cconn \in {"open", "closed"} /\ sconn \in {"open", "closed"}
  /\ client \in {"tick", "wait", "ended"} /\ server \in {"recv", "reply", "ended"}
  /\ seq \in Seqs /\ pong \in Seqs
  /\ upNet \in Seq(Seqs \cup {Fin}) /\ upBuf \in Seq(Seqs \cup {Fin})
  /\ downNet \in Seq(Seqs) /\ downBuf \in Seq(Seqs)

\* A response that the client reads answers its last request: the "seq
\* mismatch" branch of client_heartbeat is never taken, however late a
\* response is, because no request is sent while one is outstanding.
ResponsesMatch == client = "wait" /\ downBuf # <<>> => Head(downBuf) = seq

\* While the client's task runs, at most one heartbeat message is on the way,
\* buffered or being answered, so neither direction can fill its window.
OneInFlight ==
  client # "ended" =>
    Len(upNet) + Len(upBuf) + Len(downNet) + Len(downBuf)
      + (IF server = "reply" THEN 1 ELSE 0) <= 1

\* The heartbeat closes no connection over a network that has never failed,
\* unless the client is stopping.
HealthyStaysOpen == ~wasDown /\ ~stopping => cconn = "open" /\ sconn = "open"

\* README: "Heartbeat failure closes connection and triggers reconnect."  A
\* network that stays down is noticed by a client that is not stopping.
FailureNoticed == (Enabled /\ link = "down") ~> (link = "up" \/ cconn = "closed" \/ stopping)

\* Once the client is stopping, the connection is closed on both sides also
\* if stop() never sees it, unless the network is down.
StopHangsUp == stopping ~> (link = "down" \/ (cconn = "closed" /\ sconn = "closed"))
=============================================================================

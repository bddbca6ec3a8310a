------------------------------ MODULE UdpFlow ------------------------------
(***************************************************************************)
(* One flow of a UDP tunnel, that is, one UdpStreamKey                     *)
(* (src/udp/udp_tunnel.rs).  On the sending side start_serving looks the   *)
(* flow up in stream_map, opens a QUIC stream for it if there is none, and *)
(* queues the datagram for the stream's writer task; a reader task brings  *)
(* the replies back.  Both tasks remove the flow's key from stream_map     *)
(* when they end.  On the other side process forwards datagrams to a       *)
(* socket of its own and udp_to_quic sends the replies.                    *)
(*                                                                         *)
(* Datagrams are counted, not told apart.  Streams are slots, used again   *)
(* when nothing is left of the stream that had them: a run of the model    *)
(* may open any number of streams.                                         *)
(***************************************************************************)
EXTENDS Naturals

CONSTANTS
  Slots,      \* bound on the streams that exist at the same time
  QueueLen,   \* capacity of a writer's queue (512 in the code)
  Window      \* bound on the datagrams in a QUIC stream

ASSUME SlotAssumption == 0 \notin Slots
ASSUME LenAssumption == QueueLen \in Nat \ {0} /\ Window \in Nat \ {0}

VARIABLES
  conn,              \* the connection
  serve, sender,     \* start_serving, and the stream whose sender it has cloned
  entry,             \* the stream that stream_map has for the flow, or 0
  writer, reader,    \* the stream's two tasks
  queue,             \* the writer's queue
  up, down,          \* datagrams in the QUIC stream, either way
  process, socket    \* process and udp_to_quic on the other side

serveVars == <<serve, sender>>
sideVars == <<process, socket>>
vars == <<conn, serveVars, entry, writer, reader, queue, up, down, sideVars>>

Init ==
  /\ conn = "open" /\ serve = "recv" /\ sender = 0 /\ entry = 0
  /\ writer = [g \in Slots |-> "done"] /\ reader = [g \in Slots |-> "done"]
  /\ queue = [g \in Slots |-> 0] /\ up = [g \in Slots |-> 0] /\ down = [g \in Slots |-> 0]
  /\ process = [g \in Slots |-> "done"] /\ socket = [g \in Slots |-> "done"]

Free(g) == writer[g] = "done" /\ reader[g] = "done" /\ process[g] = "done" /\ socket[g] = "done"

-----------------------------------------------------------------------------
\* start_serving receives a datagram of the flow and open_stream clones the
\* sender out of the map ...
TakePacket ==
  /\ serve = "recv"
  /\ serve' = IF entry = 0 THEN "open" ELSE "enqueue"
  /\ sender' = entry
  /\ UNCHANGED <<conn, entry, writer, reader, queue, up, down, sideVars>>

\* ... or receives Quit, or the end of the channel.
ServeStops ==
  /\ serve = "recv" /\ serve' = "stopped"
  /\ UNCHANGED <<conn, sender, entry, writer, reader, queue, up, down, sideVars>>

\* open_stream, when the flow has no stream: open_bi and the target, then the
\* sender is published and the two tasks are spawned.
OpenStream(g) ==
  /\ serve = "open" /\ conn = "open" /\ Free(g)
  /\ serve' = "enqueue" /\ sender' = g /\ entry' = g
  /\ writer' = [writer EXCEPT ![g] = "recv"] /\ reader' = [reader EXCEPT ![g] = "recv"]
  /\ process' = [process EXCEPT ![g] = "start"]
  /\ UNCHANGED <<conn, queue, up, down, socket>>

\* open_bi or the target fails: the datagram is dropped, and the loop stops if
\* the connection is closed.
GoOn == IF conn = "closed" THEN "stopped" ELSE "recv"

\* Mutant of OpenFails: the sender is published before the target is sent.
OpenFailsPublished ==
  /\ serve = "open" /\ serve' = GoOn
  /\ \E g \in Slots : Free(g) /\ entry' = g
  /\ UNCHANGED <<conn, sender, writer, reader, queue, up, down, sideVars>>

OpenFails ==
  /\ serve = "open" /\ serve' = GoOn
  /\ UNCHANGED <<conn, sender, entry, writer, reader, queue, up, down, sideVars>>

\* try_send: a full queue drops the datagram; the queue is closed when the
\* writer task is over.
Enqueue ==
  /\ serve = "enqueue" /\ sender' = 0
  /\ serve' = IF writer[sender] = "done" THEN GoOn ELSE "recv"
  /\ queue' = [queue EXCEPT ![sender] =
                 IF writer[sender] # "done" /\ @ < QueueLen THEN @ + 1 ELSE @]
  /\ UNCHANGED <<conn, entry, writer, reader, up, down, sideVars>>

-----------------------------------------------------------------------------
\* The writer task writes a datagram to the stream.  The other side may have
\* ended without the writer knowing yet.
Write(g) ==
  /\ writer[g] = "recv" /\ queue[g] > 0 /\ conn = "open" /\ up[g] < Window
  /\ queue' = [queue EXCEPT ![g] = @ - 1]
  /\ up' = [up EXCEPT ![g] = IF process[g] = "done" THEN @ ELSE @ + 1]
  /\ UNCHANGED <<conn, serveVars, entry, writer, reader, down, sideVars>>

WriteFails(g) ==
  /\ writer[g] = "recv" /\ queue[g] > 0 /\ (conn = "closed" \/ process[g] = "done")
  /\ writer' = [writer EXCEPT ![g] = "remove"]
  /\ UNCHANGED <<conn, serveVars, entry, reader, queue, up, down, sideVars>>

\* The queue is empty and its last sender is gone.
WriterDrained(g) ==
  /\ writer[g] = "recv" /\ queue[g] = 0 /\ entry # g /\ sender # g
  /\ writer' = [writer EXCEPT ![g] = "remove"]
  /\ UNCHANGED <<conn, serveVars, entry, reader, queue, up, down, sideVars>>

\* Mutant of WriterRemoves: the removal is left to the reader task.
WriterKeepsEntry(g) ==
  /\ writer[g] = "remove"
  /\ writer' = [writer EXCEPT ![g] = "done"] /\ queue' = [queue EXCEPT ![g] = 0]
  /\ UNCHANGED <<conn, serveVars, entry, reader, up, down, sideVars>>

\* The key is removed, whichever stream it leads to by now; the end of the
\* task finishes the stream.
WriterRemoves(g) ==
  /\ writer[g] = "remove"
  /\ writer' = [writer EXCEPT ![g] = "done"] /\ entry' = 0
  /\ queue' = [queue EXCEPT ![g] = 0]
  /\ UNCHANGED <<conn, serveVars, reader, up, down, sideVars>>

\* The reader task hands a reply to the local socket.
Reply(g) ==
  /\ reader[g] = "recv" /\ down[g] > 0 /\ conn = "open"
  /\ down' = [down EXCEPT ![g] = @ - 1]
  /\ UNCHANGED <<conn, serveVars, entry, writer, reader, queue, up, sideVars>>

\* No reply for udp_timeout_ms.
ReaderTimeout(g) ==
  /\ reader[g] = "recv" /\ down[g] = 0
  /\ reader' = [reader EXCEPT ![g] = "remove"]
  /\ UNCHANGED <<conn, serveVars, entry, writer, queue, up, down, sideVars>>

\* The other side has finished the stream, or the connection is closed.
ReaderFails(g) ==
  /\ reader[g] = "recv"
  /\ \/ conn = "closed"
     \/ down[g] = 0 /\ process[g] = "done" /\ socket[g] = "done"
  /\ reader' = [reader EXCEPT ![g] = "remove"]
  /\ UNCHANGED <<conn, serveVars, entry, writer, queue, up, down, sideVars>>

\* Mutant of ReaderRemoves: the removal is left to the writer task.
ReaderKeepsEntry(g) ==
  /\ reader[g] = "remove"
  /\ reader' = [reader EXCEPT ![g] = "done"] /\ down' = [down EXCEPT ![g] = 0]
  /\ UNCHANGED <<conn, serveVars, entry, writer, queue, up, sideVars>>

ReaderRemoves(g) ==
  /\ reader[g] = "remove"
  /\ reader' = [reader EXCEPT ![g] = "done"] /\ entry' = 0
  /\ down' = [down EXCEPT ![g] = 0]
  /\ UNCHANGED <<conn, serveVars, writer, queue, up, sideVars>>

-----------------------------------------------------------------------------
\* process reads the target, resolves it and connects a socket, for which
\* udp_to_quic is spawned.
ProcessStarts(g) ==
  /\ process[g] = "start" /\ conn = "open"
  /\ process' = [process EXCEPT ![g] = "run"] /\ socket' = [socket EXCEPT ![g] = "run"]
  /\ UNCHANGED <<conn, serveVars, entry, writer, reader, queue, up, down>>

\* process returns; what is left in the stream is discarded.
ProcessOver(g) ==
  /\ process' = [process EXCEPT ![g] = "done"] /\ up' = [up EXCEPT ![g] = 0]
  /\ UNCHANGED <<conn, serveVars, entry, writer, reader, queue, down, socket>>

\* One of these fails, or a datagram cannot be sent upstream.
ProcessFails(g) ==
  /\ process[g] # "done"
  /\ ProcessOver(g)

Forward(g) ==
  /\ process[g] = "run" /\ up[g] > 0
  /\ up' = [up EXCEPT ![g] = @ - 1]
  /\ UNCHANGED <<conn, serveVars, entry, writer, reader, queue, down, sideVars>>

\* No datagram for udp_timeout_ms.
ProcessTimeout(g) ==
  /\ process[g] = "run" /\ up[g] = 0
  /\ ProcessOver(g)

\* The stream was finished by the writer, or the connection is closed.
ProcessEnds(g) ==
  /\ process[g] # "done"
  /\ conn = "closed" \/ (process[g] = "run" /\ up[g] = 0 /\ writer[g] = "done")
  /\ ProcessOver(g)

\* udp_to_quic: a reply from upstream, one at a time in the stream.  One that
\* comes when the reader is gone is discarded, which is no step.
SocketReply(g) ==
  /\ socket[g] = "run" /\ process[g] = "run" /\ conn = "open"
  /\ down[g] = 0 /\ reader[g] # "done"
  /\ down' = [down EXCEPT ![g] = 1]
  /\ UNCHANGED <<conn, serveVars, entry, writer, reader, queue, up, sideVars>>

\* Nothing from upstream for udp_timeout_ms, or an error of the socket.
SocketTimeout(g) ==
  /\ socket[g] = "run"
  /\ socket' = [socket EXCEPT ![g] = "done"]
  /\ UNCHANGED <<conn, serveVars, entry, writer, reader, queue, up, down, process>>

\* process has returned and dropped shutdown_tx.
SocketStops(g) ==
  /\ socket[g] = "run" /\ process[g] = "done"
  /\ socket' = [socket EXCEPT ![g] = "done"]
  /\ UNCHANGED <<conn, serveVars, entry, writer, reader, queue, up, down, process>>

Disconnect ==
  /\ conn = "open" /\ conn' = "closed"
  /\ UNCHANGED <<serveVars, entry, writer, reader, queue, up, down, sideVars>>

-----------------------------------------------------------------------------
ServeStep == (\E g \in Slots : OpenStream(g)) \/ Enqueue \/ (conn = "closed" /\ OpenFails)
WriterStep(g) == Write(g) \/ WriteFails(g) \/ WriterDrained(g) \/ WriterRemoves(g)
ReaderStep(g) == Reply(g) \/ ReaderFails(g) \/ ReaderRemoves(g)
ProcessStep(g) == ProcessStarts(g) \/ Forward(g) \/ ProcessEnds(g)
TimeoutOf(g) == ReaderTimeout(g) \/ ProcessTimeout(g) \/ SocketTimeout(g)

Next ==
  \/ TakePacket \/ ServeStops \/ ServeStep \/ OpenFails \/ Disconnect
  \/ \E g \in Slots : \/ WriterStep(g) \/ ReaderStep(g) \/ ProcessStep(g) \/ TimeoutOf(g)
                      \/ ProcessFails(g) \/ SocketReply(g) \/ SocketStops(g)

Spec == Init /\ [][Next]_vars

\* Tasks that can run are polled; nothing makes a datagram or a reply come, the
\* connection close or the tunnel stop.
Fairness ==
  /\ WF_vars(ServeStep)
  /\ \A g \in Slots : /\ WF_vars(WriterStep(g)) /\ WF_vars(ReaderStep(g))
                      /\ WF_vars(ProcessStep(g)) /\ WF_vars(SocketStops(g))

\* A task that goes on waiting is ended by its timer: an assumption of the
\* properties that need it.
TimerFairness ==
  \A g \in Slots : WF_vars(ReaderTimeout(g)) /\ WF_vars(ProcessTimeout(g)) /\ WF_vars(SocketTimeout(g))

FairSpec == Spec /\ Fairness

-----------------------------------------------------------------------------
\* Type invariant of the flow's tasks on both sides.
TypeOK ==
  /\ conn \in {"open", "closed"} /\ sender \in Slots \cup {0} /\ entry \in Slots \cup {0}
  /\ serve \in {"recv", "open", "enqueue", "stopped"}
  /\ writer \in [Slots -> {"recv", "remove", "done"}]
  /\ reader \in [Slots -> {"recv", "remove", "done"}]
  /\ queue \in [Slots -> 0 .. QueueLen] /\ up \in [Slots -> 0 .. Window]
  /\ down \in [Slots -> 0 .. 1]
  /\ process \in [Slots -> {"start", "run", "done"}] /\ socket \in [Slots -> {"run", "done"}]

\* stream_map never leads to a stream that lost one of its tasks, whoever
\* removes and publishes: without a writer the entry would swallow the flow's
\* datagrams, and without a reader nothing would ever time it out.
NoDeadEntry == entry # 0 => writer[entry] # "done" /\ reader[entry] # "done"

\* When datagrams and replies stop, in the end nothing is left: no map entry,
\* no task on either side and no upstream socket, although the tasks keep the
\* map alive that holds the sender they wait for.
IdleCleansUp ==
  TimerFairness /\ <>[][~TakePacket /\ \A g \in Slots : ~SocketReply(g)]_vars =>
    <>[](entry = 0 /\ \A g \in Slots : Free(g))

\* A timer or an error ends a task that the other tasks leave running.
Unexpected(g) ==
  (TimeoutOf(g) \/ ProcessFails(g)) /\ ~ReaderFails(g) /\ ~ProcessEnds(g) /\ ~SocketStops(g)

\* From some time on nothing fails, and no timer expires.
HealthyInTheEnd ==
  <>[][~ServeStops /\ ~OpenFails /\ ~Disconnect /\ \A g \in Slots : ~Unexpected(g)]_vars

\* Whatever timeouts and removals went before, a flow whose datagrams keep
\* coming is forwarded again once the outside world is healthy.
KeepsFlowing ==
  HealthyInTheEnd /\ []<><<TakePacket>>_vars => []<><<\E g \in Slots : Forward(g)>>_vars
=============================================================================

--------------------------- MODULE UdpFlowProofs ---------------------------
(***************************************************************************)
(* stream_map never leads to a stream that has lost a task, for any number *)
(* of streams and any queue length.                                        *)
(***************************************************************************)
EXTENDS UdpFlow, TLAPS

\* The stream whose sender start_serving holds is told apart from none in the
\* step that uses it.
SenderHeld == serve = "enqueue" => sender # 0

IInv == TypeOK /\ SenderHeld /\ NoDeadEntry

\* Lemma: the inductive invariant holds when start_serving begins.
LEMMA InitIInv == Init => IInv
  BY LenAssumption DEF Init, IInv, TypeOK, SenderHeld, NoDeadEntry

\* Lemma: every step of the loop, of the tasks of either side and of the
\* connection keeps the inductive invariant.
LEMMA NextIInv == IInv /\ [Next]_vars => IInv'
<1> SUFFICES ASSUME IInv, [Next]_vars PROVE IInv'
  OBVIOUS
<1> USE SlotAssumption, LenAssumption DEF IInv, TypeOK, SenderHeld, NoDeadEntry, serveVars, sideVars
<1>1. CASE TakePacket
  BY <1>1 DEF TakePacket
<1>2. CASE ServeStops
  BY <1>2 DEF ServeStops
<1>3. ASSUME NEW g \in Slots, OpenStream(g) PROVE IInv'
  BY <1>3 DEF OpenStream
<1>4. CASE OpenFails
  BY <1>4 DEF OpenFails, GoOn
<1>5. CASE Enqueue
  <2>1. sender \in Slots
    BY <1>5 DEF Enqueue
  <2>2. queue' \in [Slots -> 0 .. QueueLen]
    BY <1>5, <2>1 DEF Enqueue
  <2> QED
    BY <1>5, <2>2 DEF Enqueue, GoOn
<1>6. CASE Disconnect
  BY <1>6 DEF Disconnect
<1>7. ASSUME NEW g \in Slots, WriterStep(g) PROVE IInv'
  BY <1>7 DEF WriterStep, Write, WriteFails, WriterDrained, WriterRemoves
<1>8. ASSUME NEW g \in Slots, ReaderStep(g) PROVE IInv'
  BY <1>8 DEF ReaderStep, Reply, ReaderFails, ReaderRemoves
<1>9. ASSUME NEW g \in Slots, ProcessStep(g) \/ ProcessFails(g) PROVE IInv'
  BY <1>9 DEF ProcessStep, ProcessStarts, Forward, ProcessEnds, ProcessFails, ProcessOver
<1>10. ASSUME NEW g \in Slots, TimeoutOf(g) PROVE IInv'
  BY <1>10 DEF TimeoutOf, ReaderTimeout, ProcessTimeout, SocketTimeout, ProcessOver
<1>11. ASSUME NEW g \in Slots, SocketReply(g) \/ SocketStops(g) PROVE IInv'
  BY <1>11 DEF SocketReply, SocketStops
<1>12. CASE UNCHANGED vars
  BY <1>12 DEF vars
<1> QED
  BY <1>1, <1>2, <1>3, <1>4, <1>5, <1>6, <1>7, <1>8, <1>9, <1>10, <1>11, <1>12
  DEF Next, ServeStep

\* Theorem: the loop and the tasks of open_stream and process stay within
\* their states, and queues within their capacity.
THEOREM TypeCorrect == Spec => []TypeOK
<1>1. IInv => TypeOK
  BY DEF IInv
<1> QED
  BY <1>1, InitIInv, NextIInv, PTL DEF Spec

\* Theorem: however the writer and reader tasks of successive streams of a flow
\* interleave their removals with open_stream, the map entry has both tasks.
THEOREM EntryIsAlive == Spec => []NoDeadEntry
<1>1. IInv => NoDeadEntry
  BY DEF IInv
<1> QED
  BY <1>1, InitIInv, NextIInv, PTL DEF Spec
=============================================================================

----------------------------- MODULE StreamFlow -----------------------------
(***************************************************************************)
(* One TCP connection over one QUIC stream: the listening end "in" and the *)
(* end "out" that reads the target and dials it (src/tcp/tcp_tunnel.rs).   *)
(* Each end copies in two tasks: s2q from its socket to QUIC and q2s back, *)
(* either as they are (start_flowing in src/util/stream_util.rs, mode      *)
(* "plain") or through zstd (start_flowing_with_codec in src/codec/mod.rs).*)
(* What zstd makes of the bytes is the subject of CodecPairs; here it only *)
(* delays them until a flush.  In mode "zstd" flush_interval_ms is less    *)
(* than stream_timeout_ms, as by default, in mode "lazy" it is not.  Both  *)
(* ends are in the same mode, as in tests/codec_e2e.rs.                    *)
(*                                                                         *)
(* Bytes are items that are counted.  Functions on Ends describe, at x,    *)
(* the socket, its peer and the two tasks, and the direction of the QUIC   *)
(* stream that starts at x.                                                *)
(***************************************************************************)
EXTENDS Naturals

CONSTANTS
  Modes,          \* the modes to consider
  MaxItems,       \* bound: what each peer sends
  Window          \* capacity of a direction of the QUIC stream

ASSUME FlowAssumption ==
  /\ Modes \subseteq {"plain", "zstd", "lazy"}
  /\ MaxItems \in Nat /\ Window \in Nat \ {0}

VARIABLES
  mode, phase,    \* what an end does before its two tasks run
  s2q, q2s,       \* the tasks: "read", "write", "wait" (timed out) or "over"
  peer,           \* the peer's sending side: "open", "eof" or "gone" (reset)
  sent, inbox,    \* sent by the peer; of these, not yet read by s2q
  pend,           \* read by s2q (for zstd: in the encoder), not yet written
  wire, fin,      \* in the stream; its sending half is finished
  stopped,        \* its receiving half was dropped (STOP_SENDING)
  hand,           \* read by q2s, not yet written
  out, got,       \* in the socket towards the peer; read by the peer
  shut,           \* q2s has read the end of the stream and shut the socket down
  lost,           \* the QUIC connection is lost
  cut             \* history: the direction from x was ended by a failure or timeout

peerVars == <<peer, sent, got>>
tasks == <<s2q, q2s>>
quicVars == <<wire, fin, stopped>>
flowVars == <<mode, phase, tasks, peerVars, inbox, pend, quicVars, hand, out, shut, lost, cut>>

Ends == {"in", "out"}
Other(x) == IF x = "in" THEN "out" ELSE "in"
All(v) == [x \in Ends |-> v]

FlowInit ==
  /\ mode \in Modes
  /\ phase = All("setup")
  /\ s2q = All("read") /\ q2s = All("read")
  /\ peer = All("open") /\ sent = All(0) /\ got = All(0) /\ inbox = All(0)
  /\ pend = All(0) /\ wire = All(0) /\ fin = All(FALSE) /\ stopped = All(FALSE)
  /\ hand = All(0) /\ out = All(0) /\ shut = All(FALSE)
  /\ lost = FALSE /\ cut = All(FALSE)

Flowing(x) == phase[x] = "flow"
TasksOver(x) == s2q[x] = "over" /\ q2s[x] = "over"

-----------------------------------------------------------------------------
\* Before the tasks.  "out" reads the target and dials it, "in" needs only its
\* peer's address; with the codec both ends exchange pair ids, which takes both.
Starts(x) ==
  /\ phase[x] = "setup"
  /\ phase' = [phase EXCEPT ![x] = IF mode # "plain" THEN "shake" ELSE "flow"]
  /\ UNCHANGED <<mode, tasks, peerVars, inbox, pend, quicVars, hand, out, shut, lost, cut>>

Shaken(x) ==
  /\ phase[x] = "shake" /\ ~lost /\ phase[Other(x)] \in {"shake", "flow"}
  /\ phase' = [phase EXCEPT ![x] = "flow"]
  /\ UNCHANGED <<mode, tasks, peerVars, inbox, pend, quicVars, hand, out, shut, lost, cut>>

\* No target, no upstream connection, no peer address, or a failed or timed
\* out handshake: the socket and both halves of the stream are dropped.
GivesUp(x) ==
  /\ ~Flowing(x)
  /\ phase' = [phase EXCEPT ![x] = "flow"]
  /\ s2q' = [s2q EXCEPT ![x] = "over"] /\ q2s' = [q2s EXCEPT ![x] = "over"]
  /\ fin' = [fin EXCEPT ![x] = TRUE] /\ stopped' = [stopped EXCEPT ![Other(x)] = TRUE]
  /\ cut' = All(TRUE)
  /\ UNCHANGED <<mode, peerVars, inbox, pend, wire, hand, out, shut, lost>>

-----------------------------------------------------------------------------
\* s2q: stream_to_quic, run_encoder.  Dropping the SendStream finishes it.
S2qAt(x, step) == Flowing(x) /\ s2q[x] = step
S2qOver(x) == s2q' = [s2q EXCEPT ![x] = "over"] /\ fin' = [fin EXCEPT ![x] = TRUE]
Cut(x) == cut' = [cut EXCEPT ![x] = TRUE]

\* What can end the await at which s2q is: a read (or, for zstd, the flush timer
\* or the last flush at the end of the input), a write, or a oneshot channel,
\* which the other task fires when it times out or ends.
FlushAtEof(x) ==   \* mutant: no flush timer
  S2qAt(x, "read") /\ mode # "plain" /\ pend[x] > 0 /\ peer[x] = "eof" /\ inbox[x] = 0

CanRead(x) == S2qAt(x, "read") /\ peer[x] # "gone" /\ inbox[x] > 0
CanFlush(x) == S2qAt(x, "read") /\ mode # "plain" /\ pend[x] > 0
AtEof(x) == S2qAt(x, "read") /\ peer[x] = "eof" /\ inbox[x] = 0 /\ pend[x] = 0
AtReset(x) == S2qAt(x, "read") /\ peer[x] = "gone"
TimesOut(x) == S2qAt(x, "read") /\ peer[x] = "open" /\ inbox[x] = 0 /\ mode # "zstd"
CanWrite(x) == S2qAt(x, "write") /\ ~lost /\ ~stopped[x] /\ wire[x] < Window
WriteRefused(x) == S2qAt(x, "write") /\ (lost \/ stopped[x])
S2qReleased(x) == S2qAt(x, "wait") /\ q2s[x] \in {"wait", "over"}
S2qCanGoOn(x) == \/ CanRead(x) \/ CanFlush(x) \/ AtEof(x) \/ AtReset(x) \/ TimesOut(x)
                 \/ CanWrite(x) \/ WriteRefused(x) \/ S2qReleased(x)

\* An item is read; zstd may keep it.
ReadSocket(x) ==
  /\ CanRead(x)
  /\ inbox' = [inbox EXCEPT ![x] = @ - 1] /\ pend' = [pend EXCEPT ![x] = @ + 1]
  /\ \/ s2q' = [s2q EXCEPT ![x] = "write"]
     \/ mode # "plain" /\ UNCHANGED s2q
  /\ UNCHANGED <<mode, phase, q2s, peerVars, quicVars, hand, out, shut, lost, cut>>

\* The flush timer, or the flush at the end of the stream.
Flush(x) ==
  /\ CanFlush(x)
  /\ s2q' = [s2q EXCEPT ![x] = "write"]
  /\ UNCHANGED <<mode, phase, q2s, peerVars, inbox, pend, quicVars, hand, out, shut, lost, cut>>

WriteQuic(x) ==
  /\ CanWrite(x)
  /\ wire' = [wire EXCEPT ![x] = @ + pend[x]] /\ pend' = [pend EXCEPT ![x] = 0]
  /\ s2q' = [s2q EXCEPT ![x] = "read"]
  /\ UNCHANGED <<mode, phase, q2s, peerVars, inbox, fin, stopped, hand, out, shut, lost, cut>>

WriteQuicFails(x) ==
  /\ WriteRefused(x) /\ S2qOver(x) /\ Cut(x)
  /\ UNCHANGED <<mode, phase, q2s, peerVars, inbox, pend, wire, stopped, hand, out, shut, lost>>

\* Mutant: the end of the input ends the encoder without the last flush.
ReadEofUnflushed(x) ==
  /\ S2qAt(x, "read") /\ peer[x] = "eof" /\ inbox[x] = 0
  /\ S2qOver(x)
  /\ UNCHANGED <<mode, phase, q2s, peerVars, inbox, pend, wire, stopped, hand, out, shut, lost, cut>>

\* The end of the input, when nothing is left to flush.
ReadEof(x) ==
  /\ AtEof(x) /\ S2qOver(x)
  /\ UNCHANGED <<mode, phase, q2s, peerVars, inbox, pend, wire, stopped, hand, out, shut, lost, cut>>

ReadFails(x) ==
  /\ AtReset(x) /\ S2qOver(x) /\ Cut(x)
  /\ UNCHANGED <<mode, phase, q2s, peerVars, inbox, pend, wire, stopped, hand, out, shut, lost>>

\* Nothing was read for stream_timeout_ms.  With the codec every tick of the
\* flush timer starts the read and its timeout anew.
ReadTimeout(x) ==
  /\ TimesOut(x) /\ Cut(x)
  /\ IF mode = "plain" THEN s2q' = [s2q EXCEPT ![x] = "wait"] /\ UNCHANGED fin ELSE S2qOver(x)
  /\ UNCHANGED <<mode, phase, q2s, peerVars, inbox, pend, wire, stopped, hand, out, shut, lost>>

S2qWaitEnds(x) ==
  /\ S2qReleased(x) /\ S2qOver(x)
  /\ UNCHANGED <<mode, phase, q2s, peerVars, inbox, pend, wire, stopped, hand, out, shut, lost, cut>>

-----------------------------------------------------------------------------
\* q2s: quic_to_stream, run_decoder.  Dropping the RecvStream stops the sender.
Q2sAt(y, step) == Flowing(y) /\ q2s[y] = step
Q2sOverUnstopped(y) == q2s' = [q2s EXCEPT ![y] = "over"] /\ UNCHANGED stopped   \* mutant: it is kept
Q2sOver(y) == q2s' = [q2s EXCEPT ![y] = "over"] /\ stopped' = [stopped EXCEPT ![Other(y)] = TRUE]

\* What can end the await at which q2s is.
CanReadQuic(y) == Q2sAt(y, "read") /\ ~lost /\ wire[Other(y)] > 0
AtFin(y) == Q2sAt(y, "read") /\ ~lost /\ wire[Other(y)] = 0 /\ fin[Other(y)]
QuicTimesOut(y) == Q2sAt(y, "read") /\ ~lost /\ wire[Other(y)] = 0 /\ ~fin[Other(y)]
QuicBroken(y) == Q2sAt(y, "read") /\ lost
SocketTakes(y) == Q2sAt(y, "write") /\ peer[y] # "gone" /\ out[y] = 0
SocketRefuses(y) == Q2sAt(y, "write") /\ peer[y] = "gone"
Q2sReleased(y) == Q2sAt(y, "wait") /\ s2q[y] \in {"wait", "over"}
Q2sCanGoOn(y) == \/ CanReadQuic(y) \/ AtFin(y) \/ QuicTimesOut(y) \/ QuicBroken(y)
                 \/ SocketTakes(y) \/ SocketRefuses(y) \/ Q2sReleased(y)

ReadQuic(y) ==
  /\ CanReadQuic(y)
  /\ wire' = [wire EXCEPT ![Other(y)] = @ - 1] /\ hand' = [hand EXCEPT ![y] = 1]
  /\ q2s' = [q2s EXCEPT ![y] = "write"]
  /\ UNCHANGED <<mode, phase, s2q, peerVars, inbox, pend, fin, stopped, out, shut, lost, cut>>

\* Mutant: what the socket took is written again.
WriteSocketAgain(y) ==
  /\ SocketTakes(y)
  /\ out' = [out EXCEPT ![y] = 1]
  /\ \/ hand' = [hand EXCEPT ![y] = 0] /\ q2s' = [q2s EXCEPT ![y] = "read"]
     \/ UNCHANGED <<hand, q2s>>
  /\ UNCHANGED <<mode, phase, s2q, peerVars, inbox, pend, quicVars, shut, lost, cut>>

WriteSocket(y) ==
  /\ SocketTakes(y)
  /\ hand' = [hand EXCEPT ![y] = 0] /\ out' = [out EXCEPT ![y] = 1]
  /\ q2s' = [q2s EXCEPT ![y] = "read"]
  /\ UNCHANGED <<mode, phase, s2q, peerVars, inbox, pend, quicVars, shut, lost, cut>>

WriteSocketFails(y) ==
  /\ SocketRefuses(y) /\ Q2sOver(y) /\ Cut(Other(y))
  /\ UNCHANGED <<mode, phase, s2q, peerVars, inbox, pend, wire, fin, hand, out, shut, lost>>

\* Mutant: the loop goes on after the end of the stream.
QuicEofGoesOn(y) ==
  /\ AtFin(y) /\ shut' = [shut EXCEPT ![y] = TRUE]
  /\ UNCHANGED <<mode, phase, tasks, peerVars, inbox, pend, quicVars, hand, out, lost, cut>>

QuicEof(y) ==
  /\ AtFin(y) /\ Q2sOver(y) /\ shut' = [shut EXCEPT ![y] = TRUE]
  /\ UNCHANGED <<mode, phase, s2q, peerVars, inbox, pend, wire, fin, hand, out, lost, cut>>

ReadQuicFails(y) ==
  /\ QuicBroken(y) /\ Q2sOver(y) /\ Cut(Other(y))
  /\ UNCHANGED <<mode, phase, s2q, peerVars, inbox, pend, wire, fin, hand, out, shut, lost>>

QuicTimeout(y) ==
  /\ QuicTimesOut(y)
  /\ IF mode = "plain" THEN q2s' = [q2s EXCEPT ![y] = "wait"] /\ UNCHANGED stopped ELSE Q2sOver(y)
  /\ Cut(Other(y))
  /\ UNCHANGED <<mode, phase, s2q, peerVars, inbox, pend, wire, fin, hand, out, shut, lost>>

Q2sWaitEnds(y) ==
  /\ Q2sReleased(y) /\ Q2sOver(y)
  /\ UNCHANGED <<mode, phase, s2q, peerVars, inbox, pend, wire, fin, hand, out, shut, lost, cut>>

-----------------------------------------------------------------------------
\* The peers and the connection.  An end whose tasks are both over has dropped
\* its socket.
PeerSends(x) ==
  /\ peer[x] = "open" /\ sent[x] < MaxItems /\ ~TasksOver(x)
  /\ sent' = [sent EXCEPT ![x] = @ + 1] /\ inbox' = [inbox EXCEPT ![x] = @ + 1]
  /\ UNCHANGED <<mode, phase, tasks, peer, got, pend, quicVars, hand, out, shut, lost, cut>>

PeerEnds(x) ==
  /\ ~TasksOver(x)
  /\ \/ peer[x] = "open" /\ peer' = [peer EXCEPT ![x] = "eof"]
     \/ peer[x] # "gone" /\ peer' = [peer EXCEPT ![x] = "gone"]
  /\ UNCHANGED <<mode, phase, tasks, sent, got, inbox, pend, quicVars, hand, out, shut, lost, cut>>

PeerCanRead(y) == out[y] > 0 /\ peer[y] # "gone"
PeerReads(y) ==
  /\ PeerCanRead(y)
  /\ out' = [out EXCEPT ![y] = 0] /\ got' = [got EXCEPT ![y] = @ + 1]
  /\ UNCHANGED <<mode, phase, tasks, peer, sent, inbox, pend, quicVars, hand, shut, lost, cut>>

ConnLost ==
  /\ ~lost /\ \E x \in Ends : ~TasksOver(x)
  /\ lost' = TRUE
  /\ UNCHANGED <<mode, phase, tasks, peerVars, inbox, pend, quicVars, hand, out, shut, cut>>

S2qStep(x) == \/ ReadSocket(x) \/ Flush(x) \/ WriteQuic(x) \/ WriteQuicFails(x) \/ ReadEof(x) \/ ReadFails(x)
              \/ ReadTimeout(x) \/ S2qWaitEnds(x)
Q2sStep(y) == \/ ReadQuic(y) \/ WriteSocket(y) \/ WriteSocketFails(y) \/ QuicEof(y)
              \/ ReadQuicFails(y) \/ QuicTimeout(y) \/ Q2sWaitEnds(y)
SetupStep(x) == Starts(x) \/ Shaken(x) \/ GivesUp(x)

FlowNext ==
  \/ \E x \in Ends : \/ SetupStep(x) \/ S2qStep(x) \/ Q2sStep(x)
                     \/ PeerSends(x) \/ PeerEnds(x) \/ PeerReads(x)
  \/ ConnLost

FlowSpec == FlowInit /\ [][FlowNext]_flowVars

-----------------------------------------------------------------------------
\* Type invariant of the two ends, with the capacities of stream and sockets.
FlowTypeOK ==
  /\ mode \in Modes /\ phase \in [Ends -> {"setup", "shake", "flow"}]
  /\ s2q \in [Ends -> {"read", "write", "wait", "over"}]
  /\ q2s \in [Ends -> {"read", "write", "wait", "over"}]
  /\ peer \in [Ends -> {"open", "eof", "gone"}]
  /\ sent \in [Ends -> Nat] /\ inbox \in [Ends -> Nat] /\ pend \in [Ends -> Nat]
  /\ wire \in [Ends -> Nat] /\ got \in [Ends -> Nat]
  /\ hand \in [Ends -> 0 .. 1] /\ out \in [Ends -> 0 .. 1]
  /\ fin \in [Ends -> BOOLEAN] /\ stopped \in [Ends -> BOOLEAN] /\ shut \in [Ends -> BOOLEAN]
  /\ lost \in BOOLEAN /\ cut \in [Ends -> BOOLEAN]

\* The end of the stream that a peer sees is true: if nothing failed or timed
\* out in a direction, q2s shuts the socket down only after all that the peer
\* at the other end has sent (and that peer has ended).
EofIsFaithful ==
  \A x \in Ends : shut[Other(x)] /\ ~cut[x] =>
    peer[x] # "open" /\ out[Other(x)] + got[Other(x)] = sent[x]

\* The tunnelled connection as its peers see it: what has been written to a
\* socket has been given, and a socket that is shut down tells the end.
Pipe == INSTANCE DuplexPipe WITH
  given  <- [x \in Ends |-> out[Other(x)] + got[Other(x)]],
  closed <- [x \in Ends |-> peer[x] # "open"],
  ended  <- [x \in Ends |-> shut[Other(x)]],
  broken <- cut

\* Four tasks, two buffers and a stream, with or without zstd and whatever fails
\* and times out in which order, are together a pipe in each direction: nothing
\* is made up, given twice or given after the end, and a direction that was not
\* cut ends only when all of it has been given.
IsDuplexPipe == Pipe!Spec

\* All that happens by itself (tasks are polled, timers fire, peers read what
\* they are sent) has happened: no setup, task or reading peer can go on.
AtRest ==
  \A x \in Ends : Flowing(x) /\ ~S2qCanGoOn(x) /\ ~Q2sCanGoOn(x) /\ ~PeerCanRead(x)

\* Both q2s have timed out ("plain") and wait for their s2q without reading, and
\* each s2q is in write_all, which has no timeout, with nobody to open its window.
CrossBlocked ==
  /\ mode = "plain" /\ ~lost
  /\ \A x \in Ends : q2s[x] = "wait" /\ s2q[x] = "write" /\ wire[x] >= Window

\* The encoder of an idle stream: each tick of the flush timer restarts its
\* read, so that it never times out.
IdleEncoder(x) == mode = "zstd" /\ s2q[x] = "read" /\ peer[x] = "open"

\* "TCP idle timeout" (bin/rstun.rs), "either the sender is dropped or the task
\* times out" (src/util/stream_util.rs): the tasks of a stream that come to rest
\* are over at both ends, whoever waits for whom and however the peers, the
\* connection and the timeouts end it.  There are exactly two exceptions.
RestsWhenOver ==
  AtRest => CrossBlocked \/ \A x \in Ends : q2s[x] = "over" /\ (s2q[x] = "over" \/ IdleEncoder(x))

\* Nothing is withheld: at rest the encoder has written what it has read, or has
\* ended, although zstd buffers and the peer may stay silent after it.
HeldIsWritten ==
  AtRest /\ mode # "plain" => \A x \in Ends : pend[x] = 0 \/ s2q[x] = "over"

\* How far the stream is from rest: every item has places to pass, every task
\* and every peer states to go through.
TaskRank(step) == CASE step = "read" -> 3 [] step = "write" -> 2 [] step = "wait" -> 1 [] OTHER -> 0
PeerRank(p) == CASE p = "open" -> 2 [] p = "eof" -> 1 [] OTHER -> 0
PhaseRank(p) == CASE p = "setup" -> 2 [] p = "shake" -> 1 [] OTHER -> 0
ItemRank(x) ==
  12 * (MaxItems - sent[x]) + 10 * inbox[x] + 8 * pend[x] + 6 * wire[x] + 4 * hand[x] + 2 * out[x]
StateRank(x) == PhaseRank(phase[x]) + PeerRank(peer[x]) + TaskRank(s2q[x]) + TaskRank(q2s[x])
EndRank(x) == StateRank(x) + ItemRank(x)
Rank == EndRank("in") + EndRank("out") + IF lost THEN 0 ELSE 1

\* No loop of a copy task goes round without moving data: every step brings the
\* stream closer to rest, so that for a bounded amount of data it gets there.
ComesToRest == [][Rank' < Rank]_flowVars
=============================================================================

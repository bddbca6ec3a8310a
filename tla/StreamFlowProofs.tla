-------------------------- MODULE StreamFlowProofs --------------------------
(***************************************************************************)
(* Proof, for any number of items and any window, that the tasks of both   *)
(* ends are together a pipe in each direction (DuplexPipe), in particular  *)
(* that the end is only passed on after everything that was sent; that     *)
(* every step brings them closer to rest; and what they are like at rest.  *)
(***************************************************************************)
EXTENDS StreamFlow, TLAPS

\* The two ends are each other's other end.
LEMMA OtherIs == \A x \in Ends : Other(x) \in Ends /\ Other(x) # x /\ Other(Other(x)) = x
  BY DEF Ends, Other

-----------------------------------------------------------------------------
\* The arithmetic of the ranks: an item that is moved to its next place weighs less.
\* What is counted at an end is a number.
LEMMA ItemTypes ==
  ASSUME FlowTypeOK, NEW x \in Ends
  PROVE  /\ inbox[x] \in Nat /\ pend[x] \in Nat /\ wire[x] \in Nat /\ hand[x] \in Nat /\ out[x] \in Nat
         /\ sent[x] \in Nat /\ MaxItems \in Nat
  BY FlowAssumption DEF FlowTypeOK

\* The peer sends an item: it is one place further.
LEMMA SentIsLighter ==
  ASSUME FlowTypeOK, NEW z \in Ends, sent'[z] = sent[z] + 1, inbox'[z] = inbox[z] + 1, UNCHANGED <<pend, wire, hand, out>>
  PROVE  ItemRank(z)' <= ItemRank(z) - 2
  BY ItemTypes DEF ItemRank

\* s2q reads one.
LEMMA ReadIsLighter ==
  ASSUME FlowTypeOK, NEW z \in Ends, inbox'[z] = inbox[z] - 1, pend'[z] = pend[z] + 1, UNCHANGED <<sent, wire, hand, out>>
  PROVE  ItemRank(z)' <= ItemRank(z) - 2
  BY ItemTypes DEF ItemRank

\* s2q writes all that it holds to the stream.
LEMMA WrittenIsLighter ==
  ASSUME FlowTypeOK, NEW z \in Ends, wire'[z] = wire[z] + pend[z], pend'[z] = 0, pend[z] > 0, UNCHANGED <<sent, inbox, hand, out>>
  PROVE  ItemRank(z)' <= ItemRank(z) - 2
  BY ItemTypes DEF ItemRank

\* q2s writes one to its socket.
LEMMA GivenIsLighter ==
  ASSUME FlowTypeOK, NEW z \in Ends, hand'[z] = 0, hand[z] = 1, out'[z] = 1, out[z] = 0, UNCHANGED <<sent, inbox, pend, wire>>
  PROVE  ItemRank(z)' <= ItemRank(z) - 2
  BY ItemTypes DEF ItemRank

\* The peer reads it.
LEMMA TakenIsLighter ==
  ASSUME FlowTypeOK, NEW z \in Ends, out'[z] = 0, out[z] = 1, UNCHANGED <<sent, inbox, pend, wire, hand>>
  PROVE  ItemRank(z)' <= ItemRank(z) - 2
  BY ItemTypes DEF ItemRank

\* q2s at z reads an item from the stream, which takes it off the other end y.
LEMMA StreamIsLighter ==
  ASSUME FlowTypeOK, NEW z \in Ends, NEW y \in Ends, hand[z] = 0, hand'[z] = 1, hand'[y] = hand[y],
         wire'[y] = wire[y] - 1, wire'[z] = wire[z], UNCHANGED <<sent, inbox, pend, out>>
  PROVE  ItemRank(y)' = ItemRank(y) - 6 /\ ItemRank(z)' = ItemRank(z) + 4
<1>1. ItemRank(y)' = ItemRank(y) - 6
  BY ItemTypes DEF ItemRank
<1>2. ItemRank(z)' = ItemRank(z) + 4
  BY ItemTypes DEF ItemRank
<1> QED
  BY <1>1, <1>2

RanksAreNat == Rank \in Nat /\ \A x \in Ends : StateRank(x) \in Nat /\ ItemRank(x) \in Nat

\* A step at z leaves the other end as it is.
Moves(z) ==
  \A x \in Ends \ {z} :
    /\ phase'[x] = phase[x] /\ peer'[x] = peer[x] /\ s2q'[x] = s2q[x] /\ q2s'[x] = q2s[x]
    /\ sent'[x] = sent[x] /\ inbox'[x] = inbox[x] /\ pend'[x] = pend[x]
    /\ wire'[x] = wire[x] /\ hand'[x] = hand[x] /\ out'[x] = out[x]

\* A step at one end that brings this end closer to rest brings the stream closer.
LEMMA OneEndCloser ==
  ASSUME RanksAreNat, RanksAreNat', NEW z \in Ends, Moves(z), lost' = lost, EndRank(z)' < EndRank(z)
  PROVE  Rank' < Rank
<1>1. \A x \in Ends : EndRank(x) \in Nat /\ EndRank(x)' \in Nat
  BY DEF RanksAreNat, EndRank
<1>2. \A x \in Ends \ {z} : EndRank(x)' = EndRank(x)
  BY DEF Moves, EndRank, StateRank, ItemRank
<1>3. CASE z = "in"
  BY <1>1, <1>2, <1>3 DEF Rank, Ends
<1>4. CASE z = "out"
  BY <1>1, <1>2, <1>4 DEF Rank, Ends
<1> QED
  BY <1>3, <1>4 DEF Ends

\* A task or a peer goes on to a later state and moves no data ...
LEMMA StateCloser ==
  ASSUME RanksAreNat, RanksAreNat', NEW z \in Ends, Moves(z),
         UNCHANGED <<sent, inbox, pend, wire, hand, out, lost>>, StateRank(z)' < StateRank(z)
  PROVE  Rank' < Rank
<1>1. ItemRank(z)' = ItemRank(z)
  BY DEF ItemRank
<1>2. EndRank(z)' < EndRank(z)
  BY <1>1 DEF RanksAreNat, EndRank
<1> QED
  BY <1>2, OneEndCloser

\* ... or data is moved to the next place, after which a task may read again.
LEMMA ItemCloser ==
  ASSUME RanksAreNat, RanksAreNat', NEW z \in Ends, Moves(z), lost' = lost,
         StateRank(z)' <= StateRank(z) + 1, ItemRank(z)' <= ItemRank(z) - 2
  PROVE  Rank' < Rank
<1>1. EndRank(z)' < EndRank(z)
  BY DEF RanksAreNat, EndRank
<1> QED
  BY <1>1, OneEndCloser

-----------------------------------------------------------------------------
\* Items are neither made up nor duplicated: what the peer at x has sent is
\* somewhere on its way to the other peer, or stays where a task has ended.
Balanced(x) ==
  sent[x] = inbox[x] + pend[x] + wire[x] + hand[Other(x)] + out[Other(x)] + got[Other(x)]

\* q2s holds an item while it writes, and none while it reads or waits.
HandMatches(y) ==
  (q2s[y] = "write" => hand[y] = 1) /\ (q2s[y] \in {"read", "wait"} => hand[y] = 0)

\* s2q waits only after a timeout.  A direction is finished by a task that is
\* over, and unless it was cut after the end of the input and the last write.
FinDone(x) ==
  /\ s2q[x] = "wait" => cut[x]
  /\ fin[x] => s2q[x] = "over"
  /\ fin[x] /\ ~cut[x] => inbox[x] = 0 /\ pend[x] = 0 /\ peer[x] # "open"

\* A socket is shut down after the end of a stream that has been read to it.
ShutDone(x) ==
  shut[Other(x)] => /\ fin[x] /\ wire[x] = 0
                    /\ hand[Other(x)] = 0 /\ q2s[Other(x)] = "over"

IInv ==
  FlowTypeOK /\ \A x \in Ends : Balanced(x) /\ HandMatches(x) /\ FinDone(x) /\ ShutDone(x)

\* Nothing has been sent and nothing is over in the initial state.
LEMMA InitIInv == FlowInit => IInv
<1> SUFFICES ASSUME FlowInit PROVE IInv
  OBVIOUS
<1> USE FlowAssumption DEF FlowInit, Ends, Other, All
<1>1. FlowTypeOK
  <2>1. mode \in Modes /\ phase \in [Ends -> {"setup", "shake", "flow"}]
        /\ s2q \in [Ends -> {"read", "write", "wait", "over"}]
        /\ q2s \in [Ends -> {"read", "write", "wait", "over"}] /\ peer \in [Ends -> {"open", "eof", "gone"}]
    OBVIOUS
  <2>2. sent \in [Ends -> Nat] /\ inbox \in [Ends -> Nat] /\ pend \in [Ends -> Nat]
        /\ wire \in [Ends -> Nat] /\ got \in [Ends -> Nat]
        /\ hand \in [Ends -> 0 .. 1] /\ out \in [Ends -> 0 .. 1]
    OBVIOUS
  <2>3. fin \in [Ends -> BOOLEAN] /\ stopped \in [Ends -> BOOLEAN] /\ shut \in [Ends -> BOOLEAN]
        /\ lost \in BOOLEAN /\ cut \in [Ends -> BOOLEAN]
    BY Zenon
  <2> QED
    BY <2>1, <2>2, <2>3 DEF FlowTypeOK
<1>2. ASSUME NEW x \in Ends PROVE Balanced(x) /\ HandMatches(x) /\ FinDone(x) /\ ShutDone(x)
  BY DEF Balanced, HandMatches, FinDone, ShutDone
<1> QED
  BY <1>1, <1>2 DEF IInv

\* Every step preserves the inductive invariant.
LEMMA NextIInv == IInv /\ [FlowNext]_flowVars => IInv'
<1> SUFFICES ASSUME IInv, [FlowNext]_flowVars PROVE IInv'
  OBVIOUS
<1> USE FlowAssumption DEF IInv, FlowTypeOK, Balanced, HandMatches, FinDone, ShutDone, Ends, Other
<1>0. CASE UNCHANGED flowVars
  BY <1>0 DEF flowVars, tasks, peerVars, quicVars
<1>1. ASSUME NEW z \in Ends, Starts(z) PROVE IInv'
  BY <1>1 DEF Starts, tasks, peerVars, quicVars
<1>2. ASSUME NEW z \in Ends, Shaken(z) PROVE IInv'
  BY <1>2 DEF Shaken, tasks, peerVars, quicVars
<1>3. ASSUME NEW z \in Ends, GivesUp(z) PROVE IInv'
  <2>1. FlowTypeOK'
    BY <1>3, Zenon DEF GivesUp, Flowing, peerVars, All
  <2>2. ASSUME NEW x \in Ends PROVE (Balanced(x) /\ HandMatches(x))'
    BY <1>3 DEF GivesUp, Flowing, peerVars, All
  <2>3. ASSUME NEW x \in Ends PROVE (FinDone(x) /\ ShutDone(x))'
    BY <1>3 DEF GivesUp, Flowing, peerVars, All
  <2> QED
    BY <2>1, <2>2, <2>3
<1>4. ASSUME NEW z \in Ends, ReadSocket(z) PROVE IInv'
  <2>1. FlowTypeOK'
    BY <1>4 DEF ReadSocket, CanRead, peerVars, quicVars, S2qAt, Flowing
  <2>2. ASSUME NEW x \in Ends PROVE Balanced(x)'
    BY <1>4 DEF ReadSocket, CanRead, peerVars, quicVars, S2qAt, Flowing
  <2>3. ASSUME NEW x \in Ends PROVE HandMatches(x)'
    BY <1>4 DEF ReadSocket, CanRead, peerVars, quicVars, S2qAt, Flowing
  <2>4. ASSUME NEW x \in Ends PROVE (FinDone(x) /\ ShutDone(x))'
    BY <1>4 DEF ReadSocket, CanRead, peerVars, quicVars, S2qAt, Flowing
  <2> QED
    BY <2>1, <2>2, <2>3, <2>4
<1>5. ASSUME NEW z \in Ends, Flush(z) PROVE IInv'
  BY <1>5 DEF Flush, CanFlush, peerVars, quicVars, S2qAt, Flowing
<1>6. ASSUME NEW z \in Ends, WriteQuic(z) PROVE IInv'
  <2>1. FlowTypeOK'
    BY <1>6 DEF WriteQuic, CanWrite, peerVars, S2qAt, Flowing
  <2>2. ASSUME NEW x \in Ends PROVE Balanced(x)'
    BY <1>6 DEF WriteQuic, CanWrite, peerVars, S2qAt, Flowing
  <2>3. ASSUME NEW x \in Ends PROVE HandMatches(x)'
    BY <1>6 DEF WriteQuic, CanWrite, peerVars, S2qAt, Flowing
  <2>4. ASSUME NEW x \in Ends PROVE (FinDone(x) /\ ShutDone(x))'
    BY <1>6 DEF WriteQuic, CanWrite, peerVars, S2qAt, Flowing
  <2> QED
    BY <2>1, <2>2, <2>3, <2>4
<1>7. ASSUME NEW z \in Ends, WriteQuicFails(z) PROVE IInv'
  BY <1>7 DEF WriteQuicFails, WriteRefused, peerVars, S2qAt, Flowing, S2qOver, Cut
<1>8. ASSUME NEW z \in Ends, ReadEof(z) PROVE IInv'
  BY <1>8 DEF ReadEof, AtEof, peerVars, S2qAt, Flowing, S2qOver
<1>9. ASSUME NEW z \in Ends, ReadFails(z) PROVE IInv'
  BY <1>9 DEF ReadFails, AtReset, peerVars, S2qAt, Flowing, S2qOver, Cut
<1>10. ASSUME NEW z \in Ends, ReadTimeout(z) PROVE IInv'
  <2>1. CASE mode = "plain"
    BY <1>10, <2>1 DEF ReadTimeout, TimesOut, peerVars, S2qAt, Flowing, S2qOver, Cut
  <2>2. CASE mode # "plain"
    <3>1. s2q' = [s2q EXCEPT ![z] = "over"] /\ fin' = [fin EXCEPT ![z] = TRUE]
          /\ cut' = [cut EXCEPT ![z] = TRUE] /\ s2q[z] = "read"
          /\ UNCHANGED <<mode, phase, q2s, peer, sent, got, inbox, pend, wire, stopped, hand, out, shut, lost>>
      BY <1>10, <2>2 DEF ReadTimeout, TimesOut, S2qAt, peerVars, S2qOver, Cut
    <3>2. FlowTypeOK'
      BY <3>1, Zenon
    <3>3. ASSUME NEW x \in Ends PROVE (Balanced(x) /\ HandMatches(x))'
      BY <3>1, Zenon
    <3>4. ASSUME NEW x \in Ends PROVE (FinDone(x) /\ ShutDone(x))'
      BY <3>1
    <3> QED
      BY <3>2, <3>3, <3>4
  <2> QED
    BY <2>1, <2>2
<1>11. ASSUME NEW z \in Ends, S2qWaitEnds(z) PROVE IInv'
  BY <1>11 DEF S2qWaitEnds, S2qReleased, peerVars, S2qAt, Flowing, S2qOver
<1>12. ASSUME NEW z \in Ends, ReadQuic(z) PROVE IInv'
  BY <1>12 DEF ReadQuic, CanReadQuic, peerVars, Q2sAt, Flowing
<1>13. ASSUME NEW z \in Ends, WriteSocket(z) PROVE IInv'
  <2>1. hand' = [hand EXCEPT ![z] = 0] /\ out' = [out EXCEPT ![z] = 1]
        /\ q2s' = [q2s EXCEPT ![z] = "read"] /\ out[z] = 0 /\ q2s[z] = "write"
        /\ UNCHANGED <<mode, phase, s2q, peer, sent, got, inbox, pend, wire, fin, stopped, shut, lost, cut>>
    BY <1>13 DEF WriteSocket, SocketTakes, Q2sAt, peerVars, quicVars
  <2>2. FlowTypeOK'
    BY <2>1
  <2>3. ASSUME NEW x \in Ends PROVE (Balanced(x) /\ HandMatches(x))'
    BY <2>1
  <2>4. ASSUME NEW x \in Ends PROVE (FinDone(x) /\ ShutDone(x))'
    BY <2>1
  <2> QED
    BY <2>2, <2>3, <2>4
<1>14. ASSUME NEW z \in Ends, WriteSocketFails(z) PROVE IInv'
  BY <1>14 DEF WriteSocketFails, SocketRefuses, peerVars, Q2sAt, Flowing, Q2sOver, Cut
<1>15. ASSUME NEW z \in Ends, QuicEof(z) PROVE IInv'
  <2>1. FlowTypeOK'
    BY <1>15, Zenon DEF QuicEof, AtFin, peerVars, Q2sAt, Flowing, Q2sOver
  <2>2. ASSUME NEW x \in Ends PROVE Balanced(x)'
    BY <1>15 DEF QuicEof, AtFin, peerVars, Q2sAt, Flowing, Q2sOver
  <2>3. ASSUME NEW x \in Ends PROVE HandMatches(x)'
    BY <1>15 DEF QuicEof, AtFin, peerVars, Q2sAt, Flowing, Q2sOver
  <2>4. ASSUME NEW x \in Ends PROVE (FinDone(x) /\ ShutDone(x))'
    BY <1>15, Zenon DEF QuicEof, AtFin, peerVars, Q2sAt, Flowing, Q2sOver
  <2> QED
    BY <2>1, <2>2, <2>3, <2>4
<1>16. ASSUME NEW z \in Ends, ReadQuicFails(z) PROVE IInv'
  BY <1>16 DEF ReadQuicFails, QuicBroken, peerVars, Q2sAt, Flowing, Q2sOver, Cut
<1>17. ASSUME NEW z \in Ends, QuicTimeout(z) PROVE IInv'
  <2>1. CASE mode = "plain"
    <3>1. q2s' = [q2s EXCEPT ![z] = "wait"] /\ cut' = [cut EXCEPT ![Other(z)] = TRUE] /\ q2s[z] = "read"
          /\ UNCHANGED <<mode, phase, s2q, peer, sent, got, inbox, pend, wire, fin, stopped, hand, out, shut, lost>>
      BY <1>17, <2>1 DEF QuicTimeout, QuicTimesOut, peerVars, Q2sAt, Flowing, Q2sOver, Cut
    <3>2. FlowTypeOK'
      BY <3>1, Zenon
    <3>3. ASSUME NEW x \in Ends PROVE (Balanced(x) /\ HandMatches(x))'
      BY <3>1
    <3>4. ASSUME NEW x \in Ends PROVE (FinDone(x) /\ ShutDone(x))'
      BY <3>1, Zenon
    <3> QED
      BY <3>2, <3>3, <3>4
  <2>2. CASE mode # "plain"
    <3>1. q2s' = [q2s EXCEPT ![z] = "over"] /\ stopped' = [stopped EXCEPT ![Other(z)] = TRUE]
          /\ cut' = [cut EXCEPT ![Other(z)] = TRUE] /\ q2s[z] = "read"
          /\ UNCHANGED <<mode, phase, s2q, peer, sent, got, inbox, pend, wire, fin, hand, out, shut, lost>>
      BY <1>17, <2>2 DEF QuicTimeout, QuicTimesOut, peerVars, Q2sAt, Flowing, Q2sOver, Cut
    <3>2. FlowTypeOK'
      BY <3>1, Zenon
    <3>3. ASSUME NEW x \in Ends PROVE (Balanced(x) /\ HandMatches(x))'
      BY <3>1
    <3>4. ASSUME NEW x \in Ends PROVE (FinDone(x) /\ ShutDone(x))'
      BY <3>1, Zenon
    <3> QED
      BY <3>2, <3>3, <3>4
  <2> QED
    BY <2>1, <2>2
<1>18. ASSUME NEW z \in Ends, Q2sWaitEnds(z) PROVE IInv'
  <2>1. FlowTypeOK'
    BY <1>18, Zenon DEF Q2sWaitEnds, Q2sReleased, peerVars, Q2sAt, Flowing, Q2sOver
  <2>2. ASSUME NEW x \in Ends PROVE Balanced(x)'
    BY <1>18 DEF Q2sWaitEnds, Q2sReleased, peerVars, Q2sAt, Flowing, Q2sOver
  <2>3. ASSUME NEW x \in Ends PROVE HandMatches(x)'
    BY <1>18 DEF Q2sWaitEnds, Q2sReleased, peerVars, Q2sAt, Flowing, Q2sOver
  <2>4. ASSUME NEW x \in Ends PROVE (FinDone(x) /\ ShutDone(x))'
    BY <1>18 DEF Q2sWaitEnds, Q2sReleased, peerVars, Q2sAt, Flowing, Q2sOver
  <2> QED
    BY <2>1, <2>2, <2>3, <2>4
<1>19. ASSUME NEW z \in Ends, PeerSends(z) PROVE IInv'
  <2>1. FlowTypeOK'
    BY <1>19 DEF PeerSends, tasks, quicVars, TasksOver
  <2>2. ASSUME NEW x \in Ends PROVE Balanced(x)'
    BY <1>19 DEF PeerSends, tasks, quicVars, TasksOver
  <2>3. ASSUME NEW x \in Ends PROVE HandMatches(x)'
    BY <1>19 DEF PeerSends, tasks, quicVars, TasksOver
  <2>4. ASSUME NEW x \in Ends PROVE (FinDone(x) /\ ShutDone(x))'
    BY <1>19 DEF PeerSends, tasks, quicVars, TasksOver
  <2> QED
    BY <2>1, <2>2, <2>3, <2>4
<1>20. ASSUME NEW z \in Ends, PeerEnds(z) PROVE IInv'
  <2>1. CASE peer' = [peer EXCEPT ![z] = "eof"]
    BY <1>20, <2>1 DEF PeerEnds, tasks, quicVars, TasksOver
  <2>2. CASE peer' = [peer EXCEPT ![z] = "gone"]
    BY <1>20, <2>2 DEF PeerEnds, tasks, quicVars, TasksOver
  <2> QED
    BY <1>20, <2>1, <2>2 DEF PeerEnds
<1>21. ASSUME NEW z \in Ends, PeerReads(z) PROVE IInv'
  <2>1. FlowTypeOK'
    BY <1>21 DEF PeerReads, PeerCanRead, tasks, quicVars
  <2>2. ASSUME NEW x \in Ends PROVE Balanced(x)'
    BY <1>21 DEF PeerReads, PeerCanRead, tasks, quicVars
  <2>3. ASSUME NEW x \in Ends PROVE HandMatches(x)'
    BY <1>21 DEF PeerReads, PeerCanRead, tasks, quicVars
  <2>4. ASSUME NEW x \in Ends PROVE (FinDone(x) /\ ShutDone(x))'
    BY <1>21 DEF PeerReads, PeerCanRead, tasks, quicVars
  <2> QED
    BY <2>1, <2>2, <2>3, <2>4
<1>22. CASE ConnLost
  BY <1>22 DEF ConnLost, tasks, peerVars, quicVars, TasksOver
<1> QED
  BY <1>0, <1>1, <1>2, <1>3, <1>4, <1>5, <1>6, <1>7, <1>8, <1>9, <1>10, <1>11, <1>12,
     <1>13, <1>14, <1>15, <1>16, <1>17, <1>18, <1>19, <1>20, <1>21, <1>22, Zenon DEF FlowNext, SetupStep, S2qStep, Q2sStep

\* The inductive invariant holds in every state.
THEOREM InvariantHolds == FlowSpec => []IInv
  BY InitIInv, NextIInv, PTL DEF FlowSpec

\* The stream's end is passed on after all of its items, whatever the mode.
THEOREM EofAfterEverything == FlowSpec => []EofIsFaithful
<1>1. IInv => EofIsFaithful
  <2> SUFFICES ASSUME IInv, NEW x \in Ends, shut[Other(x)], ~cut[x]
               PROVE  peer[x] # "open" /\ out[Other(x)] + got[Other(x)] = sent[x]
    BY DEF EofIsFaithful
  <2>1. Other(x) \in Ends
    BY DEF Ends, Other
  <2>2. fin[x] /\ wire[x] = 0 /\ hand[Other(x)] = 0
    BY <2>1 DEF IInv, ShutDone
  <2>3. inbox[x] = 0 /\ pend[x] = 0 /\ peer[x] # "open"
    BY <2>2 DEF IInv, FinDone
  <2>4. out[Other(x)] \in Nat /\ got[Other(x)] \in Nat
    BY <2>1 DEF IInv, FlowTypeOK
  <2> QED
    BY <2>2, <2>3, <2>4 DEF IInv, Balanced
<1> QED
  BY <1>1, InvariantHolds, PTL

\* The type invariant holds, with one item in a task's hand and in a socket.
THEOREM TypeCorrect == FlowSpec => []FlowTypeOK
<1>1. IInv => FlowTypeOK
  BY DEF IInv
<1> QED
  BY <1>1, InvariantHolds, PTL

-----------------------------------------------------------------------------
\* The state of the pipe, as the peers see it.
Given == [x \in Ends |-> out[Other(x)] + got[Other(x)]]
Closed == [x \in Ends |-> peer[x] # "open"]
Told == [x \in Ends |-> shut[Other(x)]]

\* No more has been given than was sent.
LEMMA GivenIsSent ==
  ASSUME IInv, NEW y \in Ends, hand[y] = 1
  PROVE  Given[Other(y)] < sent[Other(y)] /\ Given[Other(y)] = out[y] + got[y]
<1>1. Other(y) \in Ends /\ Other(Other(y)) = y
  BY OtherIs
<1>2. sent[Other(y)] = inbox[Other(y)] + pend[Other(y)] + wire[Other(y)] + hand[y] + out[y] + got[y]
  BY <1>1 DEF IInv, Balanced
<1>3. inbox[Other(y)] \in Nat /\ pend[Other(y)] \in Nat /\ wire[Other(y)] \in Nat /\ out[y] \in Nat /\ got[y] \in Nat
  BY <1>1 DEF IInv, FlowTypeOK
<1>4. Given[Other(y)] = out[y] + got[y]
  BY <1>1 DEF Given
<1> QED
  BY <1>2, <1>3, <1>4

\* A step that the peers do not see is a stutter of the pipe.
LEMMA Unseen ==
  ASSUME UNCHANGED <<sent, out, got, peer, shut, cut>>
  PROVE  UNCHANGED Pipe!vars
  BY DEF Pipe!vars

\* A step that only cuts directions breaks them.
LEMMA Cuts ==
  ASSUME FlowTypeOK, NEW S \in SUBSET Ends, cut' = [x \in Ends |-> cut[x] \/ x \in S],
         UNCHANGED <<sent, out, got, peer, shut>>
  PROVE  Pipe!Next
  BY DEF Pipe!Next, Pipe!Break

\* The pipe is empty at first.
LEMMA InitIsPipe == FlowInit => Pipe!Init
<1> SUFFICES ASSUME FlowInit PROVE Pipe!Init
  OBVIOUS
<1>1. \A x \in Ends : out[x] = 0 /\ got[x] = 0 /\ peer[x] = "open" /\ shut[x] = FALSE
  BY DEF FlowInit, All
<1>2. \A x \in Ends : out[Other(x)] + got[Other(x)] = 0 /\ shut[Other(x)] = FALSE
  BY <1>1, OtherIs
<1>3. sent = [x \in Ends |-> 0] /\ cut = [x \in Ends |-> FALSE]
  BY DEF FlowInit, All
<1> QED
  BY <1>1, <1>2, <1>3, Zenon DEF Pipe!Init

\* Every step of the two ends, their peers and the connection is a step of the
\* pipe or not seen by the peers.
LEMMA NextIsPipe == IInv /\ [FlowNext]_flowVars => [Pipe!Next]_Pipe!vars
<1> SUFFICES ASSUME IInv, [FlowNext]_flowVars PROVE Pipe!Next \/ UNCHANGED Pipe!vars
  OBVIOUS
<1>0. FlowTypeOK
  BY DEF IInv
<1>1. CASE UNCHANGED flowVars
  BY <1>1, Unseen DEF flowVars, peerVars
<1>2. ASSUME NEW z \in Ends,
             Starts(z) \/ Shaken(z) \/ ReadSocket(z) \/ Flush(z) \/ WriteQuic(z) \/ ReadEof(z) \/ S2qWaitEnds(z)
      PROVE  UNCHANGED Pipe!vars
  BY <1>2, Unseen DEF Starts, Shaken, ReadSocket, Flush, WriteQuic, ReadEof, S2qWaitEnds, peerVars
<1>3. ASSUME NEW z \in Ends, ReadQuic(z) \/ Q2sWaitEnds(z) PROVE UNCHANGED Pipe!vars
  BY <1>3, Unseen DEF ReadQuic, CanReadQuic, Q2sWaitEnds, peerVars
<1>4. CASE ConnLost
  BY <1>4, Unseen DEF ConnLost, peerVars
<1>5. ASSUME NEW z \in Ends, GivesUp(z) PROVE Pipe!Next
  <2>1. cut' = [x \in Ends |-> cut[x] \/ x \in Ends]
    BY <1>5, Zenon DEF GivesUp, All
  <2> QED
    BY <1>0, <1>5, <2>1, Cuts, Zenon DEF GivesUp, peerVars
<1>6. ASSUME NEW z \in Ends, Cut(z) PROVE cut' = [x \in Ends |-> cut[x] \/ x \in {z}]
  BY <1>0, <1>6, Zenon DEF Cut, FlowTypeOK
<1>7. ASSUME NEW z \in Ends, WriteQuicFails(z) \/ ReadFails(z) \/ ReadTimeout(z) PROVE Pipe!Next
  <2>1. Cut(z) /\ UNCHANGED <<sent, out, got, peer, shut>>
    BY <1>7 DEF WriteQuicFails, WriteRefused, ReadFails, ReadTimeout, peerVars
  <2>2. cut' = [x \in Ends |-> cut[x] \/ x \in {z}] /\ {z} \in SUBSET Ends
    BY <1>6, <2>1
  <2> QED
    BY <1>0, <2>1, <2>2, Cuts, Zenon
<1>8. ASSUME NEW z \in Ends, WriteSocketFails(z) \/ ReadQuicFails(z) \/ QuicTimeout(z) PROVE Pipe!Next
  <2>1. Cut(Other(z)) /\ UNCHANGED <<sent, out, got, peer, shut>>
    BY <1>8 DEF WriteSocketFails, SocketRefuses, ReadQuicFails, QuicTimeout, peerVars
  <2>2. Other(z) \in Ends
    BY OtherIs
  <2>3. cut' = [x \in Ends |-> cut[x] \/ x \in {Other(z)}]
    BY <1>6, <2>1, <2>2
  <2> QED
    BY <1>0, <2>1, <2>2, <2>3, Cuts, Zenon
<1>9. ASSUME NEW z \in Ends, WriteSocket(z) PROVE Pipe!Give(Other(z))
  <2>1. hand[z] = 1 /\ q2s[z] = "write"
    BY <1>9 DEF WriteSocket, SocketTakes, Q2sAt, IInv, HandMatches
  <2>2. ~shut[z]
    BY <2>1, OtherIs DEF IInv, ShutDone
  <2>3. out[z] = 0 /\ out' = [out EXCEPT ![z] = 1] /\ UNCHANGED <<sent, got, peer, shut, cut>>
    BY <1>9 DEF WriteSocket, SocketTakes, peerVars
  <2>4. out'[z] + got[z] = out[z] + got[z] + 1 /\ \A x \in Ends : x # z => out'[x] = out[x]
    BY <1>0, <2>3 DEF FlowTypeOK
  <2>5. Given' = [Given EXCEPT ![Other(z)] = @ + 1]
    BY <2>3, <2>4, OtherIs DEF Given
  <2> QED
    BY <2>1, <2>2, <2>3, <2>5, OtherIs, GivenIsSent DEF Pipe!Give, Given
<1>10. ASSUME NEW z \in Ends, QuicEof(z) PROVE Pipe!End(Other(z))
  <2>1. fin[Other(z)] /\ wire[Other(z)] = 0 /\ q2s[z] = "read" /\ shut' = [shut EXCEPT ![z] = TRUE]
        /\ UNCHANGED <<sent, out, got, peer, cut>>
    BY <1>10 DEF QuicEof, AtFin, Q2sAt, peerVars
  <2>2. hand[z] = 0 /\ ~shut[z]
    BY <2>1, OtherIs DEF IInv, HandMatches, ShutDone
  <2>3. Told' = [Told EXCEPT ![Other(z)] = TRUE]
    BY <1>0, <2>1, OtherIs, Zenon DEF Told, FlowTypeOK
  <2>4. ~cut[Other(z)] => peer[Other(z)] # "open" /\ inbox[Other(z)] = 0 /\ pend[Other(z)] = 0
    BY <2>1, OtherIs DEF IInv, FinDone
  <2>5. sent[Other(z)] = inbox[Other(z)] + pend[Other(z)] + wire[Other(z)] + hand[z] + out[z] + got[z]
    BY OtherIs DEF IInv, Balanced
  <2>6. out[z] \in Nat /\ got[z] \in Nat
    BY <1>0 DEF FlowTypeOK
  <2>7. ~cut[Other(z)] => sent[Other(z)] = out[z] + got[z]
    BY <2>1, <2>2, <2>4, <2>5, <2>6
  <2> QED
    BY <2>1, <2>2, <2>3, <2>4, <2>7, OtherIs, Zenon DEF Pipe!End, Told
<1>11. ASSUME NEW z \in Ends, PeerSends(z) PROVE Pipe!Send(z)
  BY <1>0, <1>11, Zenon DEF PeerSends, Pipe!Send, FlowTypeOK
<1>12. ASSUME NEW z \in Ends, PeerEnds(z) PROVE Pipe!Close(z) \/ UNCHANGED Pipe!vars
  <2>1. UNCHANGED <<sent, out, got, shut, cut>>
    BY <1>12 DEF PeerEnds
  <2>2. peer'[z] # "open" /\ \A x \in Ends : x # z => peer'[x] = peer[x]
    BY <1>0, <1>12 DEF PeerEnds, FlowTypeOK
  <2>3. CASE peer[z] = "open"
    <3>1. Closed' = [Closed EXCEPT ![z] = TRUE]
      BY <2>2, Zenon DEF Closed
    <3> QED
      BY <2>1, <2>3, <3>1, Zenon DEF Pipe!Close, Closed
  <2>4. CASE peer[z] # "open"
    <3>1. Closed' = Closed
      BY <2>2, <2>4 DEF Closed
    <3> QED
      BY <2>1, <3>1 DEF Pipe!vars, Closed
  <2> QED
    BY <2>3, <2>4
<1>13. ASSUME NEW z \in Ends, PeerReads(z) PROVE UNCHANGED Pipe!vars
  <2>1. UNCHANGED <<sent, peer, shut, cut>>
    BY <1>13 DEF PeerReads
  <2>2. \A x \in Ends : out'[x] + got'[x] = out[x] + got[x]
    BY <1>0, <1>13 DEF PeerReads, PeerCanRead, FlowTypeOK
  <2> QED
    BY <2>1, <2>2, OtherIs DEF Pipe!vars
<1> QED
  BY <1>1, <1>2, <1>3, <1>4, <1>5, <1>7, <1>8, <1>9, <1>10, <1>11, <1>12, <1>13, OtherIs
     DEF FlowNext, SetupStep, S2qStep, Q2sStep, Pipe!Next

\* The tasks of both ends implement the pipe that the peers expect, in every
\* mode, for any window and amount of data, whatever fails or times out.
THEOREM ImplementsPipe == FlowSpec => IsDuplexPipe
  BY InitIsPipe, NextIsPipe, InvariantHolds, PTL DEF FlowSpec, IsDuplexPipe, Pipe!Spec

-----------------------------------------------------------------------------
\* A q2s that is over has stopped the other end's s2q; only plain tasks wait; an
\* s2q that writes has something to write, and a plain one writes all it reads.
TaskFacts(x) ==
  /\ q2s[x] = "over" => stopped[Other(x)]
  /\ s2q[x] = "wait" \/ q2s[x] = "wait" => mode = "plain"
  /\ s2q[x] = "write" => pend[x] > 0
  /\ mode = "plain" /\ s2q[x] = "read" => pend[x] = 0
  /\ sent[x] <= MaxItems

Tasks == \A x \in Ends : TaskFacts(x)

\* Nothing has been read and no task waits or is over at first.
LEMMA InitTasks == FlowInit => Tasks
  BY FlowAssumption DEF FlowInit, Tasks, TaskFacts, Ends, Other, All

\* Every step of the tasks preserves what their places say.
LEMMA NextTasks == FlowTypeOK /\ Tasks /\ [FlowNext]_flowVars => Tasks'
<1> SUFFICES ASSUME FlowTypeOK, Tasks, [FlowNext]_flowVars, NEW x \in Ends PROVE TaskFacts(x)'
  BY DEF Tasks
<1> USE FlowAssumption DEF FlowTypeOK, Ends, Other
<1>0. TaskFacts(x) /\ TaskFacts(Other(x))
  BY DEF Tasks
<1> USE <1>0 DEF TaskFacts
<1>1. CASE UNCHANGED flowVars
  BY <1>1 DEF flowVars, tasks, peerVars, quicVars
<1>2. ASSUME NEW z \in Ends, Starts(z) \/ Shaken(z) PROVE TaskFacts(x)'
  BY <1>2 DEF Starts, Shaken, tasks, peerVars, quicVars
<1>3. ASSUME NEW z \in Ends, GivesUp(z) PROVE TaskFacts(x)'
  BY <1>3 DEF GivesUp, peerVars
<1>4. ASSUME NEW z \in Ends, ReadSocket(z) PROVE TaskFacts(x)'
  BY <1>4 DEF ReadSocket, CanRead, S2qAt, peerVars, quicVars
<1>5. ASSUME NEW z \in Ends, Flush(z) PROVE TaskFacts(x)'
  BY <1>5 DEF Flush, CanFlush, S2qAt, peerVars, quicVars
<1>6. ASSUME NEW z \in Ends, WriteQuic(z) PROVE TaskFacts(x)'
  BY <1>6 DEF WriteQuic, peerVars
<1>7. ASSUME NEW z \in Ends, WriteQuicFails(z) \/ ReadEof(z) \/ ReadFails(z) \/ S2qWaitEnds(z) PROVE TaskFacts(x)'
  BY <1>7 DEF WriteQuicFails, ReadEof, ReadFails, S2qWaitEnds, S2qOver, peerVars
<1>8. ASSUME NEW z \in Ends, ReadTimeout(z) PROVE TaskFacts(x)'
  BY <1>8 DEF ReadTimeout, S2qOver, peerVars
<1>9. ASSUME NEW z \in Ends, ReadQuic(z) \/ WriteSocket(z) PROVE TaskFacts(x)'
  BY <1>9 DEF ReadQuic, WriteSocket, peerVars, quicVars
<1>10. ASSUME NEW z \in Ends, WriteSocketFails(z) \/ QuicEof(z) \/ ReadQuicFails(z) \/ Q2sWaitEnds(z) PROVE TaskFacts(x)'
  BY <1>10 DEF WriteSocketFails, QuicEof, ReadQuicFails, Q2sWaitEnds, Q2sOver, peerVars
<1>11. ASSUME NEW z \in Ends, QuicTimeout(z) PROVE TaskFacts(x)'
  BY <1>11 DEF QuicTimeout, Q2sOver, peerVars
<1>12. ASSUME NEW z \in Ends, PeerSends(z) PROVE TaskFacts(x)'
  BY <1>12 DEF PeerSends, tasks, quicVars
<1>13. ASSUME NEW z \in Ends, PeerEnds(z) \/ PeerReads(z) PROVE TaskFacts(x)'
  BY <1>13 DEF PeerEnds, PeerReads, tasks, quicVars
<1>14. CASE ConnLost
  BY <1>14 DEF ConnLost, tasks, peerVars, quicVars
<1> QED
  BY <1>1, <1>2, <1>3, <1>4, <1>5, <1>6, <1>7, <1>8, <1>9, <1>10, <1>11, <1>12, <1>13, <1>14,
     Zenon DEF FlowNext, SetupStep, S2qStep, Q2sStep

\* At rest a q2s is over, or it is a plain one that waits for its s2q.
LEMMA Q2sAtRest ==
  ASSUME FlowTypeOK, Tasks, AtRest, NEW x \in Ends
  PROVE  q2s[x] = "over" \/ (mode = "plain" /\ q2s[x] = "wait" /\ s2q[x] \notin {"wait", "over"})
<1>1. Flowing(x) /\ ~Q2sCanGoOn(x) /\ ~PeerCanRead(x)
  BY DEF AtRest
<1>2. q2s[x] # "read"
  <2> SUFFICES ASSUME q2s[x] = "read" PROVE FALSE
    OBVIOUS
  <2>1. wire[Other(x)] \in Nat
    BY OtherIs, ItemTypes, Zenon
  <2> QED
    BY <1>1, <2>1 DEF Q2sCanGoOn, CanReadQuic, AtFin, QuicTimesOut, QuicBroken, Q2sAt
<1>3. q2s[x] # "write"
  <2>1. out[x] \in 0 .. 1
    BY Zenon DEF FlowTypeOK
  <2> QED
    BY <1>1, <2>1 DEF Q2sCanGoOn, SocketTakes, SocketRefuses, PeerCanRead, Q2sAt
<1>4. q2s[x] = "wait" => mode = "plain" /\ s2q[x] \notin {"wait", "over"}
  BY <1>1 DEF Q2sCanGoOn, Q2sReleased, Q2sAt, Tasks, TaskFacts
<1> QED
  BY <1>2, <1>3, <1>4 DEF FlowTypeOK

\* At rest an s2q is over, or its write is blocked, or it is an idle encoder that
\* holds nothing back.
LEMMA S2qAtRest ==
  ASSUME FlowTypeOK, Tasks, AtRest, NEW x \in Ends
  PROVE  \/ s2q[x] = "over"
         \/ s2q[x] = "write" /\ ~lost /\ ~stopped[x] /\ wire[x] >= Window
         \/ IdleEncoder(x) /\ pend[x] = 0
<1>1. Flowing(x) /\ ~S2qCanGoOn(x)
  BY DEF AtRest
<1>2. inbox[x] \in Nat /\ pend[x] \in Nat /\ wire[x] \in Nat /\ Window \in Nat
      /\ peer[x] \in {"open", "eof", "gone"} /\ mode \in {"plain", "zstd", "lazy"}
  BY FlowAssumption DEF FlowTypeOK
<1>3. CASE s2q[x] = "read"
  <2>1. peer[x] # "gone"
    BY <1>1, <1>3, Zenon DEF S2qCanGoOn, AtReset, S2qAt
  <2>2. inbox[x] = 0
    BY <1>1, <1>2, <1>3, <2>1 DEF S2qCanGoOn, CanRead, S2qAt
  <2>3. pend[x] = 0
    BY <1>1, <1>2, <1>3 DEF S2qCanGoOn, CanFlush, S2qAt, Tasks, TaskFacts
  <2>4. peer[x] = "open"
    BY <1>1, <1>2, <1>3, <2>1, <2>2, <2>3 DEF S2qCanGoOn, AtEof, S2qAt
  <2>5. mode = "zstd"
    BY <1>1, <1>3, <2>2, <2>4 DEF S2qCanGoOn, TimesOut, S2qAt
  <2> QED
    BY <1>3, <2>3, <2>4, <2>5, Zenon DEF IdleEncoder
<1>4. CASE s2q[x] = "write"
  BY <1>1, <1>2, <1>4 DEF S2qCanGoOn, CanWrite, WriteRefused, S2qAt
<1>5. s2q[x] # "wait"
  BY <1>1, Q2sAtRest DEF S2qCanGoOn, S2qReleased, S2qAt
<1> QED
  BY <1>3, <1>4, <1>5 DEF FlowTypeOK

\* A blocked write at rest means that the q2s at the other end waits, and so on
\* around: the stream is cross-blocked.
LEMMA BlockedIsCrossed ==
  ASSUME FlowTypeOK, Tasks, AtRest, NEW x \in Ends, s2q[x] = "write"
  PROVE  CrossBlocked
<1>1. Other(x) \in Ends /\ Ends = {x, Other(x)}
  BY DEF Ends, Other
<1>2. ~lost /\ ~stopped[x] /\ wire[x] >= Window
  BY S2qAtRest DEF IdleEncoder
<1>3. q2s[Other(x)] # "over"
  BY <1>1, <1>2, OtherIs DEF Tasks, TaskFacts
<1>4. mode = "plain" /\ q2s[Other(x)] = "wait" /\ s2q[Other(x)] # "over"
  BY <1>1, <1>3, Q2sAtRest
<1>5. s2q[Other(x)] = "write" /\ ~stopped[Other(x)] /\ wire[Other(x)] >= Window
  BY <1>1, <1>4, S2qAtRest DEF IdleEncoder
<1>6. q2s[x] # "over"
  BY <1>5 DEF Tasks, TaskFacts
<1>7. q2s[x] = "wait"
  BY <1>6, Q2sAtRest
<1> QED
  BY <1>1, <1>2, <1>4, <1>5, <1>7 DEF CrossBlocked

\* The facts about the tasks hold in every state.
LEMMA TasksHold == FlowSpec => []Tasks
<1>1. IInv => FlowTypeOK
  BY DEF IInv
<1> QED
  BY <1>1, InvariantHolds, InitTasks, NextTasks, PTL DEF FlowSpec

\* The tasks of a stream that has come to rest are over at both ends, unless it is
\* plain and cross-blocked, or zstd's flush timer keeps an idle encoder going.
THEOREM RestIsOver == FlowSpec => []RestsWhenOver
<1>1. IInv /\ Tasks => RestsWhenOver
  <2> SUFFICES ASSUME IInv, Tasks, AtRest, ~CrossBlocked, NEW x \in Ends
               PROVE  q2s[x] = "over" /\ (s2q[x] = "over" \/ IdleEncoder(x))
    BY DEF RestsWhenOver
  <2>1. FlowTypeOK
    BY DEF IInv
  <2>2. s2q[x] = "over" \/ IdleEncoder(x)
    BY <2>1, S2qAtRest, BlockedIsCrossed
  <2>3. q2s[x] = "over"
    BY <2>1, <2>2, Q2sAtRest DEF IdleEncoder
  <2> QED
    BY <2>2, <2>3
<1> QED
  BY <1>1, InvariantHolds, TasksHold, PTL

\* At rest no encoder that still runs holds back anything that it has read.
THEOREM NothingWithheld == FlowSpec => []HeldIsWritten
<1>1. IInv /\ Tasks => HeldIsWritten
  <2> SUFFICES ASSUME IInv, Tasks, AtRest, mode # "plain", NEW x \in Ends
               PROVE  pend[x] = 0 \/ s2q[x] = "over"
    BY DEF HeldIsWritten
  <2>1. FlowTypeOK
    BY DEF IInv
  <2>2. s2q[x] # "write"
    BY <2>1, BlockedIsCrossed DEF CrossBlocked
  <2> QED
    BY <2>1, <2>2, S2qAtRest
<1> QED
  BY <1>1, InvariantHolds, TasksHold, PTL

-----------------------------------------------------------------------------
\* The ranks are natural numbers, as long as no more is sent than the bound.
LEMMA RankTypes == FlowTypeOK /\ Tasks => RanksAreNat
<1> SUFFICES ASSUME FlowTypeOK, Tasks PROVE RanksAreNat
  OBVIOUS
<1>1. ASSUME NEW x \in Ends PROVE StateRank(x) \in Nat /\ ItemRank(x) \in Nat
  <2>1. MaxItems - sent[x] \in Nat
    BY FlowAssumption DEF FlowTypeOK, Tasks, TaskFacts
  <2>2. ItemRank(x) \in Nat
    BY <2>1, ItemTypes DEF ItemRank
  <2>3. PhaseRank(phase[x]) \in Nat /\ PeerRank(peer[x]) \in Nat
        /\ TaskRank(s2q[x]) \in Nat /\ TaskRank(q2s[x]) \in Nat
    BY DEF PhaseRank, PeerRank, TaskRank
  <2> QED
    BY <2>2, <2>3 DEF StateRank
<1> QED
  BY <1>1 DEF RanksAreNat, Rank, EndRank, Ends

\* So they are after a step.
LEMMA NextRankTypes == FlowTypeOK' /\ Tasks' => RanksAreNat'
  BY RankTypes, PTL

\* Every step of a task, a peer or the connection brings the stream closer to rest.
LEMMA NextIsCloser == IInv /\ Tasks /\ IInv' /\ Tasks' /\ [FlowNext]_flowVars => [Rank' < Rank]_flowVars
<1> SUFFICES ASSUME IInv, Tasks, IInv', Tasks', FlowNext PROVE Rank' < Rank
  OBVIOUS
<1>0. FlowTypeOK /\ RanksAreNat /\ RanksAreNat'
  BY RankTypes, NextRankTypes DEF IInv
<1> USE <1>0
<1>1. ASSUME NEW z \in Ends, Starts(z) PROVE Rank' < Rank
  <2>1. Moves(z) /\ UNCHANGED <<sent, inbox, pend, wire, hand, out, lost>>
    BY <1>1, OtherIs DEF Moves, FlowTypeOK, Starts, tasks, peerVars, quicVars
  <2>2. StateRank(z)' < StateRank(z)
    BY <1>1 DEF FlowTypeOK, StateRank, PhaseRank, PeerRank, TaskRank, Starts, tasks, peerVars, quicVars
  <2> QED
    BY <2>1, <2>2, StateCloser
<1>2. ASSUME NEW z \in Ends, Shaken(z) PROVE Rank' < Rank
  <2>1. Moves(z) /\ UNCHANGED <<sent, inbox, pend, wire, hand, out, lost>>
    BY <1>2, OtherIs DEF Moves, FlowTypeOK, Shaken, tasks, peerVars, quicVars
  <2>2. StateRank(z)' < StateRank(z)
    BY <1>2 DEF FlowTypeOK, StateRank, PhaseRank, PeerRank, TaskRank, Shaken, tasks, peerVars, quicVars
  <2> QED
    BY <2>1, <2>2, StateCloser
<1>3. ASSUME NEW z \in Ends, GivesUp(z) PROVE Rank' < Rank
  <2>1. Moves(z) /\ UNCHANGED <<sent, inbox, pend, wire, hand, out, lost>>
    BY <1>3, OtherIs DEF Moves, FlowTypeOK, GivesUp, Flowing, peerVars
  <2>2. StateRank(z)' < StateRank(z)
    BY <1>3 DEF FlowTypeOK, StateRank, PhaseRank, PeerRank, TaskRank, GivesUp, Flowing, peerVars
  <2> QED
    BY <2>1, <2>2, StateCloser
<1>4. ASSUME NEW z \in Ends, Flush(z) PROVE Rank' < Rank
  <2>1. Moves(z) /\ UNCHANGED <<sent, inbox, pend, wire, hand, out, lost>>
    BY <1>4, OtherIs DEF Moves, FlowTypeOK, Flush, CanFlush, S2qAt, peerVars, quicVars
  <2>2. StateRank(z)' < StateRank(z)
    BY <1>4 DEF FlowTypeOK, StateRank, PhaseRank, PeerRank, TaskRank, Flush, CanFlush, S2qAt, peerVars, quicVars
  <2> QED
    BY <2>1, <2>2, StateCloser
<1>5. ASSUME NEW z \in Ends, WriteQuicFails(z) PROVE Rank' < Rank
  <2>1. Moves(z) /\ UNCHANGED <<sent, inbox, pend, wire, hand, out, lost>>
    BY <1>5, OtherIs DEF Moves, FlowTypeOK, WriteQuicFails, WriteRefused, S2qAt, S2qOver, peerVars
  <2>2. StateRank(z)' < StateRank(z)
    BY <1>5 DEF FlowTypeOK, StateRank, PhaseRank, PeerRank, TaskRank, WriteQuicFails, WriteRefused, S2qAt, S2qOver, peerVars
  <2> QED
    BY <2>1, <2>2, StateCloser
<1>6. ASSUME NEW z \in Ends, ReadEof(z) PROVE Rank' < Rank
  <2>1. Moves(z) /\ UNCHANGED <<sent, inbox, pend, wire, hand, out, lost>>
    BY <1>6, OtherIs DEF Moves, FlowTypeOK, ReadEof, AtEof, S2qAt, S2qOver, peerVars
  <2>2. StateRank(z)' < StateRank(z)
    BY <1>6 DEF FlowTypeOK, StateRank, PhaseRank, PeerRank, TaskRank, ReadEof, AtEof, S2qAt, S2qOver, peerVars
  <2> QED
    BY <2>1, <2>2, StateCloser
<1>7. ASSUME NEW z \in Ends, ReadFails(z) PROVE Rank' < Rank
  <2>1. Moves(z) /\ UNCHANGED <<sent, inbox, pend, wire, hand, out, lost>>
    BY <1>7, OtherIs DEF Moves, FlowTypeOK, ReadFails, AtReset, S2qAt, S2qOver, peerVars
  <2>2. StateRank(z)' < StateRank(z)
    BY <1>7 DEF FlowTypeOK, StateRank, PhaseRank, PeerRank, TaskRank, ReadFails, AtReset, S2qAt, S2qOver, peerVars
  <2> QED
    BY <2>1, <2>2, StateCloser
<1>8. ASSUME NEW z \in Ends, ReadTimeout(z) PROVE Rank' < Rank
  <2>1. Moves(z) /\ UNCHANGED <<sent, inbox, pend, wire, hand, out, lost>>
    BY <1>8, OtherIs DEF Moves, FlowTypeOK, ReadTimeout, TimesOut, S2qAt, S2qOver, peerVars
  <2>2. StateRank(z)' < StateRank(z)
    BY <1>8 DEF FlowTypeOK, StateRank, PhaseRank, PeerRank, TaskRank, ReadTimeout, TimesOut, S2qAt, S2qOver, peerVars
  <2> QED
    BY <2>1, <2>2, StateCloser
<1>9. ASSUME NEW z \in Ends, S2qWaitEnds(z) PROVE Rank' < Rank
  <2>1. Moves(z) /\ UNCHANGED <<sent, inbox, pend, wire, hand, out, lost>>
    BY <1>9, OtherIs DEF Moves, FlowTypeOK, S2qWaitEnds, S2qReleased, S2qAt, S2qOver, peerVars
  <2>2. StateRank(z)' < StateRank(z)
    BY <1>9 DEF FlowTypeOK, StateRank, PhaseRank, PeerRank, TaskRank, S2qWaitEnds, S2qReleased, S2qAt, S2qOver, peerVars
  <2> QED
    BY <2>1, <2>2, StateCloser
<1>10. ASSUME NEW z \in Ends, WriteSocketFails(z) PROVE Rank' < Rank
  <2>1. Moves(z) /\ UNCHANGED <<sent, inbox, pend, wire, hand, out, lost>>
    BY <1>10, OtherIs DEF Moves, FlowTypeOK, WriteSocketFails, SocketRefuses, Q2sAt, Q2sOver, peerVars
  <2>2. StateRank(z)' < StateRank(z)
    BY <1>10 DEF FlowTypeOK, StateRank, PhaseRank, PeerRank, TaskRank, WriteSocketFails, SocketRefuses, Q2sAt, Q2sOver, peerVars
  <2> QED
    BY <2>1, <2>2, StateCloser
<1>11. ASSUME NEW z \in Ends, QuicEof(z) PROVE Rank' < Rank
  <2>1. Moves(z) /\ UNCHANGED <<sent, inbox, pend, wire, hand, out, lost>>
    BY <1>11, OtherIs DEF Moves, FlowTypeOK, QuicEof, AtFin, Q2sAt, Q2sOver, peerVars
  <2>2. StateRank(z)' < StateRank(z)
    BY <1>11 DEF FlowTypeOK, StateRank, PhaseRank, PeerRank, TaskRank, QuicEof, AtFin, Q2sAt, Q2sOver, peerVars
  <2> QED
    BY <2>1, <2>2, StateCloser
<1>12. ASSUME NEW z \in Ends, ReadQuicFails(z) PROVE Rank' < Rank
  <2>1. Moves(z) /\ UNCHANGED <<sent, inbox, pend, wire, hand, out, lost>>
    BY <1>12, OtherIs DEF Moves, FlowTypeOK, ReadQuicFails, QuicBroken, Q2sAt, Q2sOver, peerVars
  <2>2. StateRank(z)' < StateRank(z)
    BY <1>12 DEF FlowTypeOK, StateRank, PhaseRank, PeerRank, TaskRank, ReadQuicFails, QuicBroken, Q2sAt, Q2sOver, peerVars
  <2> QED
    BY <2>1, <2>2, StateCloser
<1>13. ASSUME NEW z \in Ends, QuicTimeout(z) PROVE Rank' < Rank
  <2>1. Moves(z) /\ UNCHANGED <<sent, inbox, pend, wire, hand, out, lost>>
    BY <1>13, OtherIs DEF Moves, FlowTypeOK, QuicTimeout, QuicTimesOut, Q2sAt, Q2sOver, peerVars
  <2>2. StateRank(z)' < StateRank(z)
    BY <1>13 DEF FlowTypeOK, StateRank, PhaseRank, PeerRank, TaskRank, QuicTimeout, QuicTimesOut, Q2sAt, Q2sOver, peerVars
  <2> QED
    BY <2>1, <2>2, StateCloser
<1>14. ASSUME NEW z \in Ends, Q2sWaitEnds(z) PROVE Rank' < Rank
  <2>1. Moves(z) /\ UNCHANGED <<sent, inbox, pend, wire, hand, out, lost>>
    BY <1>14, OtherIs DEF Moves, FlowTypeOK, Q2sWaitEnds, Q2sReleased, Q2sAt, Q2sOver, peerVars
  <2>2. StateRank(z)' < StateRank(z)
    BY <1>14 DEF FlowTypeOK, StateRank, PhaseRank, PeerRank, TaskRank, Q2sWaitEnds, Q2sReleased, Q2sAt, Q2sOver, peerVars
  <2> QED
    BY <2>1, <2>2, StateCloser
<1>15. ASSUME NEW z \in Ends, PeerEnds(z) PROVE Rank' < Rank
  <2>1. Moves(z) /\ UNCHANGED <<sent, inbox, pend, wire, hand, out, lost>>
    BY <1>15, OtherIs DEF Moves, FlowTypeOK, PeerEnds, tasks, quicVars
  <2>2. StateRank(z)' < StateRank(z)
    BY <1>15 DEF FlowTypeOK, StateRank, PhaseRank, PeerRank, TaskRank, PeerEnds, tasks, quicVars
  <2> QED
    BY <2>1, <2>2, StateCloser
<1>16. ASSUME NEW z \in Ends, ReadSocket(z) PROVE Rank' < Rank
  <2>1. Moves(z) /\ lost' = lost /\ inbox'[z] = inbox[z] - 1 /\ pend'[z] = pend[z] + 1
        /\ UNCHANGED <<sent, wire, hand, out>>
    BY <1>16, OtherIs DEF Moves, FlowTypeOK, ReadSocket, CanRead, S2qAt, peerVars, quicVars
  <2>2. StateRank(z)' <= StateRank(z) + 1
    BY <1>16 DEF FlowTypeOK, StateRank, PhaseRank, PeerRank, TaskRank, ReadSocket, CanRead, S2qAt, peerVars, quicVars
  <2>3. ItemRank(z)' <= ItemRank(z) - 2
    BY <2>1, ReadIsLighter, Zenon
  <2> QED
    BY <2>1, <2>2, <2>3, ItemCloser
<1>17. ASSUME NEW z \in Ends, WriteQuic(z) PROVE Rank' < Rank
  <2>1. Moves(z) /\ lost' = lost /\ wire'[z] = wire[z] + pend[z] /\ pend'[z] = 0 /\ pend[z] > 0
        /\ UNCHANGED <<sent, inbox, hand, out>>
    BY <1>17, OtherIs DEF Moves, FlowTypeOK, WriteQuic, CanWrite, S2qAt, peerVars, Tasks, TaskFacts
  <2>2. StateRank(z)' <= StateRank(z) + 1
    BY <1>17 DEF FlowTypeOK, StateRank, PhaseRank, PeerRank, TaskRank, WriteQuic, CanWrite, S2qAt, peerVars
  <2>3. ItemRank(z)' <= ItemRank(z) - 2
    BY <2>1, WrittenIsLighter, Zenon
  <2> QED
    BY <2>1, <2>2, <2>3, ItemCloser
<1>18. ASSUME NEW z \in Ends, WriteSocket(z) PROVE Rank' < Rank
  <2>1. Moves(z) /\ lost' = lost /\ hand'[z] = 0 /\ hand[z] = 1 /\ out'[z] = 1 /\ out[z] = 0
        /\ UNCHANGED <<sent, inbox, pend, wire>>
    BY <1>18, OtherIs DEF Moves, FlowTypeOK, WriteSocket, SocketTakes, Q2sAt, peerVars, quicVars, IInv, HandMatches
  <2>2. StateRank(z)' <= StateRank(z) + 1
    BY <1>18 DEF FlowTypeOK, StateRank, PhaseRank, PeerRank, TaskRank, WriteSocket, SocketTakes, Q2sAt, peerVars, quicVars
  <2>3. ItemRank(z)' <= ItemRank(z) - 2
    BY <2>1, GivenIsLighter, Zenon
  <2> QED
    BY <2>1, <2>2, <2>3, ItemCloser
<1>19. ASSUME NEW z \in Ends, PeerSends(z) PROVE Rank' < Rank
  <2>1. Moves(z) /\ lost' = lost /\ sent'[z] = sent[z] + 1 /\ inbox'[z] = inbox[z] + 1
        /\ UNCHANGED <<pend, wire, hand, out>>
    BY <1>19, OtherIs DEF Moves, FlowTypeOK, PeerSends, tasks, quicVars
  <2>2. StateRank(z)' <= StateRank(z) + 1
    BY <1>19 DEF FlowTypeOK, StateRank, PhaseRank, PeerRank, TaskRank, PeerSends, tasks, quicVars
  <2>3. ItemRank(z)' <= ItemRank(z) - 2
    BY <2>1, SentIsLighter, Zenon
  <2> QED
    BY <2>1, <2>2, <2>3, ItemCloser
<1>20. ASSUME NEW z \in Ends, PeerReads(z) PROVE Rank' < Rank
  <2>1. Moves(z) /\ lost' = lost /\ out'[z] = 0 /\ out[z] = 1
        /\ UNCHANGED <<sent, inbox, pend, wire, hand>>
    BY <1>20, OtherIs DEF Moves, FlowTypeOK, PeerReads, PeerCanRead, tasks, quicVars
  <2>2. StateRank(z)' <= StateRank(z) + 1
    BY <1>20 DEF FlowTypeOK, StateRank, PhaseRank, PeerRank, TaskRank, PeerReads, PeerCanRead, tasks, quicVars
  <2>3. ItemRank(z)' <= ItemRank(z) - 2
    BY <2>1, TakenIsLighter, Zenon
  <2> QED
    BY <2>1, <2>2, <2>3, ItemCloser
<1>21. ASSUME NEW z \in Ends, ReadQuic(z) PROVE Rank' < Rank
  <2>1. hand[z] = 0 /\ hand'[z] = 1 /\ q2s[z] = "read" /\ wire[Other(z)] \in Nat /\ Other(z) \in Ends
    BY <1>21, OtherIs DEF ReadQuic, CanReadQuic, Q2sAt, IInv, HandMatches, FlowTypeOK
  <2>2. StateRank(Other(z))' = StateRank(Other(z)) /\ StateRank(z)' <= StateRank(z)
    BY <1>21, <2>1, OtherIs DEF FlowTypeOK, ReadQuic, peerVars, StateRank, TaskRank, PhaseRank, PeerRank
  <2>3. wire'[Other(z)] = wire[Other(z)] - 1 /\ wire'[z] = wire[z] /\ hand'[Other(z)] = hand[Other(z)]
        /\ UNCHANGED <<sent, inbox, pend, out, lost>>
    BY <1>21, <2>1, OtherIs DEF FlowTypeOK, ReadQuic, peerVars
  <2>4. ItemRank(Other(z))' = ItemRank(Other(z)) - 6 /\ ItemRank(z)' = ItemRank(z) + 4
    BY <2>1, <2>3, StreamIsLighter, Zenon
  <2>5. EndRank(z)' + EndRank(Other(z))' < EndRank(z) + EndRank(Other(z))
    BY <2>1, <2>2, <2>4 DEF RanksAreNat, EndRank
  <2>6. EndRank(z) \in Nat /\ EndRank(Other(z)) \in Nat /\ EndRank(z)' \in Nat /\ EndRank(Other(z))' \in Nat
    BY <2>1 DEF RanksAreNat, EndRank
  <2> QED
    BY <2>3, <2>5, <2>6 DEF Rank, Ends, Other
<1>22. CASE ConnLost
  <2>1. EndRank("in")' = EndRank("in") /\ EndRank("out")' = EndRank("out") /\ ~lost /\ lost'
    BY <1>22 DEF ConnLost, tasks, peerVars, quicVars, EndRank, StateRank, ItemRank
  <2>2. EndRank("in") \in Nat /\ EndRank("out") \in Nat
    BY DEF RanksAreNat, EndRank, Ends
  <2> QED
    BY <2>1, <2>2 DEF Rank
<1> QED
  BY <1>1, <1>2, <1>3, <1>4, <1>5, <1>6, <1>7, <1>8, <1>9, <1>10, <1>11,
     <1>12, <1>13, <1>14, <1>15, <1>16, <1>17, <1>18, <1>19, <1>20, <1>21, <1>22 DEF FlowNext, SetupStep, S2qStep, Q2sStep

\* The distance from rest is a natural number that every step decreases, whatever
\* fails or times out: no copy loop spins, and a stream always comes to rest.
THEOREM AlwaysComesToRest == FlowSpec => [](Rank \in Nat) /\ ComesToRest
<1>1. IInv /\ Tasks => Rank \in Nat
  BY RankTypes DEF IInv, RanksAreNat
<1> QED
  BY <1>1, InvariantHolds, TasksHold, NextIsCloser, PTL DEF FlowSpec, ComesToRest
=============================================================================

-------------------------- MODULE HeartbeatProofs --------------------------
(***************************************************************************)
(* Proofs, for any modulus of the sequence number, of the safety of the    *)
(* heartbeat protocol.                                                     *)
(***************************************************************************)
EXTENDS Heartbeat, TLAPS

\* Between two requests nothing is on the way; after a request what is on the
\* way, at most one message, carries its number.
Outstanding ==
  /\ client = "tick" =>
       /\ upNet = <<>> /\ upBuf = <<>> /\ downNet = <<>> /\ downBuf = <<>>
       /\ server # "reply"
  /\ client = "wait" =>
       /\ upNet # <<>> => Head(upNet) = seq
       /\ upBuf # <<>> => Head(upBuf) = seq
       /\ server = "reply" => pong = seq
       /\ downNet # <<>> => Head(downNet) = seq
       /\ downBuf # <<>> => Head(downBuf) = seq

\* Over a network that has never failed no timeout is possible and, unless the
\* client is stopping, the client's task runs and the connection is open.
Healthy ==
  /\ ~wasDown => link = "up" /\ ~impaired
  /\ Enabled /\ ~wasDown /\ ~stopping => client # "ended" /\ cconn = "open" /\ sconn = "open"

IInv == TypeOK /\ OneInFlight /\ Outstanding /\ Healthy

\* The state after login satisfies the inductive invariant.
LEMMA InitIInv == Init => IInv
<1> SUFFICES ASSUME Init PROVE IInv
  OBVIOUS
<1>1. (Enabled => client = "tick") /\ upNet \in {<<>>, <<SeqMod>>}
      /\ (client = "tick" => upNet = <<>>) /\ client \in {"tick", "ended"}
  BY Zenon DEF Init, Fin
<1>2. Healthy
  BY <1>1, Zenon DEF Init, Healthy
<1>3. TypeOK
  <2>1. <<SeqMod>> \in Seq(Seqs \cup {SeqMod})
    OBVIOUS
  <2>2. upNet \in Seq(Seqs \cup {Fin})
    <3>1. CASE upNet = <<>>
      BY <3>1
    <3>2. CASE upNet = <<SeqMod>>
      BY <2>1, <3>2 DEF Fin
    <3> QED
      BY <1>1, <3>1, <3>2
  <2>3. 0 \in Seqs
    BY SeqModAssumption DEF Seqs
  <2>4. stopping \in BOOLEAN /\ wasDown \in BOOLEAN /\ impaired \in BOOLEAN
    BY Zenon DEF Init
  <2>5. upBuf \in Seq(Seqs \cup {Fin}) /\ downNet \in Seq(Seqs) /\ downBuf \in Seq(Seqs)
    BY DEF Init
  <2> QED
    BY <1>1, <2>2, <2>3, <2>4, <2>5, Zenon DEF Init, TypeOK
<1>4. OneInFlight
  BY <1>1 DEF Init, OneInFlight
<1>5. Outstanding
  BY <1>1 DEF Init, Outstanding
<1> QED
  BY <1>2, <1>3, <1>4, <1>5 DEF IInv

\* A sequence is empty exactly when its length is zero.
LEMMA Emptiness ==
  ASSUME NEW S, NEW s \in Seq(S)
  PROVE  Len(s) \in Nat /\ (Len(s) = 0 <=> s = <<>>)
OBVIOUS

\* Delivering a response: it was the only message under way.
LEMMA DeliverDownIInv == IInv /\ DeliverDown => IInv'
<1> SUFFICES ASSUME IInv, DeliverDown PROVE IInv'
  OBVIOUS
<1>1. downNet \in Seq(Seqs) /\ downBuf \in Seq(Seqs) /\ upNet \in Seq(Seqs \cup {Fin})
      /\ upBuf \in Seq(Seqs \cup {Fin}) /\ downNet # <<>>
  BY DEF IInv, TypeOK, DeliverDown
<1>2. downBuf' = Append(downBuf, Head(downNet)) /\ downNet' = Tail(downNet)
  BY DEF DeliverDown
<1>3. TypeOK'
  <2>1. Head(downNet) \in Seqs /\ Tail(downNet) \in Seq(Seqs)
    BY <1>1
  <2>2. downBuf' \in Seq(Seqs) /\ downNet' \in Seq(Seqs)
    BY <1>1, <1>2, <2>1
  <2> QED
    BY <2>2 DEF IInv, TypeOK, DeliverDown, linkVars, upVars
<1>4. Healthy'
  BY DEF IInv, Healthy, DeliverDown, linkVars
<1>5. CASE client = "ended"
  BY <1>3, <1>4, <1>5 DEF IInv, OneInFlight, Outstanding, DeliverDown
<1>6. CASE client = "tick"
  BY <1>1, <1>6 DEF IInv, Outstanding
<1>7. CASE client = "wait"
  <2>1. Len(downNet) \in Nat \ {0} /\ Len(downBuf) \in Nat /\ Len(upNet) \in Nat
        /\ Len(upBuf) \in Nat
    BY <1>1, Emptiness
  <2>2. Len(downNet) = 1 /\ Len(downBuf) = 0 /\ Len(upNet) = 0 /\ Len(upBuf) = 0
        /\ server # "reply"
    <3>1. CASE server = "reply"
      BY <1>7, <2>1, <3>1 DEF IInv, OneInFlight
    <3>2. CASE server # "reply"
      <4>1. Len(upNet) + Len(upBuf) + Len(downNet) + Len(downBuf) <= 1
        BY <1>7, <2>1, <3>2 DEF IInv, OneInFlight
      <4>2. \A a, b, c, d \in Nat : c # 0 /\ a + b + c + d <= 1 => a = 0 /\ b = 0 /\ c = 1 /\ d = 0
        OBVIOUS
      <4>3. Len(downNet) # 0
        BY <2>1
      <4> QED
        BY <2>1, <3>2, <4>1, <4>2, <4>3
    <3> QED
      BY <3>1, <3>2
  <2>3. downBuf = <<>> /\ upNet = <<>> /\ upBuf = <<>> /\ Head(downNet) = seq
    BY <1>1, <1>7, <2>2, Emptiness DEF IInv, Outstanding
  <2>4. downNet' = <<>> /\ Len(downNet') = 0
    BY <1>1, <1>2, <2>2
  <2>5. downBuf' = <<seq>> /\ Len(downBuf') = 1 /\ Head(downBuf') = seq
    BY <1>2, <2>3
  <2>6. OneInFlight'
    BY <2>2, <2>4, <2>5 DEF OneInFlight, DeliverDown, upVars
  <2>7. Outstanding'
    BY <1>7, <2>2, <2>3, <2>4, <2>5 DEF Outstanding, DeliverDown, upVars
  <2> QED
    BY <1>3, <1>4, <2>6, <2>7 DEF IInv
<1> QED
  BY <1>5, <1>6, <1>7 DEF IInv, TypeOK

\* Every step of either task, of the network and of stop() preserves it.
LEMMA NextIInv == IInv /\ [Next]_vars => IInv'
<1> SUFFICES ASSUME IInv, [Next]_vars PROVE IInv'
  OBVIOUS
<1> USE SeqModAssumption
    DEF IInv, TypeOK, OneInFlight, Outstanding, Healthy, Seqs, Fin, linkVars, upVars, downVars
<1>1. CASE Tick
  BY <1>1 DEF Tick
<1>2. CASE TickStopping
  BY <1>2 DEF TickStopping, ClientEnds
<1>3. CASE Response
  BY <1>3 DEF Response
<1>4. CASE HeartbeatTimeout
  BY <1>4 DEF HeartbeatTimeout, ClientEnds
<1>5. CASE ClientSeesClose
  BY <1>5 DEF ClientSeesClose, ClientEnds
<1>6. CASE Request
  BY <1>6 DEF Request
<1>7. CASE Reply
  BY <1>7 DEF Reply
<1>8. CASE StreamEnds
  BY <1>8 DEF StreamEnds
<1>9. CASE ServerSeesClose
  BY <1>9 DEF ServerSeesClose
<1>10. CASE DeliverUp
  BY <1>10 DEF DeliverUp
<1>11. CASE DeliverDown
  BY <1>11, DeliverDownIInv
<1>12. CASE LinkDown
  BY <1>12 DEF LinkDown
<1>13. CASE LinkUp
  BY <1>13 DEF LinkUp
<1>14. CASE CloseSpreads
  BY <1>14 DEF CloseSpreads
<1>15. CASE IdleTimeout
  BY <1>15 DEF IdleTimeout
<1>16. CASE Stop
  BY <1>16 DEF Stop
<1>17. CASE UNCHANGED vars
  BY <1>17 DEF vars
<1> QED
  BY <1>1, <1>2, <1>3, <1>4, <1>5, <1>6, <1>7, <1>8, <1>9, <1>10, <1>11, <1>12, <1>13,
     <1>14, <1>15, <1>16, <1>17 DEF Next

\* Every reachable state satisfies the inductive invariant.
LEMMA InvariantHolds == Spec => []IInv
BY InitIInv, NextIInv, PTL DEF Spec

\* The two tasks, the stream and the connection keep their types.
THEOREM TypeCorrect == Spec => []TypeOK
<1>1. IInv => TypeOK
  BY DEF IInv
<1> QED
  BY <1>1, InvariantHolds, PTL

\* client_heartbeat never reads a response to anything but its last request.
THEOREM NoSeqMismatch == Spec => []ResponsesMatch
<1>1. IInv => ResponsesMatch
  BY DEF IInv, Outstanding, ResponsesMatch
<1> QED
  BY <1>1, InvariantHolds, PTL

\* At most one heartbeat message is under way while the client's task runs.
THEOREM AtMostOneInFlight == Spec => []OneInFlight
<1>1. IInv => OneInFlight
  BY DEF IInv
<1> QED
  BY <1>1, InvariantHolds, PTL

\* Whatever the caller of ClientConfig::create gives, the settings that come out
\* are both zero or both not, the timeout is not below the interval, and raising
\* it has not overflowed.
THEOREM SettingsAreNormal ==
  \A interval, timeout \in 0 .. MaxMs :
    LET set == Settings(interval, timeout) IN
    /\ set \in (0 .. MaxMs) \X (0 .. MaxMs) /\ set[1] <= set[2]
    /\ set[1] = 0 <=> set[2] = 0
    /\ set[1] = 0 <=> ((interval = 0) # (timeout = 0))
<1> SUFFICES ASSUME NEW interval \in 0 .. MaxMs, NEW timeout \in 0 .. MaxMs
             PROVE  LET set == Settings(interval, timeout) IN
                    /\ set \in (0 .. MaxMs) \X (0 .. MaxMs) /\ set[1] <= set[2]
                    /\ set[1] = 0 <=> set[2] = 0
                    /\ set[1] = 0 <=> ((interval = 0) # (timeout = 0))
  OBVIOUS
<1>1. CASE interval = 0 /\ timeout = 0
  BY <1>1, SettingsAssumption DEF Settings
<1>2. CASE (interval = 0) # (timeout = 0)
  BY <1>2, SettingsAssumption DEF Settings
<1>3. CASE interval # 0 /\ timeout # 0 /\ timeout >= interval
  BY <1>3, SettingsAssumption DEF Settings
<1>4. CASE interval # 0 /\ timeout # 0 /\ timeout < interval
  <2>1. CASE 2 * interval <= MaxMs
    BY <1>4, <2>1, SettingsAssumption DEF Settings
  <2>2. CASE ~(2 * interval <= MaxMs)
    BY <1>4, <2>2, SettingsAssumption DEF Settings
  <2> QED
    BY <2>1, <2>2
<1> QED
  BY <1>1, <1>2, <1>3, <1>4

\* With the heartbeat enabled, neither side closes a connection over a network
\* that has never failed, unless the client is stopping.
THEOREM EnabledHealthyStaysOpen == Spec => [](Enabled => HealthyStaysOpen)
<1>1. IInv => (Enabled => HealthyStaysOpen)
  BY DEF IInv, Healthy, HealthyStaysOpen
<1> QED
  BY <1>1, InvariantHolds, PTL
=============================================================================

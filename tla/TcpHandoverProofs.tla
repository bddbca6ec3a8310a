------------------------- MODULE TcpHandoverProofs -------------------------
(***************************************************************************)
(* For every number of streams, capacity of the channel and set of bad     *)
(* targets: streams are forwarded in order and at most once, and every     *)
(* accepted stream is accounted for.                                       *)
(*                                                                         *)
(* The order of forwarded alone is not inductive.  The invariant says that *)
(* the whole pipeline is sorted: what was forwarded, then the request in   *)
(* hand or pending, then the channel, then the stream the accept loop      *)
(* holds, which is the newest.  From the same invariant follows that the   *)
(* pipeline implements LossyQueue.                                         *)
(***************************************************************************)
EXTENDS TcpHandover, TLAPS

Forwarded(x) == \A i \in 1 .. Len(forwarded) : forwarded[i] < x
Queued(x) == \A j \in 1 .. Len(queue) : queue[j] # Quit => x < queue[j]

\* Only the accept loop sends, and nothing after Quit.
LoopKnowsItsStream ==
  /\ loop = "send" <=> held # 0
  /\ held # 0 => held = arrived
  /\ \A j \in 1 .. Len(queue) : queue[j] = Quit => loop = "ended"

\* The pipeline, sorted from its far end to the accept loop.
Sorted ==
  /\ \A i, j \in 1 .. Len(queue) : i < j /\ queue[j] # Quit => queue[i] < queue[j]
  /\ \A i \in 1 .. Len(forwarded) : Queued(forwarded[i])
  /\ hand # 0 => Forwarded(hand) /\ Queued(hand)
  /\ pending # 0 => Forwarded(pending) /\ Queued(pending)

\* Everything in the pipeline has arrived, and before the stream being sent.
Older(x) == x <= arrived /\ (held # 0 => x < held)
AllOlder ==
  /\ \A j \in 1 .. Len(queue) : Older(queue[j])
  /\ \A i \in 1 .. Len(forwarded) : Older(forwarded[i])
  /\ Older(hand) /\ Older(pending)

ServingKnowsItsRequest == serving \in {"open", "target"} <=> hand # 0

IInv ==
  /\ TypeOK /\ ForwardedInOrder /\ OneRequestAtATime
  /\ LoopKnowsItsStream /\ Sorted /\ AllOlder /\ ServingKnowsItsRequest

-----------------------------------------------------------------------------
\* Initially nothing is in the pipeline.
LEMMA InitIInv == Init => IInv
<1> USE BoundAssumption DEF Init, Streams, Quit
<1>1. Init => TypeOK
  <2>1. Init => queue \in Seq(0 .. MaxStream) /\ Len(queue) <= QueueLen
    OBVIOUS
  <2>2. Init => forwarded \in Seq(1 .. MaxStream)
    OBVIOUS
  <2>3. Init => dropped \subseteq Streams /\ lost \subseteq Streams
    OBVIOUS
  <2>4. Init => active \in BOOLEAN /\ terminated \in BOOLEAN /\ stopping \in BOOLEAN
    OBVIOUS
  <2>5. Init => arrived \in 0 .. MaxStream /\ held \in 0 .. MaxStream /\ hand \in 0 .. MaxStream
                /\ pending \in 0 .. MaxStream
    OBVIOUS
  <2>6. Init => loop \in {"accept"} /\ serving \in {"off"} /\ conn \in {"closed"}
    OBVIOUS
  <2> QED
    BY <2>1, <2>2, <2>3, <2>4, <2>5, <2>6, Zenon DEF TypeOK
<1>2. Init => ForwardedInOrder /\ OneRequestAtATime
  BY DEF ForwardedInOrder, OneRequestAtATime
<1>3. Init => LoopKnowsItsStream /\ Sorted /\ AllOlder /\ ServingKnowsItsRequest
  BY DEF LoopKnowsItsStream, Sorted, AllOlder, Older, ServingKnowsItsRequest, Forwarded, Queued
<1> QED
  BY <1>1, <1>2, <1>3 DEF IInv

\* Every step of the accept loop and of start_serving keeps the pipeline sorted.
LEMMA NextIInv == IInv /\ [Next]_vars => IInv'
<1> SUFFICES ASSUME IInv, [Next]_vars
             PROVE  IInv'
  OBVIOUS
<1> USE BoundAssumption, TargetAssumption
    DEF IInv, TypeOK, ForwardedInOrder, OneRequestAtATime, LoopKnowsItsStream, Sorted, AllOlder,
        Older, ServingKnowsItsRequest, Forwarded, Queued, Streams, Quit, loopVars, serveVars
<1>1. CASE Accept
  <2> USE <1>1 DEF Accept
  <2>1. TypeOK'
    <3>1. arrived' \in 1 .. MaxStream /\ arrived' = arrived + 1
      OBVIOUS
    <3>2. held' \in 0 .. MaxStream /\ loop' \in {"accept", "send", "quit", "ended"}
      BY <3>1
    <3>3. dropped' \subseteq Streams
      BY <3>1
    <3>4. UNCHANGED <<active, terminated, stopping, queue, serving, hand, pending, conn, forwarded,
                      lost>>
      OBVIOUS
    <3> QED
      BY <3>1, <3>2, <3>3, <3>4
  <2>2. ForwardedInOrder'
    OBVIOUS
  <2>3. OneRequestAtATime'
    OBVIOUS
  <2>4. LoopKnowsItsStream'
    OBVIOUS
  <2>5. Sorted'
    OBVIOUS
  <2>6. AllOlder'
    <3>1. held = 0 /\ arrived \in Nat /\ arrived' = arrived + 1 /\ held' \in {0, arrived + 1}
      OBVIOUS
    <3>2. \A x \in 0 .. MaxStream : x <= arrived => x <= arrived' /\ (held' # 0 => x < held')
      BY <3>1
    <3>3. UNCHANGED <<queue, forwarded, hand, pending>>
      OBVIOUS
    <3>4. \A j \in 1 .. Len(queue) : queue[j] \in 0 .. MaxStream /\ queue[j] <= arrived
      OBVIOUS
    <3>5. \A i \in 1 .. Len(forwarded) : forwarded[i] \in 0 .. MaxStream /\ forwarded[i] <= arrived
      OBVIOUS
    <3> HIDE <1>1
    <3> QED
      BY <3>2, <3>3, <3>4, <3>5
  <2>7. ServingKnowsItsRequest'
    OBVIOUS
  <2> QED
    BY <2>1, <2>2, <2>3, <2>4, <2>5, <2>6, <2>7
<1>2. CASE Stop
  BY <1>2 DEF Stop
<1>3. CASE SendOk
  <2> USE <1>3 DEF SendOk
  <2>1. TypeOK'
    OBVIOUS
  <2>2. ForwardedInOrder'
    OBVIOUS
  <2>3. OneRequestAtATime'
    OBVIOUS
  <2>4. LoopKnowsItsStream'
    OBVIOUS
  <2>5. Sorted'
    OBVIOUS
  <2>6. AllOlder'
    OBVIOUS
  <2>7. ServingKnowsItsRequest'
    OBVIOUS
  <2> QED
    BY <2>1, <2>2, <2>3, <2>4, <2>5, <2>6, <2>7
<1>4. CASE SendTimeout
  <2> USE <1>4 DEF SendTimeout
  <2>1. TypeOK'
    OBVIOUS
  <2>2. ForwardedInOrder'
    OBVIOUS
  <2>3. OneRequestAtATime'
    OBVIOUS
  <2>4. LoopKnowsItsStream'
    OBVIOUS
  <2>5. Sorted'
    OBVIOUS
  <2>6. AllOlder'
    OBVIOUS
  <2>7. ServingKnowsItsRequest'
    OBVIOUS
  <2> QED
    BY <2>1, <2>2, <2>3, <2>4, <2>5, <2>6, <2>7
<1>5. CASE SendFails
  BY <1>5 DEF SendFails
<1>6. CASE WokenUp
  BY <1>6 DEF WokenUp
<1>7. CASE SendQuit
  <2> USE <1>7 DEF SendQuit
  <2>1. TypeOK'
    <3>1. CASE ReceiverGone
      BY <3>1
    <3>2. CASE ~ReceiverGone
      BY <3>2
    <3> QED
      BY <3>1, <3>2
  <2>2. ForwardedInOrder'
    OBVIOUS
  <2>3. OneRequestAtATime'
    OBVIOUS
  <2>4. LoopKnowsItsStream'
    OBVIOUS
  <2>5. Sorted'
    OBVIOUS
  <2>6. AllOlder'
    OBVIOUS
  <2>7. ServingKnowsItsRequest'
    OBVIOUS
  <2> QED
    BY <2>1, <2>2, <2>3, <2>4, <2>5, <2>6, <2>7
<1>8. CASE Shutdown
  BY <1>8 DEF Shutdown
<1>9. CASE Connect
  BY <1>9 DEF Connect
<1>10. CASE TakePending
  BY <1>10 DEF TakePending
<1>11. CASE Receive
  <2> USE <1>11 DEF Receive
  <2>1. TypeOK'
    OBVIOUS
  <2>2. ForwardedInOrder'
    OBVIOUS
  <2>3. OneRequestAtATime'
    OBVIOUS
  <2>4. LoopKnowsItsStream'
    OBVIOUS
  <2>5. Sorted'
    <3>1. /\ Len(queue') = Len(queue) - 1
          /\ \A j \in 1 .. Len(queue') : queue'[j] = queue[j + 1] /\ j + 1 \in 1 .. Len(queue)
          /\ hand' = queue[1] /\ hand' # 0 /\ 1 \in 1 .. Len(queue)
      OBVIOUS
    <3>2. \A i, j \in 1 .. Len(queue') : i < j /\ queue'[j] # 0 => queue'[i] < queue'[j]
      BY <3>1
    <3>3. \A i \in 1 .. Len(forwarded) : \A j \in 1 .. Len(queue') :
            queue'[j] # 0 => forwarded[i] < queue'[j]
      BY <3>1
    <3>4. \A j \in 1 .. Len(queue') : queue'[j] # 0 => hand' < queue'[j]
      BY <3>1
    <3>5. \A i \in 1 .. Len(forwarded) : forwarded[i] < hand'
      BY <3>1
    <3> QED
      BY <3>2, <3>3, <3>4, <3>5
  <2>6. AllOlder'
    OBVIOUS
  <2>7. ServingKnowsItsRequest'
    OBVIOUS
  <2> QED
    BY <2>1, <2>2, <2>3, <2>4, <2>5, <2>6, <2>7
<1>12. CASE ReceiveQuit
  BY <1>12 DEF ReceiveQuit
<1>13. CASE Open
  BY <1>13 DEF Open
<1>14. CASE OpenFails
  BY <1>14 DEF OpenFails
<1>15. CASE WriteTarget
  <2> USE <1>15 DEF WriteTarget
  <2>1. TypeOK'
    OBVIOUS
  <2>2. ForwardedInOrder'
    <3>1. forwarded' = Append(forwarded, hand) /\ hand \in Streams
      OBVIOUS
    <3>2. Len(forwarded') = Len(forwarded) + 1 /\ forwarded'[Len(forwarded) + 1] = hand
      BY <3>1
    <3>3. \A i \in 1 .. Len(forwarded) : forwarded'[i] = forwarded[i] /\ forwarded[i] < hand
      BY <3>1
    <3> SUFFICES ASSUME NEW i \in 1 .. Len(forwarded'), NEW j \in 1 .. Len(forwarded'), i < j
                 PROVE  forwarded'[i] < forwarded'[j]
      OBVIOUS
    <3>4. i \in 1 .. Len(forwarded)
      BY <3>2
    <3>5. CASE j = Len(forwarded) + 1
      BY <3>2, <3>3, <3>4, <3>5
    <3>6. CASE j \in 1 .. Len(forwarded)
      BY <3>3, <3>4, <3>6
    <3> QED
      BY <3>2, <3>5, <3>6
  <2>3. OneRequestAtATime'
    OBVIOUS
  <2>4. LoopKnowsItsStream'
    OBVIOUS
  <2>5. Sorted'
    OBVIOUS
  <2>6. AllOlder'
    OBVIOUS
  <2>7. ServingKnowsItsRequest'
    OBVIOUS
  <2> QED
    BY <2>1, <2>2, <2>3, <2>4, <2>5, <2>6, <2>7
<1>16. CASE WriteTargetFails
  BY <1>16 DEF WriteTargetFails
<1>17. CASE Cancelled
  BY <1>17 DEF Cancelled
<1>18. CASE Disconnect
  BY <1>18 DEF Disconnect
<1>19. CASE UNCHANGED vars
  BY <1>19 DEF vars
<1> QED
  BY <1>1, <1>2, <1>3, <1>4, <1>5, <1>6, <1>7, <1>8, <1>9, <1>10, <1>11, <1>12, <1>13, <1>14,
     <1>15, <1>16, <1>17, <1>18, <1>19 DEF Next, LoopStep, ServeStep

\* The pipeline stays sorted for ever.
LEMMA InvariantHolds == Spec => []IInv
  BY InitIInv, NextIInv, PTL DEF Spec

\* What a channel holds after a send.
LEMMA ElementsAppend ==
  ASSUME NEW S, NEW s \in Seq(S), NEW x \in S
  PROVE  Elements(Append(s, x)) = Elements(s) \cup {x}
<1>1. /\ Len(Append(s, x)) = Len(s) + 1
      /\ Append(s, x)[Len(s) + 1] = x
      /\ \A i \in 1 .. Len(s) : Append(s, x)[i] = s[i]
  OBVIOUS
<1> QED
  BY <1>1 DEF Elements

\* What a channel held before a receive.
LEMMA ElementsTail ==
  ASSUME NEW S, NEW s \in Seq(S), s # <<>>
  PROVE  Elements(s) = {Head(s)} \cup Elements(Tail(s))
<1>1. /\ Len(Tail(s)) = Len(s) - 1 /\ Len(s) \in Nat \ {0} /\ Head(s) = s[1]
      /\ \A i \in 1 .. Len(s) - 1 : Tail(s)[i] = s[i + 1]
  OBVIOUS
<1>2. \A i \in 1 .. Len(s) : i = 1 \/ (i - 1 \in 1 .. Len(s) - 1 /\ s[i] = Tail(s)[i - 1])
  BY <1>1
<1>3. Elements(s) \subseteq {Head(s)} \cup Elements(Tail(s))
  BY <1>1, <1>2 DEF Elements
<1>4. Elements(Tail(s)) \subseteq Elements(s)
  <2> SUFFICES ASSUME NEW i \in 1 .. Len(s) - 1
               PROVE  Tail(s)[i] \in Elements(s)
    BY <1>1 DEF Elements
  <2>1. i + 1 \in 1 .. Len(s) /\ Tail(s)[i] = s[i + 1]
    BY <1>1
  <2> QED
    BY <2>1 DEF Elements
<1>5. Head(s) \in Elements(s)
  <2>1. 1 \in 1 .. Len(s)
    BY <1>1
  <2> QED
    BY <1>1, <2>1 DEF Elements
<1> QED
  BY <1>3, <1>4, <1>5

-----------------------------------------------------------------------------
\* The accept loop, the channel and start_serving keep to their types.
THEOREM TypeCorrect == Spec => []TypeOK
  BY InvariantHolds, PTL DEF IInv

\* start_serving forwards streams in the order of their acceptance and none
\* twice, across reconnects and retries, for every capacity of the channel.
THEOREM InOrderAtMostOnce == Spec => []ForwardedInOrder
  BY InvariantHolds, PTL DEF IInv

\* A request put back into pending_request overwrites no other.
THEOREM PendingNotOverwritten == Spec => []OneRequestAtATime
  BY InvariantHolds, PTL DEF IInv

\* Every accepted stream is forwarded, in the pipeline, dropped by the accept
\* loop or dropped with a cancelled start_serving.
THEOREM Accounted == Spec => []NothingVanishes
<1>1. Init => NothingVanishes
  BY DEF Init, NothingVanishes
<1>2. IInv /\ NothingVanishes /\ [Next]_vars => NothingVanishes'
  <2> SUFFICES ASSUME IInv, NothingVanishes, [Next]_vars
               PROVE  NothingVanishes'
    OBVIOUS
  <2> USE DEF NothingVanishes, loopVars, serveVars
  <2>0. /\ queue \in Seq(0 .. MaxStream) /\ forwarded \in Seq(Streams)
        /\ arrived \in Nat /\ held \in 0 .. MaxStream /\ hand \in 0 .. MaxStream
        /\ loop = "send" <=> held # 0
        /\ serving \in {"open", "target"} <=> hand # 0
        /\ hand = 0 \/ pending = 0
    BY BoundAssumption DEF IInv, TypeOK, LoopKnowsItsStream, ServingKnowsItsRequest,
                           OneRequestAtATime
  <2>a. ASSUME NEW x \in 0 .. MaxStream
        PROVE  Elements(Append(queue, x)) = Elements(queue) \cup {x}
    <3> DEFINE Range == 0 .. MaxStream
    <3>1. queue \in Seq(Range) /\ x \in Range
      BY <2>0
    <3> HIDE DEF Range
    <3> QED
      BY <3>1, ElementsAppend
  <2>1. CASE Accept
    <3>1. 1 .. arrived' = 1 .. arrived \cup {arrived + 1}
      BY <2>0, <2>1 DEF Accept
    <3> QED
      BY <2>0, <2>1, <3>1 DEF Accept
  <2>2. CASE SendOk
    <3>0. Elements(Append(queue, held)) = Elements(queue) \cup {held}
      BY <2>0, <2>a
    <3>1. Elements(queue') = Elements(queue) \cup {held}
      BY <2>2, <3>0 DEF SendOk
    <3> QED
      BY <2>2, <3>1 DEF SendOk
  <2>3. CASE SendQuit
    <3>1. Elements(queue) \subseteq Elements(queue')
      <4>1. CASE ReceiverGone
        BY <2>3, <4>1 DEF SendQuit
      <4>2. CASE ~ReceiverGone
        <5>1. 0 \in 0 .. MaxStream /\ queue' = Append(queue, 0)
          BY <2>3, <4>2, BoundAssumption DEF SendQuit, Quit
        <5>2. Elements(Append(queue, 0)) = Elements(queue) \cup {0}
          BY <5>1, <2>a
        <5> QED
          BY <5>1, <5>2
      <4> QED
        BY <4>1, <4>2
    <3> QED
      BY <2>3, <3>1 DEF SendQuit
  <2>4. CASE Receive
    <3>1. Elements(queue) = {hand'} \cup Elements(queue')
      BY <2>0, <2>4, ElementsTail DEF Receive
    <3>2. hand = 0
      BY <2>0, <2>4 DEF Receive
    <3> QED
      BY <2>4, <3>1, <3>2 DEF Receive
  <2>5. CASE ReceiveQuit
    <3>1. Elements(queue) = {0} \cup Elements(queue')
      BY <2>0, <2>5, ElementsTail DEF ReceiveQuit, Quit
    <3> QED
      BY <2>5, <3>1 DEF ReceiveQuit
  <2>6. CASE WriteTarget
    <3>1. hand \in Streams
      BY <2>0, <2>6 DEF WriteTarget, Streams
    <3>2. Elements(forwarded') = Elements(forwarded) \cup {hand}
      BY <2>0, <2>6, <3>1, ElementsAppend DEF WriteTarget
    <3> QED
      BY <2>6, <3>2 DEF WriteTarget
  <2>7. CASE SendTimeout \/ SendFails
    BY <2>7 DEF SendTimeout, SendFails
  <2>8. CASE TakePending
    BY <2>0, <2>8 DEF TakePending
  <2>9. CASE OpenFails
    BY <2>0, <2>9 DEF OpenFails
  <2>10. CASE Cancelled
    BY <2>10 DEF Cancelled
  <2>11. CASE Stop \/ WokenUp \/ Shutdown \/ Connect \/ Open \/ WriteTargetFails \/ Disconnect
    BY <2>11 DEF Stop, WokenUp, Shutdown, Connect, Open, WriteTargetFails, Disconnect
  <2>12. CASE UNCHANGED vars
    BY <2>12 DEF vars
  <2> QED
    BY <2>1, <2>2, <2>3, <2>4, <2>5, <2>6, <2>7, <2>8, <2>9, <2>10, <2>11, <2>12
       DEF Next, LoopStep, ServeStep
<1> QED
  BY <1>1, <1>2, InvariantHolds, PTL DEF Spec

-----------------------------------------------------------------------------
\* The request in start_serving's hand is the oldest stream that waits, and it
\* is nowhere else.
LEMMA HandIsOldest ==
  ASSUME IInv, hand # 0
  PROVE  /\ Queue!Oldest(hand)
         /\ hand \notin Elements(queue) /\ hand # held /\ hand # pending
<1>1. /\ hand \in Nat /\ held \in Nat /\ pending = 0
      /\ held # 0 => hand < held
      /\ \A j \in 1 .. Len(queue) : queue[j] # 0 => hand < queue[j]
      /\ \A j \in 1 .. Len(queue) : queue[j] \in Nat
  BY BoundAssumption DEF IInv, TypeOK, OneRequestAtATime, Sorted, AllOlder, Older, Queued, Quit
<1>2. \A x \in Elements(queue) : x = 0 \/ hand < x
  BY <1>1 DEF Elements
<1>3. \A x \in Waiting : x = hand \/ (x \in Nat /\ hand < x)
  <2>1. \A x \in Elements(queue) : x \in Nat
    BY <1>1 DEF Elements
  <2> QED
    BY <1>1, <1>2, <2>1 DEF Waiting
<1>4. hand \in Waiting
  BY DEF Waiting
<1>5. hand \notin Elements(queue) /\ hand # held /\ hand # pending
  BY <1>1, <1>2
<1> QED
  BY <1>1, <1>3, <1>4, <1>5 DEF Queue!Oldest

\* The stream that the accept loop is sending is the newest that waits, and it
\* is nowhere else.
LEMMA HeldIsNewest ==
  ASSUME IInv, held # 0
  PROVE  /\ Queue!Newest(held)
         /\ held \notin Elements(queue) /\ held # hand /\ held # pending
<1>1. /\ held \in Nat /\ hand \in Nat /\ pending \in Nat
      /\ hand < held /\ pending < held
      /\ \A j \in 1 .. Len(queue) : queue[j] \in Nat /\ queue[j] < held
  BY BoundAssumption DEF IInv, TypeOK, AllOlder, Older
<1>2. \A x \in Elements(queue) : x \in Nat /\ x < held
  BY <1>1 DEF Elements
<1>3. \A x \in Waiting : x = held \/ (x \in Nat /\ x < held)
  BY <1>1, <1>2 DEF Waiting
<1>4. held \in Waiting
  BY DEF Waiting
<1>5. held \notin Elements(queue) /\ held # hand /\ held # pending
  BY <1>1, <1>2
<1> QED
  BY <1>1, <1>3, <1>4, <1>5 DEF Queue!Newest

\* At first nothing has arrived.
LEMMA InitIsQueue == Init => Queue!Init
<1> SUFFICES ASSUME Init PROVE Queue!Init
  OBVIOUS
<1>1. Elements(queue) = {}
  BY DEF Init, Elements
<1> QED
  BY <1>1 DEF Init, Queue!Init, Waiting

\* Every step of the accept loop and of start_serving is a step of the queue,
\* or leaves it as it is.
LEMMA NextIsQueue == IInv /\ [Next]_vars => [Queue!Next]_(Queue!queueVars)
<1> SUFFICES ASSUME IInv, [Next]_vars
             PROVE  Queue!Next \/ UNCHANGED Queue!queueVars
  OBVIOUS
<1> USE DEF loopVars, serveVars
<1>0. /\ queue \in Seq(0 .. MaxStream) /\ held \in 0 .. MaxStream
      /\ arrived \in Nat
      /\ loop = "send" <=> held # 0
      /\ serving \in {"open", "target"} <=> hand # 0
      /\ hand = 0 \/ pending = 0
  BY BoundAssumption DEF IInv, TypeOK, LoopKnowsItsStream, ServingKnowsItsRequest,
                         OneRequestAtATime
<1>a. ASSUME NEW x \in 0 .. MaxStream
      PROVE  Elements(Append(queue, x)) = Elements(queue) \cup {x}
  <2> DEFINE Range == 0 .. MaxStream
  <2>1. queue \in Seq(Range) /\ x \in Range
    BY <1>0
  <2> HIDE DEF Range
  <2> QED
    BY <2>1, ElementsAppend
<1>1. CASE Accept
  <2>1. CASE active
    <3>1. Waiting' = Waiting \cup {arrived + 1}
      BY <1>0, <1>1, <2>1 DEF Accept, Waiting
    <3> QED
      BY <1>1, <2>1, <3>1 DEF Accept, Queue!Next, Queue!Arrive
  <2>2. CASE ~active
    <3>1. Waiting' = Waiting /\ (dropped \cup lost)' = (dropped \cup lost) \cup {arrived + 1}
      BY <1>1, <2>2 DEF Accept, Waiting
    <3> QED
      BY <1>1, <2>2, <3>1 DEF Accept, Queue!Next, Queue!Refuse
  <2> QED
    BY <2>1, <2>2
<1>2. CASE SendTimeout \/ SendFails
  <2>1. held # 0
    BY <1>0, <1>2 DEF SendTimeout, SendFails
  <2>2. Waiting' = Waiting \ {held}
    BY <1>2, <2>1, HeldIsNewest DEF SendTimeout, SendFails, Waiting
  <2>3. (dropped \cup lost)' = (dropped \cup lost) \cup {held}
    BY <1>2 DEF SendTimeout, SendFails
  <2>4. Queue!Drop(held)
    BY <1>2, <2>1, <2>2, <2>3, HeldIsNewest DEF SendTimeout, SendFails, Queue!Drop
  <2> QED
    BY <2>1, <2>4 DEF Queue!Next, Waiting
<1>3. CASE WriteTarget
  <2>1. hand # 0
    BY <1>0, <1>3 DEF WriteTarget
  <2>2. Waiting' = Waiting \ {hand}
    BY <1>3, <2>1, HandIsOldest DEF WriteTarget, Waiting
  <2>3. Queue!Forward(hand)
    BY <1>3, <2>1, <2>2, HandIsOldest DEF WriteTarget, Queue!Forward
  <2> QED
    BY <2>1, <2>3 DEF Queue!Next, Waiting
<1>4. CASE Cancelled
  <2>1. CASE hand = 0
    BY <1>4, <2>1 DEF Cancelled, Waiting, Queue!queueVars
  <2>2. CASE hand # 0
    <3>1. Waiting' = Waiting \ {hand}
      BY <1>4, <2>2, HandIsOldest DEF Cancelled, Waiting
    <3>2. (dropped \cup lost)' = (dropped \cup lost) \cup {hand}
      BY <1>4, <2>2 DEF Cancelled
    <3>3. Queue!Drop(hand)
      BY <1>4, <2>2, <3>1, <3>2, HandIsOldest DEF Cancelled, Queue!Drop
    <3> QED
      BY <2>2, <3>3 DEF Queue!Next, Waiting
  <2> QED
    BY <2>1, <2>2
<1> USE DEF Queue!queueVars, Waiting
<1>5. CASE SendOk
  <2>1. Elements(queue') = Elements(queue) \cup {held}
    BY <1>0, <1>5, <1>a DEF SendOk
  <2> QED
    BY <1>5, <2>1 DEF SendOk
<1>6. CASE SendQuit
  <2>1. Elements(queue') \ {0} = Elements(queue) \ {0}
    <3>1. CASE ReceiverGone
      BY <1>6, <3>1 DEF SendQuit
    <3>2. CASE ~ReceiverGone
      <4>1. 0 \in 0 .. MaxStream /\ queue' = Append(queue, 0)
        BY <1>6, <3>2, BoundAssumption DEF SendQuit, Quit
      <4>2. Elements(Append(queue, 0)) = Elements(queue) \cup {0}
        BY <4>1, <1>a
      <4> QED
        BY <4>1, <4>2
    <3> QED
      BY <3>1, <3>2
  <2> QED
    BY <1>6, <2>1 DEF SendQuit
<1>7. CASE Receive
  <2>1. Elements(queue) = {hand'} \cup Elements(queue') /\ hand = 0
    BY <1>0, <1>7, ElementsTail DEF Receive
  <2> QED
    BY <1>7, <2>1 DEF Receive
<1>8. CASE ReceiveQuit
  <2>1. Elements(queue) = {0} \cup Elements(queue')
    BY <1>0, <1>8, ElementsTail DEF ReceiveQuit, Quit
  <2> QED
    BY <1>8, <2>1 DEF ReceiveQuit
<1>9. CASE TakePending \/ OpenFails
  BY <1>0, <1>9 DEF TakePending, OpenFails
<1>10. CASE Stop \/ WokenUp \/ Shutdown \/ Connect \/ Open \/ WriteTargetFails \/ Disconnect
  BY <1>10 DEF Stop, WokenUp, Shutdown, Connect, Open, WriteTargetFails, Disconnect
<1>11. CASE UNCHANGED vars
  BY <1>11 DEF vars
<1> QED
  BY <1>1, <1>2, <1>3, <1>4, <1>5, <1>6, <1>7, <1>8, <1>9, <1>10, <1>11
     DEF Next, LoopStep, ServeStep

\* From accept() to start_flowing_with_codec streams pass through a queue that
\* loses them at its two ends only, for every capacity of the channel and
\* across any number of connections.
THEOREM ImplementsQueue == Spec => IsLossyQueue
  BY InitIsQueue, NextIsQueue, InvariantHolds, PTL DEF Spec, IsLossyQueue, Queue!Spec
=============================================================================

----------------------------- MODULE LossyQueue -----------------------------
(***************************************************************************)
(* What the way from the accept loop to the tunnel promises about accepted *)
(* TCP streams, whatever happens to connections: it is a queue that may    *)
(* lose a stream only at its two ends.  Streams are numbered in the order  *)
(* of their arrival.  A stream that has arrived waits until it is either   *)
(* forwarded or dropped, and this is decided once.                         *)
(***************************************************************************)
EXTENDS Naturals, Sequences

CONSTANT MaxStream   \* bound on the number of streams that arrive

VARIABLES
  arrived,     \* number of streams that have arrived
  waiting,     \* the streams about which nothing has been decided
  forwarded,   \* the streams that went through the tunnel, in order
  dropped      \* the streams that did not

queueVars == <<arrived, waiting, forwarded, dropped>>

Init == arrived = 0 /\ waiting = {} /\ forwarded = <<>> /\ dropped = {}

Oldest(k) == k \in waiting /\ \A j \in waiting : k <= j
Newest(k) == k \in waiting /\ \A j \in waiting : j <= k

Arrive ==
  /\ arrived < MaxStream /\ arrived' = arrived + 1
  /\ waiting' = waiting \cup {arrived + 1}
  /\ UNCHANGED <<forwarded, dropped>>

\* Nobody serves the queue yet.
Refuse ==
  /\ arrived < MaxStream /\ arrived' = arrived + 1
  /\ dropped' = dropped \cup {arrived + 1}
  /\ UNCHANGED <<waiting, forwarded>>

Forward(k) ==
  /\ Oldest(k)
  /\ waiting' = waiting \ {k} /\ forwarded' = Append(forwarded, k)
  /\ UNCHANGED <<arrived, dropped>>

\* The oldest goes with a connection, the newest finds no room.
Drop(k) ==
  /\ Oldest(k) \/ Newest(k)
  /\ waiting' = waiting \ {k} /\ dropped' = dropped \cup {k}
  /\ UNCHANGED <<arrived, forwarded>>

Next == Arrive \/ Refuse \/ \E k \in waiting : Forward(k) \/ Drop(k)

Spec == Init /\ [][Next]_queueVars
=============================================================================

----------------------------- MODULE DuplexPipe -----------------------------
(***************************************************************************)
(* What a tunnelled TCP connection promises to the two peers: a pipe in    *)
(* each direction.  Nothing is made up or given twice, and nothing is      *)
(* given after the end; the end is given once, and is the truth unless the *)
(* direction was broken by a failure or a timeout.  Directions are named   *)
(* after the end they start from.                                          *)
(***************************************************************************)
EXTENDS Naturals

CONSTANT Ends

VARIABLES
  sent, given,    \* items that went into each direction, and came out of it
  closed,         \* its sender will send no more
  ended,          \* its receiver was told that nothing more comes
  broken          \* it failed or timed out

vars == <<sent, given, closed, ended, broken>>

Init ==
  /\ sent = [x \in Ends |-> 0] /\ given = [x \in Ends |-> 0]
  /\ closed = [x \in Ends |-> FALSE] /\ ended = [x \in Ends |-> FALSE]
  /\ broken = [x \in Ends |-> FALSE]

Send(x) ==
  /\ ~closed[x] /\ sent' = [sent EXCEPT ![x] = @ + 1]
  /\ UNCHANGED <<given, closed, ended, broken>>

Give(x) ==
  /\ ~ended[x] /\ given[x] < sent[x] /\ given' = [given EXCEPT ![x] = @ + 1]
  /\ UNCHANGED <<sent, closed, ended, broken>>

Close(x) ==
  /\ ~closed[x] /\ closed' = [closed EXCEPT ![x] = TRUE]
  /\ UNCHANGED <<sent, given, ended, broken>>

End(x) ==
  /\ ~ended[x]
  /\ broken[x] \/ (closed[x] /\ given[x] = sent[x])
  /\ ended' = [ended EXCEPT ![x] = TRUE]
  /\ UNCHANGED <<sent, given, closed, broken>>

\* A failure breaks one direction, or both.
Break(S) ==
  /\ broken' = [x \in Ends |-> broken[x] \/ x \in S]
  /\ UNCHANGED <<sent, given, closed, ended>>

Next ==
  \/ \E x \in Ends : Send(x) \/ Give(x) \/ Close(x) \/ End(x)
  \/ \E S \in SUBSET Ends : Break(S)

Spec == Init /\ [][Next]_vars
=============================================================================

------------------------ MODULE ServerSessionsProofs ------------------------
(***************************************************************************)
(* Proofs, for any number of connections, kinds of tunnels and capacities, *)
(* that the server loses no listener except when a login answer cannot be  *)
(* sent, and that it leaves the tunnels of open connections alone.         *)
(***************************************************************************)
EXTENDS ServerSessions, TLAPS

\* A listener exists only after its task has bound it, and a task that has
\* ended has told its listener to quit.
BoundByTask ==
  \A c \in bound :
    /\ pc[c] \notin {"new", "login", "derive", "reject"}
    /\ pc[c] = "over" => c \in terminated

IInv == TypeOK /\ BoundByTask /\ ListenersAreOwned

\* What Append and Tail do to the Quits of a channel.
LEMMA QuitKept ==
  ASSUME NEW s \in Seq({"item", "quit"}), NEW m \in {"item", "quit"}
  PROVE  /\ Append(s, m) \in Seq({"item", "quit"})
         /\ (\E i \in 1 .. Len(s) : s[i] = "quit")
              => \E i \in 1 .. Len(Append(s, m)) : Append(s, m)[i] = "quit"
         /\ m = "quit" => \E i \in 1 .. Len(Append(s, m)) : Append(s, m)[i] = "quit"
         /\ s # <<>> => Tail(s) \in Seq({"item", "quit"})
         /\ s # <<>> /\ Head(s) = "item" /\ (\E i \in 1 .. Len(s) : s[i] = "quit")
              => \E i \in 1 .. Len(Tail(s)) : Tail(s)[i] = "quit"
<1>1. /\ Append(s, m) \in Seq({"item", "quit"}) /\ Len(Append(s, m)) = Len(s) + 1
      /\ Append(s, m)[Len(s) + 1] = m /\ \A i \in 1 .. Len(s) : Append(s, m)[i] = s[i]
  OBVIOUS
<1>2. Len(s) \in Nat
  OBVIOUS
<1>3. (\E i \in 1 .. Len(s) : s[i] = "quit")
         => \E i \in 1 .. Len(Append(s, m)) : Append(s, m)[i] = "quit"
  <2>1. \A i \in 1 .. Len(s) : i \in 1 .. Len(Append(s, m))
    BY <1>1, <1>2
  <2> QED
    BY <1>1, <2>1, Zenon
<1>4. m = "quit" => \E i \in 1 .. Len(Append(s, m)) : Append(s, m)[i] = "quit"
  <2>1. Len(s) + 1 \in 1 .. Len(Append(s, m))
    BY <1>1, <1>2
  <2> QED
    BY <1>1, <2>1, Zenon
<1>5. s # <<>> => Tail(s) \in Seq({"item", "quit"})
  OBVIOUS
<1>6. ASSUME s # <<>>, Head(s) = "item", NEW i \in 1 .. Len(s), s[i] = "quit"
      PROVE  \E k \in 1 .. Len(Tail(s)) : Tail(s)[k] = "quit"
  <2>1. i # 1
    BY <1>6
  <2>2. Len(Tail(s)) = Len(s) - 1 /\ \A k \in 1 .. Len(Tail(s)) : Tail(s)[k] = s[k + 1]
    BY <1>6
  <2>3. i - 1 \in 1 .. Len(Tail(s)) /\ Tail(s)[i - 1] = s[i]
    BY <1>2, <2>1, <2>2
  <2> QED
    BY <1>6, <2>3
<1> QED
  BY <1>1, <1>3, <1>4, <1>5, <1>6

\* The server starts without listeners.
LEMMA InitIInv == Init => IInv
BY DEF Init, IInv, TypeOK, BoundByTask, ListenersAreOwned, Steps

\* Every step of a connection's task, of a listener, of the sweep and of the
\* client preserves the inductive invariant.
LEMMA NextIInv == IInv /\ [Next]_vars => IInv'
<1> SUFFICES ASSUME IInv, [Next]_vars PROVE IInv'
  OBVIOUS
<1> USE KindAssumption DEF IInv, TcpIn, UdpIn, TypeOK, BoundByTask, ListenersAreOwned, QuitQueued, Steps, Goto,
     Drops, listenVars, registryVars
<1>1. ASSUME NEW c \in Conns, Login(c) PROVE IInv'
  BY <1>1 DEF Login
<1>2. ASSUME NEW c \in Conns, LoginFails(c) PROVE IInv'
  BY <1>2 DEF LoginFails
<1>3. ASSUME NEW c \in Conns, Derive(c) PROVE IInv'
  <2>1. CASE bound' = bound \cup {c} /\ c \in TcpIn \cup UdpIn /\ Goto(c, "derive", "respond")
    BY <1>3, <2>1 DEF Derive
  <2>2. CASE bound' = bound /\ Goto(c, "derive", "reject")
    BY <1>3, <2>2 DEF Derive
  <2>3. CASE bound' = bound /\ Goto(c, "derive", "respond")
    BY <1>3, <2>3 DEF Derive
  <2> QED
    BY <1>3, <2>1, <2>2, <2>3, Zenon DEF Derive
<1>4. ASSUME NEW c \in Conns, Reject(c) PROVE IInv'
  BY <1>4 DEF Reject
<1>5. ASSUME NEW c \in Conns, Respond(c) PROVE IInv'
  BY <1>5 DEF Respond
<1>6. ASSUME NEW c \in Conns, RespondFails(c) PROVE IInv'
  BY <1>6 DEF RespondFails
<1>7. ASSUME NEW c \in Conns, Push(c) PROVE IInv'
  BY <1>7 DEF Push
<1>8. ASSUME NEW c \in Conns, PushSession(c) PROVE IInv'
  BY <1>8 DEF PushSession
<1>9. ASSUME NEW c \in Conns, TakeReceiver(c) PROVE IInv'
  BY <1>9 DEF TakeReceiver
<1>10. ASSUME NEW c \in Conns, AcceptingEnds(c) PROVE IInv'
  BY <1>10 DEF AcceptingEnds
<1>11. ASSUME NEW c \in Conns, Forward(c) PROVE IInv'
  <2>1. /\ mailbox[c] \in Seq({"item", "quit"}) /\ mailbox[c] # <<>> /\ Head(mailbox[c]) = "item"
        /\ mailbox' = [mailbox EXCEPT ![c] = Tail(mailbox[c])]
    BY <1>11 DEF Forward
  <2>2. Tail(mailbox[c]) \in Seq({"item", "quit"})
        /\ (QuitQueued(c) => \E i \in 1 .. Len(Tail(mailbox[c])) : Tail(mailbox[c])[i] = "quit")
    BY <2>1, QuitKept
  <2>3. TypeOK' /\ BoundByTask'
    BY <1>11, <2>1, <2>2 DEF Forward
  <2>4. \A d \in Conns : QuitQueued(d) => QuitQueued(d)'
    BY <2>1, <2>2
  <2>5. ListenersAreOwned'
    <3> HIDE DEF QuitQueued
    <3> QED
      BY <1>11, <2>4 DEF Forward
  <2> QED
    BY <2>3, <2>5
<1>12. ASSUME NEW c \in Conns, ServingEnds(c) PROVE IInv'
  BY <1>12 DEF ServingEnds
<1>13. ASSUME NEW c \in Conns, Shutdown(c) PROVE IInv'
  BY <1>13 DEF Shutdown
<1>14. ASSUME NEW c \in Conns, Arrive(c) PROVE IInv'
  BY <1>14 DEF Arrive
<1>15. ASSUME NEW c \in Conns, Abandon(c) PROVE IInv'
  BY <1>15 DEF Abandon
<1>16. ASSUME NEW c \in Conns, ConnCloses(c) PROVE IInv'
  BY <1>16 DEF ConnCloses
<1>17. ASSUME NEW c \in Conns, Incoming(c) PROVE IInv'
  <2>1. /\ mailbox[c] \in Seq({"item", "quit"})
        /\ mailbox' = [mailbox EXCEPT ![c] = Append(mailbox[c], "item")]
    BY <1>17 DEF Incoming
  <2>2. /\ Append(mailbox[c], "item") \in Seq({"item", "quit"})
        /\ QuitQueued(c) => \E i \in 1 .. Len(Append(mailbox[c], "item")) :
                               Append(mailbox[c], "item")[i] = "quit"
    BY <2>1, QuitKept
  <2>3. \A d \in Conns : QuitQueued(d) => QuitQueued(d)'
    BY <2>1, <2>2
  <2>4. TypeOK' /\ BoundByTask'
    BY <1>17, <2>1, <2>2 DEF Incoming
  <2>5. ListenersAreOwned'
    <3> HIDE DEF QuitQueued
    <3> QED
      BY <1>17, <2>3 DEF Incoming
  <2> QED
    BY <2>4, <2>5
<1>18. ASSUME NEW c \in Conns, LoopEnds(c) PROVE IInv'
  BY <1>18 DEF LoopEnds
<1>19. ASSUME NEW c \in Conns, SendQuit(c) PROVE IInv'
  <2>1. CASE c \in UdpIn
    BY <1>19, <2>1 DEF SendQuit
  <2>2. CASE c \notin UdpIn /\ pc[c] \in {"shutdown", "over"}
    BY <1>19, <2>2 DEF SendQuit
  <2>3. CASE c \notin UdpIn /\ pc[c] \notin {"shutdown", "over"}
    <3>1. mailbox[c] \in Seq({"item", "quit"})
          /\ mailbox' = [mailbox EXCEPT ![c] = Append(mailbox[c], "quit")]
      BY <1>19, <2>3 DEF SendQuit
    <3>2. /\ Append(mailbox[c], "quit") \in Seq({"item", "quit"})
          /\ \E i \in 1 .. Len(Append(mailbox[c], "quit")) : Append(mailbox[c], "quit")[i] = "quit"
      BY <3>1, QuitKept
    <3>3. QuitQueued(c)' /\ \A d \in Conns : QuitQueued(d) => QuitQueued(d)'
      BY <3>1, <3>2
    <3>4. TypeOK' /\ BoundByTask'
      BY <1>19, <2>3, <3>1, <3>2 DEF SendQuit
    <3>5. ListenersAreOwned'
      <4> HIDE DEF QuitQueued
      <4> QED
        BY <1>19, <2>3, <3>3 DEF SendQuit
    <3> QED
      BY <3>4, <3>5
  <2> QED
    BY <2>1, <2>2, <2>3
<1>20. CASE ClearExpired
  BY <1>20 DEF ClearExpired
<1>21. CASE UNCHANGED vars
  BY <1>21 DEF vars
<1> QED
  BY <1>1, <1>2, <1>3, <1>4, <1>5, <1>6, <1>7, <1>8, <1>9, <1>10, <1>11, <1>12,
     <1>13, <1>14, <1>15, <1>16, <1>17, <1>18, <1>19, <1>20, <1>21
     DEF Next, TaskStep

\* Every reachable state satisfies the inductive invariant.
LEMMA InvariantHolds == Spec => []IInv
BY InitIInv, NextIInv, PTL DEF Spec

\* The server's state and its connection tasks keep their types.
THEOREM TypeCorrect == Spec => []TypeOK
<1>1. IInv => TypeOK
  BY DEF IInv
<1> QED
  BY <1>1, InvariantHolds, PTL

\* Every bound listener is on its way to a session, has one, or has been or is
\* about to be told to quit, unless its login answer could not be sent.
THEOREM NoListenerLost == Spec => []ListenersAreOwned
<1>1. IInv => ListenersAreOwned
  BY DEF IInv
<1> QED
  BY <1>1, InvariantHolds, PTL

-----------------------------------------------------------------------------
\* A live IN tunnel is left alone; no listener's receiver is taken before its
\* task has come so far.
LiveAt(c) ==
  /\ kind[c] \in {"tcp", "udp"} /\ conn[c] = "open" =>
       /\ pc[c] \notin {"shutdown", "over"} /\ c \notin quitting /\ c \notin terminated /\ ~QuitQueued(c)
       /\ pc[c] \in {"respond", "push", "session", "take", "serve"} => c \in bound
       /\ pc[c] \in {"session", "take", "serve"} => c \in connections
       /\ pc[c] \in {"take", "serve"} => c \in sessions
  /\ pc[c] \in {"login", "derive", "reject", "respond", "push", "session", "take"} => c \notin active

\* An item does not add a Quit to a channel, and taking one does not either.
LEMMA NoQuitAdded ==
  ASSUME NEW s \in Seq({"item", "quit"}), \A i \in 1 .. Len(s) : s[i] # "quit"
  PROVE  /\ \A i \in 1 .. Len(Append(s, "item")) : Append(s, "item")[i] # "quit"
         /\ s # <<>> => Head(s) # "quit" /\ \A i \in 1 .. Len(Tail(s)) : Tail(s)[i] # "quit"
<1>1. \A i \in 1 .. Len(Append(s, "item")) : Append(s, "item")[i] # "quit"
  OBVIOUS
<1>2. ASSUME s # <<>> PROVE Head(s) # "quit" /\ \A i \in 1 .. Len(Tail(s)) : Tail(s)[i] # "quit"
  <2>1. Len(Tail(s)) = Len(s) - 1 /\ \A k \in 1 .. Len(Tail(s)) : Tail(s)[k] = s[k + 1]
    BY <1>2
  <2>2. Head(s) = s[1] /\ Len(s) \in Nat /\ Len(s) >= 1
    BY <1>2
  <2> QED
    BY <2>1, <2>2
<1> QED
  BY <1>1, <1>2

\* Every step leaves a live tunnel alone.
LEMMA NextLive ==
  ASSUME TypeOK, [Next]_vars, NEW d \in Conns, LiveAt(d)
  PROVE  LiveAt(d)'
<1> USE KindAssumption DEF TypeOK, LiveAt, TcpIn, UdpIn, Goto, Drops, listenVars, registryVars
<1>0. CASE UNCHANGED vars
  BY <1>0 DEF vars, QuitQueued
<1>1. ASSUME NEW c \in Conns, Login(c) PROVE LiveAt(d)'
  <2>1. QuitQueued(d)' <=> QuitQueued(d)
    BY <1>1 DEF Login, listenVars, QuitQueued
  <2> QED
    BY <1>1, <2>1 DEF Login
<1>2. ASSUME NEW c \in Conns, LoginFails(c) PROVE LiveAt(d)'
  <2>1. QuitQueued(d)' <=> QuitQueued(d)
    BY <1>2 DEF LoginFails, listenVars, QuitQueued
  <2> QED
    BY <1>2, <2>1 DEF LoginFails
<1>3. ASSUME NEW c \in Conns, Derive(c) PROVE LiveAt(d)'
  <2>1. QuitQueued(d)' <=> QuitQueued(d)
    BY <1>3 DEF Derive, listenVars, QuitQueued
  <2> QED
    BY <1>3, <2>1 DEF Derive
<1>4. ASSUME NEW c \in Conns, Reject(c) PROVE LiveAt(d)'
  <2>1. QuitQueued(d)' <=> QuitQueued(d)
    BY <1>4 DEF Reject, listenVars, QuitQueued
  <2> QED
    BY <1>4, <2>1 DEF Reject
<1>5. ASSUME NEW c \in Conns, Respond(c) PROVE LiveAt(d)'
  <2>1. QuitQueued(d)' <=> QuitQueued(d)
    BY <1>5 DEF Respond, listenVars, QuitQueued
  <2> QED
    BY <1>5, <2>1 DEF Respond
<1>6. ASSUME NEW c \in Conns, RespondFails(c) PROVE LiveAt(d)'
  <2>1. QuitQueued(d)' <=> QuitQueued(d)
    BY <1>6 DEF RespondFails, listenVars, QuitQueued
  <2> QED
    BY <1>6, <2>1 DEF RespondFails
<1>7. ASSUME NEW c \in Conns, Push(c) PROVE LiveAt(d)'
  <2>1. QuitQueued(d)' <=> QuitQueued(d)
    BY <1>7 DEF Push, listenVars, QuitQueued
  <2> QED
    BY <1>7, <2>1 DEF Push
<1>8. ASSUME NEW c \in Conns, PushSession(c) PROVE LiveAt(d)'
  <2>1. QuitQueued(d)' <=> QuitQueued(d)
    BY <1>8 DEF PushSession, listenVars, QuitQueued
  <2> QED
    BY <1>8, <2>1 DEF PushSession
<1>9. ASSUME NEW c \in Conns, TakeReceiver(c) PROVE LiveAt(d)'
  <2>1. QuitQueued(d)' <=> QuitQueued(d)
    BY <1>9 DEF TakeReceiver, listenVars, QuitQueued
  <2> QED
    BY <1>9, <2>1 DEF TakeReceiver
<1>10. ASSUME NEW c \in Conns, AcceptingEnds(c) PROVE LiveAt(d)'
  <2>1. QuitQueued(d)' <=> QuitQueued(d)
    BY <1>10 DEF AcceptingEnds, listenVars, QuitQueued
  <2> QED
    BY <1>10, <2>1 DEF AcceptingEnds
<1>11. ASSUME NEW c \in Conns, Forward(c) PROVE LiveAt(d)'
  <2>1. ~QuitQueued(d) => ~QuitQueued(d)'
    BY <1>11, NoQuitAdded DEF Forward, QuitQueued
  <2> QED
    BY <1>11, <2>1 DEF Forward
<1>12. ASSUME NEW c \in Conns, ServingEnds(c) PROVE LiveAt(d)'
  <2>1. QuitQueued(d)' <=> QuitQueued(d)
    BY <1>12 DEF ServingEnds, QuitQueued
  <2>2. mailbox[d] # <<>> /\ Head(mailbox[d]) = "quit" => QuitQueued(d)
    BY NoQuitAdded DEF QuitQueued
  <2> QED
    BY <1>12, <2>1, <2>2 DEF ServingEnds
<1>13. ASSUME NEW c \in Conns, Shutdown(c) PROVE LiveAt(d)'
  <2>1. QuitQueued(d)' <=> QuitQueued(d)
    BY <1>13 DEF Shutdown, listenVars, QuitQueued
  <2> QED
    BY <1>13, <2>1 DEF Shutdown
<1>14. ASSUME NEW c \in Conns, Arrive(c) PROVE LiveAt(d)'
  <2>1. CASE d = c
    <3>1. ~QuitQueued(d)' /\ pc'[d] = "login" /\ d \notin active' /\ d \notin terminated' /\ d \notin quitting'
      BY <1>14, <2>1 DEF Arrive, QuitQueued
    <3> QED
      BY <3>1
  <2>2. CASE d # c
    <3>1. QuitQueued(d)' <=> QuitQueued(d)
      BY <1>14, <2>2 DEF Arrive, QuitQueued
    <3>2. kind'[d] = kind[d] /\ conn'[d] = conn[d] /\ pc'[d] = pc[d]
      BY <1>14, <2>2 DEF Arrive
    <3> QED
      BY <1>14, <2>2, <3>1, <3>2 DEF Arrive
  <2> QED
    BY <2>1, <2>2
<1>15. ASSUME NEW c \in Conns, Abandon(c) PROVE LiveAt(d)'
  <2>1. QuitQueued(d)' <=> QuitQueued(d)
    BY <1>15 DEF Abandon, listenVars, QuitQueued
  <2> QED
    BY <1>15, <2>1 DEF Abandon
<1>16. ASSUME NEW c \in Conns, ConnCloses(c) PROVE LiveAt(d)'
  <2>1. QuitQueued(d)' <=> QuitQueued(d)
    BY <1>16 DEF ConnCloses, listenVars, QuitQueued
  <2> QED
    BY <1>16, <2>1 DEF ConnCloses
<1>17. ASSUME NEW c \in Conns, Incoming(c) PROVE LiveAt(d)'
  <2>1. ~QuitQueued(d) => ~QuitQueued(d)'
    BY <1>17, NoQuitAdded DEF Incoming, QuitQueued
  <2> QED
    BY <1>17, <2>1 DEF Incoming
<1>18. ASSUME NEW c \in Conns, LoopEnds(c) PROVE LiveAt(d)'
  <2>1. QuitQueued(d)' <=> QuitQueued(d)
    BY <1>18 DEF LoopEnds, listenVars, QuitQueued
  <2> QED
    BY <1>18, <2>1 DEF LoopEnds, Receiving
<1>19. ASSUME NEW c \in Conns, SendQuit(c) PROVE LiveAt(d)'
  <2>1. c # d => (QuitQueued(d)' <=> QuitQueued(d))
    BY <1>19 DEF SendQuit, QuitQueued
  <2> QED
    BY <1>19, <2>1 DEF SendQuit
<1>20. CASE ClearExpired
  <2>1. QuitQueued(d)' <=> QuitQueued(d)
    BY <1>20 DEF ClearExpired, QuitQueued
  <2> QED
    BY <1>20, <2>1 DEF ClearExpired
<1> QED
  BY <1>0, <1>1, <1>2, <1>3, <1>4, <1>5, <1>6, <1>7, <1>8, <1>9,
     <1>10, <1>11, <1>12, <1>13, <1>14, <1>15, <1>16, <1>17, <1>18, <1>19, <1>20 DEF Next, TaskStep

\* While the connection of an IN tunnel is open, nothing that the sweep, other
\* connections or their listeners do takes its port, session or task away.
THEOREM LiveTunnelsAreKept == Spec => []LiveTunnelKept
<1> DEFINE AllLive == \A d \in Conns : LiveAt(d)
<1>1. Init => AllLive
  BY DEF Init, LiveAt
<1>2. TypeOK /\ AllLive /\ [Next]_vars => AllLive'
  BY NextLive
<1>3. AllLive => LiveTunnelKept
  BY DEF LiveAt, LiveTunnelKept, TcpIn, UdpIn
<1> HIDE DEF AllLive
<1> QED
  BY <1>1, <1>2, <1>3, TypeCorrect, PTL DEF Spec
=============================================================================

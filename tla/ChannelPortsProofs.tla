------------------------- MODULE ChannelPortsProofs -------------------------
(***************************************************************************)
(* Proof, for any number of flows, ports and address families, that a      *)
(* synthetic local address belongs to one flow and is released with it,    *)
(* and that the search for one gives up only when all but one are taken.   *)
(***************************************************************************)
EXTENDS ChannelPorts, FiniteSetTheorems, TLAPS

\* A flow has no address while it looks for one or after it has released it.
AddrMatchesProc ==
  \A f \in Flows : proc[f] \in {"target", "draw", "claim", "join", "over"} => addr[f] = NoAddr

\* How many draws come before the one that yields port p.
Ahead(p) == IF p >= nextPort THEN p - nextPort ELSE p - nextPort + PortMod

PortAddr(f, p) == [v6 |-> f \in V6, port |-> p]

\* The search of flow f has seen every port that its remaining draws will not
\* yield, and left it taken, except the one it has just drawn.
Seen(f) ==
  \A p \in 1 .. PortMod - 1 :
    \/ Ahead(p) <= tries[f]
    \/ owner[PortAddr(f, p)] # Nobody
    \/ proc[f] = "claim" /\ p = drawn[f]

SearchedOwned ==
  \A f \in Flows : alone[f] /\ proc[f] \in {"draw", "claim"} => Seen(f)

IInv == PortsTypeOK /\ OneOwner /\ OverHasNothing /\ AddrMatchesProc

\* No address is port 0, which stands for the absence of one.
LEMMA NoAddrIsNone == NoAddr \notin Addrs
  BY PortsAssumption DEF NoAddr, Addrs

\* Initially no flow runs and the map is empty.
LEMMA InitIInv == PortsInit => IInv
<1> SUFFICES ASSUME PortsInit PROVE IInv
  OBVIOUS
<1> USE PortsAssumption DEF PortsInit
<1>1. PortsTypeOK
  <2>1. nextPort \in 0 .. PortMod - 1 /\ drawn \in [Flows -> 0 .. PortMod - 1]
        /\ tries \in [Flows -> 0 .. PortMod - 1] /\ replies \in [Flows -> 0 .. ReplyLen]
    OBVIOUS
  <2>2. owner \in [Addrs -> Flows \cup {Nobody}] /\ addr \in [Flows -> Addrs \cup {NoAddr}]
        /\ routed \in Flows \cup {Nobody} /\ offline \in BOOLEAN /\ alone \in [Flows -> BOOLEAN]
    BY Zenon
  <2>3. proc \in [Flows -> {"target", "read", "draw", "claim", "forward", "close", "join", "over"}]
        /\ replier \in [Flows -> {"recv", "send", "over"}]
    OBVIOUS
  <2> QED
    BY <2>1, <2>2, <2>3 DEF PortsTypeOK
<1>2. OneOwner
  BY NoAddrIsNone DEF OneOwner
<1>3. OverHasNothing /\ AddrMatchesProc
  BY DEF OverHasNothing, AddrMatchesProc
<1> QED
  BY <1>1, <1>2, <1>3 DEF IInv

\* Every step preserves the inductive invariant.
LEMMA NextIInv == IInv /\ [PortsNext]_channelVars => IInv'
<1> SUFFICES ASSUME IInv, [PortsNext]_channelVars PROVE IInv'
  OBVIOUS
<1> USE PortsAssumption, NoAddrIsNone DEF IInv
<1>0. CASE UNCHANGED channelVars
  BY <1>0 DEF channelVars, portVars, PortsTypeOK, OneOwner, OverHasNothing, AddrMatchesProc
<1>1. ASSUME NEW f \in Flows, AcceptStream(f) PROVE IInv'
  <2>1. PortsTypeOK'
    BY <1>1 DEF AcceptStream, portVars, At, Goes, PortsTypeOK
  <2>2. OneOwner'
    BY <1>1 DEF AcceptStream, portVars, At, Goes, PortsTypeOK, OneOwner, AddrMatchesProc
  <2>3. OverHasNothing' /\ AddrMatchesProc'
    BY <1>1 DEF AcceptStream, portVars, At, Goes, PortsTypeOK, OverHasNothing, AddrMatchesProc
  <2> QED
    BY <2>1, <2>2, <2>3
<1>2. ASSUME NEW f \in Flows, ReadTarget(f) PROVE IInv'
  <2>1. PortsTypeOK'
    BY <1>2 DEF ReadTarget, portVars, At, Goes, PortsTypeOK
  <2>2. OneOwner'
    BY <1>2 DEF ReadTarget, portVars, At, Goes, PortsTypeOK, OneOwner, AddrMatchesProc
  <2>3. OverHasNothing' /\ AddrMatchesProc'
    BY <1>2 DEF ReadTarget, portVars, At, Goes, PortsTypeOK, OverHasNothing, AddrMatchesProc
  <2> QED
    BY <2>1, <2>2, <2>3
<1>3. ASSUME NEW f \in Flows, Datagram(f) PROVE IInv'
  <2>1. PortsTypeOK'
    <3>1. CASE addr[f] # NoAddr
      BY <1>3, <3>1 DEF Datagram, At, Goes, PortsTypeOK
    <3>2. CASE addr[f] = NoAddr
      <4>1. PortMod - 1 \in 0 .. PortMod - 1
        OBVIOUS
      <4>2. proc' = [proc EXCEPT ![f] = "draw"] /\ tries' = [tries EXCEPT ![f] = PortMod - 1]
            /\ alone' = [alone EXCEPT ![f] = TRUE]
            /\ UNCHANGED <<nextPort, owner, drawn, addr, replies, replier, routed, offline>>
        BY <1>3, <3>2 DEF Datagram, Goes
      <4>3. tries' \in [Flows -> 0 .. PortMod - 1]
        BY <4>1, <4>2 DEF PortsTypeOK
      <4>4. alone' \in [Flows -> BOOLEAN]
        BY <4>2 DEF PortsTypeOK
      <4>5. proc' \in [Flows -> {"target", "read", "draw", "claim", "forward", "close", "join", "over"}]
        BY <4>2 DEF PortsTypeOK
      <4> QED
        BY <4>2, <4>3, <4>4, <4>5 DEF PortsTypeOK
    <3> QED
      BY <3>1, <3>2
  <2>2. OneOwner'
    BY <1>3 DEF Datagram, At, Goes, PortsTypeOK, OneOwner, AddrMatchesProc
  <2>3. OverHasNothing' /\ AddrMatchesProc'
    BY <1>3 DEF Datagram, At, Goes, PortsTypeOK, OverHasNothing, AddrMatchesProc
  <2> QED
    BY <2>1, <2>2, <2>3
<1>4. ASSUME NEW f \in Flows, Draw(f) PROVE IInv'
  <2>1. PortsTypeOK'
    BY <1>4 DEF Draw, At, Goes, Disturbed, PortsTypeOK
  <2>2. OneOwner'
    BY <1>4 DEF Draw, At, Goes, Disturbed, PortsTypeOK, OneOwner, AddrMatchesProc
  <2>3. OverHasNothing' /\ AddrMatchesProc'
    BY <1>4 DEF Draw, At, Goes, Disturbed, PortsTypeOK, OverHasNothing, AddrMatchesProc
  <2> QED
    BY <2>1, <2>2, <2>3
<1>5. ASSUME NEW f \in Flows, Claim(f) PROVE IInv'
  <2>1. PortsTypeOK'
    <3>1. CASE drawn[f] = 0 \/ owner[DrawnAddr(f)] # Nobody
      BY <1>5, <3>1 DEF Claim, At, Goes, PortsTypeOK
    <3>2. CASE ~(drawn[f] = 0 \/ owner[DrawnAddr(f)] # Nobody)
      <4>1. DrawnAddr(f) \in Addrs
        BY <3>2 DEF DrawnAddr, Addrs, PortsTypeOK
      <4>2. drawn' = [drawn EXCEPT ![f] = 0] /\ tries' = [tries EXCEPT ![f] = 0]
            /\ alone' = [alone EXCEPT ![f] = FALSE] /\ addr' = [addr EXCEPT ![f] = DrawnAddr(f)]
            /\ owner' = [owner EXCEPT ![DrawnAddr(f)] = f] /\ proc' = [proc EXCEPT ![f] = "forward"]
            /\ UNCHANGED <<nextPort, replies, replier, routed, offline>>
        BY <1>5, <3>2 DEF Claim, Goes, Reserved
      <4> QED
        BY <4>1, <4>2 DEF PortsTypeOK
    <3> QED
      BY <3>1, <3>2
  <2>2. OneOwner'
    BY <1>5 DEF Claim, At, Goes, Reserved, DrawnAddr, PortsTypeOK, OneOwner, AddrMatchesProc
  <2>3. OverHasNothing' /\ AddrMatchesProc'
    BY <1>5 DEF Claim, At, Goes, Reserved, DrawnAddr, PortsTypeOK, OverHasNothing, AddrMatchesProc
  <2> QED
    BY <2>1, <2>2, <2>3
<1>6. ASSUME NEW f \in Flows, Bail(f) PROVE IInv'
  <2>1. PortsTypeOK'
    BY <1>6 DEF Bail, At, Goes, Reserved, PortsTypeOK
  <2>2. OneOwner'
    BY <1>6 DEF Bail, At, Goes, Reserved, PortsTypeOK, OneOwner, AddrMatchesProc
  <2>3. OverHasNothing' /\ AddrMatchesProc'
    BY <1>6 DEF Bail, At, Goes, Reserved, PortsTypeOK, OverHasNothing, AddrMatchesProc
  <2> QED
    BY <2>1, <2>2, <2>3
<1>7. ASSUME NEW f \in Flows, ForwardDatagram(f) PROVE IInv'
  <2>1. PortsTypeOK'
    BY <1>7 DEF ForwardDatagram, portVars, At, Goes, PortsTypeOK
  <2>2. OneOwner'
    BY <1>7 DEF ForwardDatagram, portVars, At, Goes, PortsTypeOK, OneOwner, AddrMatchesProc
  <2>3. OverHasNothing' /\ AddrMatchesProc'
    BY <1>7 DEF ForwardDatagram, portVars, At, Goes, PortsTypeOK, OverHasNothing, AddrMatchesProc
  <2> QED
    BY <2>1, <2>2, <2>3
<1>8. ASSUME NEW f \in Flows, ReadEnds(f) PROVE IInv'
  <2>1. PortsTypeOK'
    BY <1>8 DEF ReadEnds, portVars, At, Goes, PortsTypeOK
  <2>2. OneOwner'
    BY <1>8 DEF ReadEnds, portVars, At, Goes, PortsTypeOK, OneOwner, AddrMatchesProc
  <2>3. OverHasNothing' /\ AddrMatchesProc'
    BY <1>8 DEF ReadEnds, portVars, At, Goes, PortsTypeOK, OverHasNothing, AddrMatchesProc
  <2> QED
    BY <2>1, <2>2, <2>3
<1>9. ASSUME NEW f \in Flows, Close(f) PROVE IInv'
  <2>1. PortsTypeOK'
    BY <1>9 DEF Close, At, Goes, Disturbed, PortsTypeOK
  <2>2. OneOwner'
    BY <1>9 DEF Close, At, Goes, Disturbed, PortsTypeOK, OneOwner, AddrMatchesProc
  <2>3. OverHasNothing' /\ AddrMatchesProc'
    BY <1>9 DEF Close, At, Goes, Disturbed, PortsTypeOK, OverHasNothing, AddrMatchesProc
  <2> QED
    BY <2>1, <2>2, <2>3
<1>10. ASSUME NEW f \in Flows, Join(f) PROVE IInv'
  <2>1. PortsTypeOK'
    BY <1>10 DEF Join, portVars, At, Goes, PortsTypeOK
  <2>2. OneOwner'
    BY <1>10 DEF Join, portVars, At, Goes, PortsTypeOK, OneOwner, AddrMatchesProc
  <2>3. OverHasNothing' /\ AddrMatchesProc'
    BY <1>10 DEF Join, portVars, At, Goes, PortsTypeOK, OverHasNothing, AddrMatchesProc
  <2> QED
    BY <2>1, <2>2, <2>3
<1>11. ASSUME NEW f \in Flows, ReplierTakes(f) PROVE IInv'
  <2>1. PortsTypeOK'
    BY <1>11 DEF ReplierTakes, portVars, PortsTypeOK
  <2>2. OneOwner'
    BY <1>11 DEF ReplierTakes, portVars, PortsTypeOK, OneOwner, AddrMatchesProc
  <2>3. OverHasNothing' /\ AddrMatchesProc'
    BY <1>11 DEF ReplierTakes, portVars, PortsTypeOK, OverHasNothing, AddrMatchesProc
  <2> QED
    BY <2>1, <2>2, <2>3
<1>12. ASSUME NEW f \in Flows, ReplierSends(f) PROVE IInv'
  <2>1. PortsTypeOK'
    BY <1>12 DEF ReplierSends, portVars, PortsTypeOK
  <2>2. OneOwner'
    BY <1>12 DEF ReplierSends, portVars, PortsTypeOK, OneOwner, AddrMatchesProc
  <2>3. OverHasNothing' /\ AddrMatchesProc'
    BY <1>12 DEF ReplierSends, portVars, PortsTypeOK, OverHasNothing, AddrMatchesProc
  <2> QED
    BY <2>1, <2>2, <2>3
<1>13. ASSUME NEW f \in Flows, ReplierFails(f) PROVE IInv'
  <2>1. PortsTypeOK'
    BY <1>13 DEF ReplierFails, portVars, PortsTypeOK
  <2>2. OneOwner'
    BY <1>13 DEF ReplierFails, portVars, PortsTypeOK, OneOwner, AddrMatchesProc
  <2>3. OverHasNothing' /\ AddrMatchesProc'
    BY <1>13 DEF ReplierFails, portVars, PortsTypeOK, OverHasNothing, AddrMatchesProc
  <2> QED
    BY <2>1, <2>2, <2>3
<1>14. ASSUME NEW f \in Flows, ReplierEnds(f) PROVE IInv'
  <2>1. PortsTypeOK'
    BY <1>14 DEF ReplierEnds, portVars, HasSender, PortsTypeOK
  <2>2. OneOwner'
    BY <1>14 DEF ReplierEnds, portVars, HasSender, PortsTypeOK, OneOwner, AddrMatchesProc
  <2>3. OverHasNothing' /\ AddrMatchesProc'
    BY <1>14 DEF ReplierEnds, portVars, HasSender, PortsTypeOK, OverHasNothing, AddrMatchesProc
  <2> QED
    BY <2>1, <2>2, <2>3
<1>15. ASSUME NEW a \in Addrs, Route(a) PROVE IInv'
  <2>1. PortsTypeOK'
    BY <1>15 DEF Route, portVars, PortsTypeOK
  <2>2. OneOwner'
    BY <1>15 DEF Route, portVars, PortsTypeOK, OneOwner, AddrMatchesProc
  <2>3. OverHasNothing' /\ AddrMatchesProc'
    BY <1>15 DEF Route, portVars, PortsTypeOK, OverHasNothing, AddrMatchesProc
  <2> QED
    BY <2>1, <2>2, <2>3
<1>16. CASE RouteSends
  <2>1. PortsTypeOK'
    BY <1>16 DEF RouteSends, portVars, PortsTypeOK
  <2>2. OneOwner'
    BY <1>16 DEF RouteSends, portVars, PortsTypeOK, OneOwner, AddrMatchesProc
  <2>3. OverHasNothing' /\ AddrMatchesProc'
    BY <1>16 DEF RouteSends, portVars, PortsTypeOK, OverHasNothing, AddrMatchesProc
  <2> QED
    BY <2>1, <2>2, <2>3
<1>17. CASE ConnectionLost
  <2>1. PortsTypeOK'
    BY <1>17 DEF ConnectionLost, portVars, PortsTypeOK
  <2>2. OneOwner'
    BY <1>17 DEF ConnectionLost, portVars, PortsTypeOK, OneOwner, AddrMatchesProc
  <2>3. OverHasNothing' /\ AddrMatchesProc'
    BY <1>17 DEF ConnectionLost, portVars, PortsTypeOK, OverHasNothing, AddrMatchesProc
  <2> QED
    BY <2>1, <2>2, <2>3
<1> QED
  BY <1>0, <1>1, <1>2, <1>3, <1>4, <1>5, <1>6, <1>7, <1>8, <1>9,
     <1>10, <1>11, <1>12, <1>13, <1>14, <1>15, <1>16, <1>17 DEF PortsNext, ProcStep, ReplierStep

\* The inductive invariant holds in every state.
THEOREM InvariantHolds == PortsSpec => []IInv
  BY InitIInv, NextIInv, PTL DEF PortsSpec

\* The map and the flows agree on the owner of every address.
THEOREM AddressHasOneOwner == PortsSpec => []OneOwner
<1>1. IInv => OneOwner
  BY DEF IInv
<1> QED
  BY <1>1, InvariantHolds, PTL

\* A flow that is over has released its address and its channel.
THEOREM OverFlowsHaveNothing == PortsSpec => []OverHasNothing
<1>1. IInv => OverHasNothing
  BY DEF IInv
<1> QED
  BY <1>1, InvariantHolds, PTL

\* Every variable has its type in every state.
THEOREM TypeCorrect == PortsSpec => []PortsTypeOK
<1>1. IInv => PortsTypeOK
  BY DEF IInv
<1> QED
  BY <1>1, InvariantHolds, PTL

-----------------------------------------------------------------------------
\* The ports of a family are addresses.
LEMMA PortAddrIn ==
  ASSUME NEW f \in Flows, NEW p \in 1 .. PortMod - 1
  PROVE  PortAddr(f, p) \in Addrs
  BY DEF PortAddr, Addrs

\* fetch_add moves every port one draw closer, except the one it returns.
LEMMA DrawMovesOn ==
  ASSUME PortsTypeOK, nextPort' = (nextPort + 1) % PortMod,
         NEW p \in 1 .. PortMod - 1, p # nextPort
  PROVE  Ahead(p)' = Ahead(p) - 1 /\ Ahead(p) \in Nat
<1>1. nextPort \in 0 .. PortMod - 1 /\ PortMod \in Nat \ {0, 1}
  BY PortsAssumption DEF PortsTypeOK
<1>2. CASE nextPort + 1 < PortMod
  <2>1. nextPort' = nextPort + 1
    BY <1>1, <1>2
  <2> QED
    BY <1>1, <1>2, <2>1 DEF Ahead
<1>3. CASE nextPort + 1 = PortMod
  <2>1. nextPort' = 0
    BY <1>1, <1>3
  <2> QED
    BY <1>1, <1>3, <2>1 DEF Ahead
<1> QED
  BY <1>1, <1>2, <1>3

\* What a search has seen stays seen in a step that neither draws nor releases
\* a port and leaves the search where it is.
LEMMA SeenKept ==
  ASSUME NEW f \in Flows, Seen(f), proc[f]' = proc[f], drawn[f]' = drawn[f],
         tries[f]' = tries[f], nextPort' = nextPort,
         \A a \in Addrs : owner[a] # Nobody => owner'[a] # Nobody
  PROVE  Seen(f)'
  BY PortAddrIn DEF Seen, Ahead, PortAddr

\* A flow that claims a port takes it from nobody.
LEMMA ClaimAddsOwner ==
  ASSUME PortsTypeOK, NEW f \in Flows, Claim(f)
  PROVE  \A a \in Addrs : owner[a] # Nobody => owner'[a] # Nobody
  BY PortsAssumption DEF Claim, PortsTypeOK

\* A search that is not disturbed keeps what it has seen in every step.
LEMMA NextSearched == IInv /\ SearchedOwned /\ [PortsNext]_channelVars => SearchedOwned'
<1> SUFFICES ASSUME IInv, SearchedOwned, [PortsNext]_channelVars,
                    NEW g \in Flows, alone'[g], proc'[g] \in {"draw", "claim"}
             PROVE  Seen(g)'
  BY DEF SearchedOwned
<1>0. PortsTypeOK
  BY DEF IInv
<1>1. ASSUME UNCHANGED portVars, proc'[g] = proc[g] PROVE Seen(g)'
  <2>1. Seen(g)
    BY <1>1 DEF portVars, SearchedOwned
  <2> QED
    BY <1>1, <2>1, SeenKept DEF portVars
<1>2. ASSUME NEW f \in Flows, Datagram(f) PROVE Seen(g)'
  <2>1. CASE f = g /\ addr[f] = NoAddr
    <3>1. tries'[g] = PortMod - 1 /\ nextPort' = nextPort
      BY <1>0, <1>2, <2>1 DEF Datagram, PortsTypeOK
    <3>2. \A p \in 1 .. PortMod - 1 : Ahead(p)' <= PortMod - 1
      BY <1>0, <3>1, PortsAssumption DEF Ahead, PortsTypeOK
    <3> QED
      BY <3>1, <3>2 DEF Seen
  <2>2. CASE f # g
    <3>1. alone[g] /\ proc'[g] = proc[g] /\ tries'[g] = tries[g]
      BY <1>0, <1>2, <2>2 DEF Datagram, Goes, PortsTypeOK
    <3>2. Seen(g) /\ UNCHANGED <<nextPort, owner, drawn>>
      BY <1>2, <3>1 DEF Datagram, SearchedOwned
    <3> QED
      BY <3>1, <3>2, SeenKept
  <2>3. CASE f = g /\ addr[f] # NoAddr
    BY <1>0, <1>2, <2>3 DEF Datagram, Goes, PortsTypeOK
  <2> QED
    BY <2>1, <2>2, <2>3
<1>3. ASSUME NEW f \in Flows, Draw(f) PROVE Seen(g)'
  <2>1. f = g /\ alone[g]
    BY <1>3 DEF Draw, Disturbed
  <2>2. Seen(g)
    BY <1>3, <2>1 DEF Draw, At, SearchedOwned
  <2>3. proc[g] = "draw" /\ proc'[g] = "claim" /\ drawn'[g] = nextPort /\ owner' = owner
        /\ tries[g] \in Nat /\ tries'[g] = tries[g] - 1 /\ nextPort' = (nextPort + 1) % PortMod
    BY <1>0, <1>3, <2>1, PortsAssumption DEF Draw, At, Goes, PortsTypeOK
  <2> SUFFICES ASSUME NEW p \in 1 .. PortMod - 1, p # nextPort
               PROVE  Ahead(p)' <= tries'[g] \/ owner'[PortAddr(g, p)] # Nobody
    BY <2>3 DEF Seen, PortAddr
  <2>4. Ahead(p)' = Ahead(p) - 1 /\ Ahead(p) \in Nat
    BY <1>0, <2>3, DrawMovesOn
  <2>5. Ahead(p) <= tries[g] \/ owner[PortAddr(g, p)] # Nobody
    BY <2>2, <2>3 DEF Seen
  <2> QED
    BY <2>3, <2>4, <2>5
<1>4. ASSUME NEW f \in Flows, Claim(f) PROVE Seen(g)'
  <2>0. \A a \in Addrs : owner[a] # Nobody => owner'[a] # Nobody
    BY <1>0, <1>4, ClaimAddsOwner
  <2>1. CASE f # g
    <3>1. alone[g] /\ proc'[g] = proc[g] /\ tries'[g] = tries[g] /\ drawn'[g] = drawn[g]
          /\ nextPort' = nextPort
      BY <1>0, <1>4, <2>1 DEF Claim, Goes, Reserved, PortsTypeOK
    <3>2. Seen(g)
      BY <3>1 DEF SearchedOwned
    <3> QED
      BY <2>0, <3>1, <3>2, SeenKept
  <2>2. CASE f = g
    <3>1. drawn[g] = 0 \/ owner[DrawnAddr(g)] # Nobody
      BY <1>0, <1>4, <2>2 DEF Claim, Goes, PortsTypeOK
    <3>2. proc[g] = "claim" /\ proc'[g] = "draw"
          /\ UNCHANGED <<owner, addr, drawn, tries, alone, nextPort>>
      BY <1>0, <1>4, <2>2, <3>1 DEF Claim, At, Goes, PortsTypeOK
    <3>3. Seen(g)
      BY <3>2 DEF SearchedOwned
    <3>4. \A p \in 1 .. PortMod - 1 : Ahead(p)' = Ahead(p)
      BY <3>2 DEF Ahead
    <3> QED
      BY <3>1, <3>2, <3>3, <3>4 DEF Seen, DrawnAddr, PortAddr
  <2> QED
    BY <2>1, <2>2
<1>5. ASSUME NEW f \in Flows, Bail(f) PROVE Seen(g)'
  <2>1. f # g
    BY <1>0, <1>5 DEF Bail, Goes, PortsTypeOK
  <2>2. alone[g] /\ proc'[g] = proc[g] /\ tries'[g] = tries[g] /\ drawn'[g] = drawn[g]
        /\ UNCHANGED <<nextPort, owner>>
    BY <1>0, <1>5, <2>1 DEF Bail, Goes, Reserved, PortsTypeOK
  <2>3. Seen(g)
    BY <2>2 DEF SearchedOwned
  <2> QED
    BY <2>2, <2>3, SeenKept
<1>6. ASSUME NEW f \in Flows, Close(f) PROVE Seen(g)'
  BY <1>0, <1>6 DEF Close, At, Goes, Disturbed, PortsTypeOK
<1>7. ASSUME NEW f \in Flows,
             AcceptStream(f) \/ ReadTarget(f) \/ ForwardDatagram(f) \/ ReadEnds(f) \/ Join(f)
      PROVE  Seen(g)'
  <2>1. UNCHANGED portVars /\ proc'[g] = proc[g]
    BY <1>0, <1>7 DEF AcceptStream, ReadTarget, ForwardDatagram, ReadEnds, Join, Goes, PortsTypeOK
  <2> QED
    BY <1>1, <2>1
<1>8. ASSUME UNCHANGED <<portVars, proc>> PROVE Seen(g)'
  BY <1>1, <1>8
<1>9. ASSUME NEW f \in Flows, ReplierStep(f) \/ ReplierFails(f) PROVE Seen(g)'
  BY <1>8, <1>9 DEF ReplierStep, ReplierTakes, ReplierSends, ReplierEnds, ReplierFails
<1>10. CASE (\E a \in Addrs : Route(a)) \/ RouteSends \/ ConnectionLost \/ UNCHANGED channelVars
  BY <1>8, <1>10 DEF Route, RouteSends, ConnectionLost, channelVars
<1> QED
  BY <1>2, <1>3, <1>4, <1>5, <1>6, <1>7, <1>9, <1>10 DEF PortsNext, ProcStep

\* A search with no draw left has seen every port but the next one taken.
LEMMA SeenAllButNext ==
  ASSUME PortsTypeOK, NEW f \in Flows, Seen(f), At(f, "draw"), tries[f] = 0
  PROVE  FreePorts(f \in V6) \subseteq {PortAddr(f, nextPort)}
<1> SUFFICES ASSUME NEW a \in FreePorts(f \in V6) PROVE a = PortAddr(f, nextPort)
  OBVIOUS
<1>1. a.port \in 1 .. PortMod - 1 /\ a = PortAddr(f, a.port) /\ owner[a] = Nobody
  BY DEF FreePorts, Addrs, PortAddr
<1>2. Ahead(a.port) <= 0
  BY <1>1 DEF Seen, At
<1>3. a.port = nextPort
  BY <1>1, <1>2, PortsAssumption DEF Ahead, PortsTypeOK
<1> QED
  BY <1>1, <1>3

\* reserve_channel_local_addr gives up after its u16::MAX draws only if at most
\* one port of the family was free, as long as nobody else drew or released a
\* port meanwhile; for any number of ports and flows.
THEOREM GivesUpNearlyFull == PortsSpec => []BailsNearlyFull
<1>1. PortsInit => SearchedOwned
  BY DEF PortsInit, SearchedOwned
<1>2. IInv /\ SearchedOwned => BailsNearlyFull
  <2> SUFFICES ASSUME IInv, SearchedOwned, NEW f \in Flows,
                      At(f, "draw"), tries[f] = 0, alone[f]
               PROVE  Cardinality(FreePorts(f \in V6)) <= 1
    BY DEF BailsNearlyFull
  <2>1. FreePorts(f \in V6) \subseteq {PortAddr(f, nextPort)}
    BY SeenAllButNext DEF IInv, SearchedOwned, At
  <2>2. IsFiniteSet({PortAddr(f, nextPort)}) /\ Cardinality({PortAddr(f, nextPort)}) = 1
    BY FS_Singleton, Zenon
  <2>3. Cardinality(FreePorts(f \in V6)) <= Cardinality({PortAddr(f, nextPort)})
    BY <2>1, <2>2, FS_Subset, Zenon
  <2> QED
    BY <2>2, <2>3
<1> QED
  BY <1>1, <1>2, InvariantHolds, NextSearched, PTL DEF PortsSpec
=============================================================================

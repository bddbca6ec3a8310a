---------------------------- MODULE ChannelPorts ----------------------------
(***************************************************************************)
(* Channel egress of UDP flows (src/udp/udp_tunnel.rs): the datagrams of a *)
(* connection's flows go to the application over one channel, each flow    *)
(* under a synthetic local address of its own, and come back over another, *)
(* from which a router passes them to the flow in reply_map.               *)
(*                                                                         *)
(* Flows are slots, used again when both tasks of a flow are over, so      *)
(* there may be any number of flows.                                       *)
(***************************************************************************)
EXTENDS Integers, FiniteSets

CONSTANTS
  Flows, Nobody,  \* slots for flows; none of them
  V6,             \* slots whose flows have an IPv6 target
  PortMod,        \* 2^16 in the code: values of next_local_port
  FirstPort,      \* 10000 in the code
  ReplyLen        \* 512 in the code: capacity of a flow's reply channel

ASSUME PortsAssumption ==
  /\ Nobody \notin Flows /\ V6 \subseteq Flows /\ PortMod \in Nat \ {0, 1} /\ FirstPort \in 0 .. PortMod - 1
  /\ ReplyLen \in Nat \ {0}

VARIABLES
  nextPort,       \* next_local_port
  owner,          \* reply_map: the flow whose reply_tx is under an address
  proc,           \* where process_channel_io is
  drawn, tries,   \* the port drawn last; draws left in reserve_channel_local_addr
  addr,           \* local_addr of the flow
  replies,        \* length of its reply channel
  replier,        \* its writer task: "recv", "send" or "over"
  routed,         \* the flow the router is sending to
  offline,        \* the QUIC connection is lost
  alone           \* history: nobody else drew or released a port since tries was set

portVars == <<nextPort, owner, drawn, tries, addr, alone>>
channelVars == <<portVars, proc, replies, replier, routed, offline>>

NoAddr == [v6 |-> FALSE, port |-> 0]
Addrs == [v6 : BOOLEAN, port : 1 .. PortMod - 1]

PortsInit ==
  /\ nextPort = FirstPort /\ owner = [a \in Addrs |-> Nobody]
  /\ proc = [f \in Flows |-> "over"] /\ drawn = [f \in Flows |-> 0]
  /\ tries = [f \in Flows |-> 0] /\ addr = [f \in Flows |-> NoAddr]
  /\ replies = [f \in Flows |-> 0] /\ replier = [f \in Flows |-> "over"]
  /\ routed = Nobody /\ offline = FALSE /\ alone = [f \in Flows |-> FALSE]

At(f, where) == proc[f] = where
Goes(f, where) == proc' = [proc EXCEPT ![f] = where]
Disturbed(f) == [g \in Flows |-> alone[g] /\ g = f]

-----------------------------------------------------------------------------
\* A stream is accepted: its writer task is spawned, the target is read.
AcceptStream(f) ==
  /\ At(f, "over") /\ replier[f] = "over" /\ routed # f /\ ~offline
  /\ Goes(f, "target") /\ replier' = [replier EXCEPT ![f] = "recv"]
  /\ UNCHANGED <<portVars, replies, routed, offline>>

ReadTarget(f) ==
  /\ At(f, "target")
  /\ Goes(f, "read") \/ Goes(f, "over")
  /\ UNCHANGED <<portVars, replies, replier, routed, offline>>

\* A datagram is read from the tunnel.  The first one needs an address.
Datagram(f) ==
  /\ At(f, "read") /\ ~offline
  /\ IF addr[f] # NoAddr
     THEN Goes(f, "forward") /\ UNCHANGED <<tries, alone>>
     ELSE /\ Goes(f, "draw") /\ tries' = [tries EXCEPT ![f] = PortMod - 1]
          /\ alone' = [alone EXCEPT ![f] = TRUE]
  /\ UNCHANGED <<nextPort, owner, drawn, addr, replies, replier, routed, offline>>

\* Mutant: a draw that counts twice.
DrawCountsTwice(f) ==
  /\ At(f, "draw") /\ tries[f] > 0
  /\ nextPort' = (nextPort + 1) % PortMod
  /\ drawn' = [drawn EXCEPT ![f] = nextPort] /\ tries' = [tries EXCEPT ![f] = IF @ < 2 THEN 0 ELSE @ - 2]
  /\ Goes(f, "claim") /\ alone' = Disturbed(f)
  /\ UNCHANGED <<owner, addr, replies, replier, routed, offline>>

\* reserve_channel_local_addr: fetch_add ...
Draw(f) ==
  /\ At(f, "draw") /\ tries[f] > 0
  /\ nextPort' = (nextPort + 1) % PortMod
  /\ drawn' = [drawn EXCEPT ![f] = nextPort] /\ tries' = [tries EXCEPT ![f] = @ - 1]
  /\ Goes(f, "claim") /\ alone' = Disturbed(f)
  /\ UNCHANGED <<owner, addr, replies, replier, routed, offline>>

\* The local variables of the search are gone when it is over.
Reserved(f) ==
  /\ drawn' = [drawn EXCEPT ![f] = 0] /\ tries' = [tries EXCEPT ![f] = 0]
  /\ alone' = [alone EXCEPT ![f] = FALSE]

DrawnAddr(f) == [v6 |-> f \in V6, port |-> drawn[f]]

\* Mutant: an occupied entry is overwritten.
ClaimOver(f) ==
  /\ At(f, "claim")
  /\ IF drawn[f] = 0
     THEN Goes(f, "draw") /\ UNCHANGED <<owner, addr, drawn, tries, alone>>
     ELSE /\ owner' = [owner EXCEPT ![DrawnAddr(f)] = f] /\ addr' = [addr EXCEPT ![f] = DrawnAddr(f)]
          /\ Goes(f, "forward") /\ Reserved(f)
  /\ UNCHANGED <<nextPort, replies, replier, routed, offline>>

\* ... and the entry of the map, if it is vacant.  Port 0 is passed over.
Claim(f) ==
  /\ At(f, "claim")
  /\ IF drawn[f] = 0 \/ owner[DrawnAddr(f)] # Nobody
     THEN Goes(f, "draw") /\ UNCHANGED <<owner, addr, drawn, tries, alone>>
     ELSE /\ owner' = [owner EXCEPT ![DrawnAddr(f)] = f] /\ addr' = [addr EXCEPT ![f] = DrawnAddr(f)]
          /\ Goes(f, "forward") /\ Reserved(f)
  /\ UNCHANGED <<nextPort, replies, replier, routed, offline>>

\* "no free synthetic udp channel local_addr available": the flow ends.
Bail(f) ==
  /\ At(f, "draw") /\ tries[f] = 0
  /\ Goes(f, "over") /\ Reserved(f)
  /\ UNCHANGED <<nextPort, owner, addr, replies, replier, routed, offline>>

\* The application takes the datagram, or has closed its channel.
ForwardDatagram(f) ==
  /\ At(f, "forward") /\ Goes(f, "read")
  /\ UNCHANGED <<portVars, replies, replier, routed, offline>>

\* Reading failed or timed out.
ReadEnds(f) ==
  /\ At(f, "read") /\ Goes(f, "close")
  /\ UNCHANGED <<portVars, replies, replier, routed, offline>>

\* Mutant: the writer task is joined before reply_tx is dropped.
CloseAfterJoin(f) ==
  /\ At(f, "close") /\ replier[f] = "over" /\ Goes(f, "over")
  /\ IF addr[f] = NoAddr THEN UNCHANGED owner
     ELSE owner' = [owner EXCEPT ![addr[f]] = Nobody]
  /\ addr' = [addr EXCEPT ![f] = NoAddr] /\ alone' = Disturbed(f)
  /\ UNCHANGED <<nextPort, drawn, tries, replies, replier, routed, offline>>

\* The entry is removed and reply_tx dropped.
Close(f) ==
  /\ At(f, "close") /\ Goes(f, "join")
  /\ IF addr[f] = NoAddr THEN UNCHANGED owner
     ELSE owner' = [owner EXCEPT ![addr[f]] = Nobody]
  /\ addr' = [addr EXCEPT ![f] = NoAddr] /\ alone' = Disturbed(f)
  /\ UNCHANGED <<nextPort, drawn, tries, replies, replier, routed, offline>>

Join(f) ==
  /\ At(f, "join") /\ replier[f] = "over" /\ Goes(f, "over")
  /\ UNCHANGED <<portVars, replies, replier, routed, offline>>

-----------------------------------------------------------------------------
\* Who has a reply_tx of flow f: the flow until it drops it, and the router.
HasSender(f) == proc[f] \notin {"join", "over"} \/ routed = f

ReplierTakes(f) ==
  /\ replier[f] = "recv" /\ replies[f] > 0
  /\ replier' = [replier EXCEPT ![f] = "send"] /\ replies' = [replies EXCEPT ![f] = @ - 1]
  /\ UNCHANGED <<portVars, proc, routed, offline>>

ReplierSends(f) ==
  /\ replier[f] = "send" /\ ~offline /\ replier' = [replier EXCEPT ![f] = "recv"]
  /\ UNCHANGED <<portVars, proc, replies, routed, offline>>

\* send_raw_to fails; the receiver is dropped with what is in the channel.
ReplierFails(f) ==
  /\ replier[f] = "send"
  /\ replier' = [replier EXCEPT ![f] = "over"] /\ replies' = [replies EXCEPT ![f] = 0]
  /\ UNCHANGED <<portVars, proc, routed, offline>>

\* Mutant: the task does not notice that all senders are gone.
ReplierEndsNever(f) ==
  /\ replier[f] = "recv" /\ replies[f] = 0 /\ ~HasSender(f) /\ offline
  /\ replier' = [replier EXCEPT ![f] = "over"]
  /\ UNCHANGED <<portVars, proc, replies, routed, offline>>

ReplierEnds(f) ==
  /\ replier[f] = "recv" /\ replies[f] = 0 /\ ~HasSender(f)
  /\ replier' = [replier EXCEPT ![f] = "over"]
  /\ UNCHANGED <<portVars, proc, replies, routed, offline>>

\* spawn_channel_reply_router: a reply comes from the application for an
\* address; the sender is cloned, and the send waits for room.
Route(a) ==
  /\ routed = Nobody /\ owner[a] # Nobody /\ routed' = owner[a]
  /\ UNCHANGED <<portVars, proc, replies, replier, offline>>

\* Mutant: the router waits for room in a channel that is closed.
RouteSendsOpenOnly ==
  /\ routed # Nobody
  /\ replier[routed] # "over" /\ replies[routed] < ReplyLen
  /\ replies' = [replies EXCEPT ![routed] = @ + 1]
  /\ routed' = Nobody
  /\ UNCHANGED <<portVars, proc, replier, offline>>

\* The reply is sent, or dropped if the replier is over.
RouteSends ==
  /\ routed # Nobody
  /\ \/ /\ replier[routed] # "over" /\ replies[routed] < ReplyLen
        /\ replies' = [replies EXCEPT ![routed] = @ + 1]
     \/ replier[routed] = "over" /\ UNCHANGED replies
  /\ routed' = Nobody
  /\ UNCHANGED <<portVars, proc, replier, offline>>

ConnectionLost ==
  /\ ~offline /\ offline' = TRUE
  /\ UNCHANGED <<portVars, proc, replies, replier, routed>>

ProcStep(f) == \/ ReadTarget(f) \/ Draw(f) \/ Claim(f) \/ Bail(f) \/ ForwardDatagram(f)
               \/ ReadEnds(f) \/ Close(f) \/ Join(f)
ReplierStep(f) == ReplierTakes(f) \/ ReplierSends(f) \/ ReplierEnds(f)

PortsNext ==
  \/ \E f \in Flows : \/ AcceptStream(f) \/ Datagram(f) \/ ProcStep(f) \/ ReplierStep(f)
                      \/ ReplierFails(f)
  \/ \E a \in Addrs : Route(a)
  \/ RouteSends \/ ConnectionLost

PortsSpec == PortsInit /\ [][PortsNext]_channelVars

\* Tasks are polled and timers fire; the application takes its datagrams, the
\* tunnel takes replies, and a send over a lost connection fails.
PortsFairness ==
  /\ \A f \in Flows : /\ WF_channelVars(ProcStep(f))
                      /\ WF_channelVars(ReplierStep(f) \/ (offline /\ ReplierFails(f)))
  /\ WF_channelVars(RouteSends)

FairPortsSpec == PortsSpec /\ PortsFairness

-----------------------------------------------------------------------------
\* Type invariant of the map, the flows and their channels.
PortsTypeOK ==
  /\ nextPort \in 0 .. PortMod - 1 /\ owner \in [Addrs -> Flows \cup {Nobody}]
  /\ proc \in [Flows -> {"target", "read", "draw", "claim", "forward", "close", "join", "over"}]
  /\ drawn \in [Flows -> 0 .. PortMod - 1] /\ tries \in [Flows -> 0 .. PortMod - 1]
  /\ addr \in [Flows -> Addrs \cup {NoAddr}] /\ replies \in [Flows -> 0 .. ReplyLen]
  /\ replier \in [Flows -> {"recv", "send", "over"}] /\ routed \in Flows \cup {Nobody}
  /\ offline \in BOOLEAN /\ alone \in [Flows -> BOOLEAN]

\* A local address belongs to one flow: the map and the flows agree at any
\* time, so that no reply goes to another flow's stream, no flow loses its
\* entry to another one, and no entry outlives its flow.
OneOwner ==
  \A f \in Flows : \A a \in Addrs : owner[a] = f <=> addr[f] = a

\* A flow that is over has neither an address nor, if its replier is over too,
\* replies in its channel.
OverHasNothing ==
  \A f \in Flows : /\ proc[f] \in {"join", "over"} => addr[f] = NoAddr
                   /\ replier[f] = "over" => replies[f] = 0

\* "no free ... local_addr available": u16::MAX draws leave out one of the 2^16
\* values.  A flow that drew alone gives up only if at most one port is free.
FreePorts(v6) == {a \in Addrs : a.v6 = v6 /\ owner[a] = Nobody}
BailsNearlyFull ==
  \A f \in Flows : At(f, "draw") /\ tries[f] = 0 /\ alone[f] => Cardinality(FreePorts(f \in V6)) <= 1

\* The last sender of a channel is dropped in time: once a flow has stopped
\* reading, its replier ends, although the router may hold a sender as well.
ClosingEnds ==
  \A f \in Flows : (proc[f] = "join") ~> (proc[f] = "over")

\* The one router of a connection is never held up for good by a flow whose
\* channel is full or closed.
RouterMovesOn == (routed # Nobody) ~> (routed = Nobody)

\* After the connection is lost every flow ends and its address is released.
LostCleansUp ==
  offline ~> \A f \in Flows : proc[f] = "over" /\ replier[f] = "over" /\ addr[f] = NoAddr
=============================================================================

# TLA+ models of rstun

rstun carries TCP connections and UDP datagrams over QUIC. This directory holds
TLA+ models of its concurrent parts, the TLC configurations that check them on
small instances, and TLAPS proofs of their main safety properties for every
value of the constants. `PROJECT.json` lists runs, mutants, theorems, hazards
and the source lines behind every definition. Paths below are relative to the
repository's `src/`.

## The system and its models

| Part | Source | Module | State |
| --- | --- | --- | --- |
| tunnel task, shared client state, stop | `client.rs` | `TunnelClient` | modelled; no endpoint migration, no statistics |
| tunnel state events | `tunnel_event_bus.rs`, `client.rs` | `TunnelLifecycle` (abstract) | order of the states |
| heartbeat | `heartbeat.rs`, `client.rs`, `server.rs` | `Heartbeat` | modelled |
| server connection tasks, sessions, clean-up | `server.rs` | `ServerSessions` | modelled; no TLS, no address checks |
| TCP listener, hand-over to the tunnel | `tcp/tcp_server.rs`, `tcp/tcp_tunnel.rs` | `TcpHandover`, `LossyQueue` (abstract) | accept loop and `start_serving` |
| UDP flow | `udp/udp_tunnel.rs` | `UdpFlow` | one flow, both sides |
| UDP listener | `udp/udp_server.rs` | in `TunnelClient`, `ServerSessions` | life and receiver only |
| channel UDP egress | `udp/udp_tunnel.rs` | `ChannelPorts` | flows, synthetic addresses, reply router |
| stream copying | `util/stream_util.rs`, `codec/mod.rs`, `tcp/tcp_tunnel.rs` | `StreamFlow`, `DuplexPipe` (abstract) | both ends of a TCP stream, plain and compressed |
| codec: handshake, pair tables, tasks | `codec/mod.rs`, `codec/lru.rs`, `codec/handshake.rs` | `CodecPairs` | modelled; zstd by what a coder has seen |
| heartbeat settings | `lib.rs` | `Heartbeat` | `Settings`; the rest of the configuration is not modelled |

What is left out is listed under [Not modelled](#not-modelled).

How they interact: a tunnel task of the client logs in over a new QUIC
connection (`TunnelClient`); the server authenticates it and, for an IN tunnel,
binds a listener (`ServerSessions`); both then run the heartbeat on the login
stream (`Heartbeat`). The side with the listener hands accepted TCP streams
(`TcpHandover`) or datagrams (`UdpFlow`) to the tunnel. A handed-over TCP stream
is copied by two tasks at each end (`StreamFlow`), through compression pairs
that the ends agree on if the codec is on (`CodecPairs`). Instead of dialling
itself, the end that accepts datagrams may pass them to an embedding application
over channels (`ChannelPorts`). The modules share their
boundary, not their state: what another module models in detail appears as an
action of the environment (a connection that is lost, a listener's loop that
ends, a heartbeat that hangs up).

A step of a model is what a task does between two points at which another task
can run: an `await`, or the release of a lock. quinn and tokio are modelled
from how the code uses them: dropping the last handle of a connection closes
it, dropping a send stream finishes it, `select!` drops the losing future at
its current `await`.

### TunnelClient

One `pc` per tunnel follows `connect_and_serve`: prepare, look up or create the
endpoint, dial, the login stages, retry, registration, serving, announcement of
the loss, removal. Shared variables stand for the fields of `State`:
`client_state`, `endpoint`, `connections`, `servers`, `receiver`. `stopper`,
`toClose` and `toShut` follow `stop` and `stop_async`, whose spawned closes and
shutdowns run one at a time. Endpoints and addresses are reduced to their
address family, which is what decides whether an endpoint is replaced. `late`
is a history variable that counts attempts after the stop. Mapped to `stopped`,
`over`, `shown` and `late`, the client implements `TunnelLifecycle`
(`FollowsLifecycle`).

### Heartbeat

The two tasks and the two directions of the stream; each direction is what is
on the way and what is buffered. The link fails and heals. A timeout is
possible only if the network was down since the request: the configured
timeout is taken to exceed a round trip over a working network. `SeqMod` stands
for 2^64. `Settings` is the normalisation of the two settings in
`ClientConfig::create`, with the width of the numbers as `MaxMs`; `Enabled` says
whether `start_heartbeat_task` then runs the heartbeat at all. If not, it drops
the login stream, and the server, which reads its end as a failure, closes the
connection: `HealthyStaysOpen` is a property of the enabled heartbeat.

### ServerSessions

The slots `Conns` are successive connections of one client, each for a TCP IN, a
UDP IN or an OUT tunnel; all TCP ones ask for one port, and so do all UDP ones.
A slot is used again when nothing is left of its last connection. `abandoned` connections are dead for the client
but not yet for the server. Each task follows `authenticate_connection` and
`serve`; `ClearExpired` is the periodic sweep, which spawns the Quit messages
that `SendQuit` delivers. `LiveTunnelKept` is the other side of `PortReleased`:
none of this touches a tunnel whose connection is open. `orphaned` holds the kinds whose port is taken by a
listener that nobody knows any more.

### TcpHandover

Streams are numbered in the order of acceptance and move from the accept loop
(`held`) through the channel (`queue`) to `start_serving` (`hand`) and
`pending_request` (`pending`), and end in `forwarded`, `dropped` (refused by
the accept loop) or `lost` (with a cancelled `start_serving`). `BadTarget` are
the requests whose target cannot be encoded.

`LossyQueue` is what all of this amounts to: a stream that arrives waits until it
is forwarded or dropped, once; the oldest is forwarded, and only the oldest (with
a cancelled `start_serving`) or the newest (by the accept loop) is dropped.
`IsLossyQueue` maps the four places of the pipeline to `waiting`, and `dropped`
and `lost` to `dropped`.

### UdpFlow

One key of `stream_map`. `entry` is the map's answer, `sender` the sender that
`start_serving` has cloned, `writer` and `reader` the two tasks of each stream,
`process` and `socket` the two tasks at the other end. Datagrams are counted.
Streams are slots that are used again when all four tasks are over, so a run
may open any number of streams.

### StreamFlow

One TCP connection over one QUIC stream, with its two ends and the two peers of
their sockets. Functions on `Ends` hold, at an end, its tasks `s2q` and `q2s`
and the direction of the stream that starts there; data is counted. `phase`
covers what comes before the tasks (reading the target, dialling, exchanging
pair ids), which may fail. In mode `plain` a task that times out waits for the
other one, as with the two oneshot channels of `start_flowing`. With the codec,
`pend` is what the encoder holds back until a flush. `select!` drops the read
and its timeout at each tick of the flush timer, so that `ReadTimeout` is
possible only if the flush interval is not below the timeout (`lazy`, not
`zstd`). `cut` is a history variable: a direction that a failure or timeout has
ended early. The guards of the tasks' steps have names (`CanRead`, `TimesOut`,
`SocketTakes`, ...), so that `AtRest` can say without ENABLED that nothing goes on by
itself any more. Both ends are in the same mode, as in `tests/codec_e2e.rs`; see
[Not modelled](#not-modelled).

Progress is stated by two safety properties. `ComesToRest`: every step decreases a
natural number (`Rank`), so that no copy loop spins and the stream is at rest in
the end. `RestsWhenOver`: at rest all four tasks are over, with two exceptions that
the code has. In `CrossBlocked`, after an outage that is longer than the stream
timeout but does not end the connection, both plain `q2s` have timed out and wait
for their `s2q` without reading, and both `s2q` are in `write_all`, which has no
timeout, waiting for a window that only the other end's `q2s` could open. In
`IdleEncoder` the flush timer keeps restarting the read of a silent peer.

`DuplexPipe` is the connection as its two peers see it: in each direction items
are sent and given (they are counted), and the end is given once, after all items
unless the direction is broken. `IsDuplexPipe` maps what has been
written to a socket to `given`, its shutdown to `ended`, and `cut` to `broken`.

### CodecPairs

A compression pair outlives its stream: it is checked out of a table, used and
checked in again. The two sides agree by exchanging ids and answers. A zstd
coder is represented by the sequence of data it has seen, because that is what
decides whether a decoder understands an encoder. A chunk carries what its
encoder had seen before. A decoder that has seen something else fails, or, as
zstd need not notice, makes other bytes of it (`Garbage`). `checkout` is two
steps (`Scan`, `Take`), as the iteration over the cache and the removal are.
`Meets` counts faults: evictions, failed handshakes, I/O errors, timeouts and
misread chunks. `failed` names the pairs that were marked errored. The guards
of the handshake's phases have names (`CanScan`, `CanLookup`, `CanAgree`,
`PeerGaveUp`), so that `NoStandstill` can say without ENABLED that a side has
something to do (`CanGoOn`).

### ChannelPorts

The flows of one connection, as slots that are used again. `proc` follows
`process_channel_io`, `replier` its writer task, `routed` the one reply router.
A port is drawn (`fetch_add`) in one step and claimed in the map in another.
`PortMod` stands for 2^16 and `tries` counts down from 2^16 - 1. `alone` is a
history variable: no other flow drew or released a port during this search.

## Runs

| Run | Shows |
| --- | --- |
| `tunnel_client` | a UDP and a channel tunnel, with lost connections, failing logins and a stop at any point: the registry is exact, tasks end only after a stop and dial at most once more, events follow `TunnelLifecycle` |
| `tunnel_client_reconnect` | one TCP tunnel with changing address families: it keeps its receiver, `stop_async` closes what it saw, after a stop the task ends and no connection stays open, and the tunnel is served again once the outside world is healthy |
| `heartbeat` | responses match, one message in flight, failures are noticed, healthy connections stay open, a stop hangs up |
| `server` | TCP IN, UDP IN and OUT tunnels in any order: no listener is lost, none is taken from a live tunnel, ports are released, closed connections leave the registry, and a reconnecting client gets its port unless a listener was orphaned |
| `tcp_handover` | order, at most once, no loss outside the counted cases, the refinement of `LossyQueue`, progress of what is ahead of a bad request, end of the accept loop |
| `udp_flow` | no map entry without tasks; an idle flow leaves nothing behind; a flow that keeps sending is forwarded again after any history |
| `stream_flow` | the refinement of `DuplexPipe`; a peer sees the end of a stream only after all of its data unless something failed; every step brings the stream closer to rest, where nothing is withheld by an encoder and all tasks are over, but for two ends that block each other and an idle encoder |
| `codec_pairs` | a pair is in one place only; a stream with fresh pairs delivers its own data; a failed pair is not reused; the two sides never wait for each other |
| `channel_ports` | an address has one owner; a flow gives up only if at most one port is left; closing flows, the router and a lost connection leave nobody waiting |

`StopEndsEverything` allows one leak that the code has: a listener bound after
the sweep of the stop stays in the registry and keeps its port.

Three runs find a disagreement between the code and what the repository says
about it:

| Run | Counterexample |
| --- | --- |
| `udp_reconnect` | the connection closes; the outer `select!` drops `serve_outbound_udp` before `put_receiver`; `take_receiver` fails from then on |
| `server_orphan` | the client goes away while its listener is being bound; the answer fails and nobody owns the listener |
| `codec_reuse` | both sides take the pair of the same id out of their tables for their own direction; both lookups miss; each side checks its two pairs in under this id, one over the other; the next stream reuses an encoder and a decoder that have not seen the same data, although every stream ended cleanly |

The models also show behaviours that no run is kept for:

- a client whose heartbeat is disabled is disconnected by the server, see
  [Heartbeat](#heartbeat);
- after a change of the server's address family, a tunnel may keep dialling
  through the cached endpoint for ever, because another tunnel is registered
  whenever it fails: `Reconnects` holds for one tunnel, not for two with two
  families;
- two plain ends of a stream may block each other for as long as the connection
  lasts, also after both peers have closed (`CrossBlocked`, the exception of
  `RestsWhenOver`, which the run `stream_flow` reaches). The comments at
  `util/stream_util.rs:77` and `:112` say "either the sender is dropped or the task
  times out";
- with `--zstd` in its default settings, the encoder of an idle stream never times
  out (`IdleEncoder`);
- one I/O error and two streams are enough for a reused encoder and decoder that
  have not seen the same data (`ReuseAgrees` with `Faults = {"io"}`), although
  `codec/mod.rs:375` calls the pair "safe to reuse" after it;
- in `UdpFlow` a late task of a stream removes the map entry of the next one,
  which is cut off, ends, and does the same to its successor: a busy flow is
  forwarded (`KeepsFlowing`) but may change streams again and again.

### Bounds

Two tunnels are enough for the safety of the client: what they share is the endpoint and the
registries, and every property relates one tunnel to itself or to one other.
The kinds of tunnel are spread over the runs; the proofs cover any mixture. The
liveness of a stop is checked for one tunnel: no task waits for another.
Two connection slots on the server let an old and a new connection compete for
a port. Four streams and a channel of two let a stream be in every place of the
pipeline at once, with the channel full. Two stream slots in `UdpFlow` let an
old stream overlap with a new one; `QueueLen` and `Window` of one already give
full and empty queues. In `StreamFlow` each peer sends
up to two items over a window of one, so that both directions can be full at the same
time, with a further item in the hands of the task that writes. Two streams in `CodecPairs`
overlap or follow each other, and start from empty tables or from those that
stream 1 left, so that a pair is used three times; a single fault, of any kind, is
enough to make tables differ (`MaxFaults = 1`), and only one side talks, the
directions being alike. `codec_reuse` needs three streams in a row and no fault.
In `ChannelPorts` two flows share two ports besides port 0 (`PortMod = 3`), so
that the counter wraps, passes port 0 and meets occupied ports. `SeqMod = 3`
wraps around. `late` and the mailboxes need
no cap beyond the guards. Where a program stops for good after a stop
(`TunnelClient`, `Heartbeat`, `TcpHandover`, `UdpFlow`), or a connection or the
streams of a run are over (`StreamFlow`, `ChannelPorts`, `CodecPairs`), deadlock
is not checked; the server never stops.

### Fairness

Weak fairness is assumed for steps of spawned tasks, which tokio polls when they
can run; for timers; for the delivery of a stream over a working link; and for
a connection that one side has closed or abandoned to become closed on the
other (QUIC's idle timeout). It is not assumed for failures, for new streams or
datagrams, for a stop or for changes of DNS. The liveness of a reconnect is
stated under `HealthyInTheEnd`: from some time on no failure action occurs.
In `UdpFlow` timers are not part of the fairness; `IdleCleansUp` assumes them
(`TimerFairness`). In `StreamFlow` (for being at rest) and `ChannelPorts` the peers
of the sockets take what is written to them and the application takes its datagrams:
a peer that never reads may hold a copy task up for ever, in the code as well.
`StreamFlow` needs no fairness: that what can go on does is part of what `AtRest`
means, and `ComesToRest` bounds the number of steps. `CodecPairs` states progress as
an invariant too (`NoStandstill`): some side of an open stream can always go on
without a fault, and no task of it repeats a step for ever.

## Proofs

The `*Proofs` modules extend their component's module. Each proves one
inductive invariant `IInv` and derives the theorems from it. The type
invariants are conjuncts of these, and no run repeats them. Facts that `IInv` does
not need are proved next to it, from `IInv` and themselves, and joined to it in
the last, temporal step (`SearchedOwned`, `Ordered`, `Ended`, `LiveAt`, `Tasks`). Three
theorems are refinements: `ImplementsLifecycle`, `ImplementsQueue` and
`ImplementsPipe`; each has a lemma for the initial states and one that takes every
action to a step of the abstract module or to a stutter.

- `TunnelClientProofs`: for any set of tunnels of any kind. The invariant says
  what the position of a task implies for its connection (`ConnMatchesTask`),
  its last event (`ShownMatchesTask`) and its late attempts (`LateTasksEnd`),
  and that each open connection is known to someone who closes it
  (`OpenIsKnown`); the checked invariants alone are not inductive.
  `ImplementsLifecycle` is the refinement. Assumptions: tunnel kinds are
  disjoint, families are v4 or v6.
- `HeartbeatProofs`: for every modulus. `Outstanding` says that between two
  requests nothing is on the way and that otherwise every message carries the
  current number. `EnabledHealthyStaysOpen` assumes `Enabled`; without it the
  statement is false. `SettingsAreNormal` is about the operator `Settings`: for any
  two numbers of the given width, both results are zero or neither is, and the
  timeout is at least the interval, also where doubling it saturates.
- `ServerSessionsProofs`: for any number of connections and capacity.
  `BoundByTask` ties a bound listener to the position of its task.
  `LiveTunnelsAreKept` rests on `LiveAt`, which adds that a listener's receiver is
  not taken before its task serves: a listener whose receiver was taken and is gone
  ends by itself (`LoopEnds`).
- `TcpHandoverProofs`: for any number of streams, capacity and set of bad
  targets. The invariant says that the pipeline forwarded - hand or pending -
  queue - held is sorted. Hence what `start_serving` has in its hand is the oldest
  stream that waits, what the accept loop holds is the newest, and neither is in a
  second place (`HandIsOldest`, `HeldIsNewest`), which makes every step one of
  `LossyQueue` (`ImplementsQueue`).
- `UdpFlowProofs`: for any number of streams, capacity and window.
- `StreamFlowProofs`: for every mode, window and number of items. `Balanced` says
  that what was sent in a direction is accounted for by the places along its way;
  `FinDone` and `ShutDone` that, unless the direction was cut, the places before an
  end are empty. `EofIsFaithful` follows by subtraction, and `ImplementsPipe` needs
  `Balanced` for cut directions too: even there nothing is given that was not
  sent. `RestIsOver` and `NothingWithheld` need `Tasks`: a `q2s` that is over has
  stopped the sender, only plain tasks wait, and a plain `s2q` writes all it reads.
  From a blocked write the argument goes around the stream: its reader waits, so that
  end's write is blocked too, so its reader waits (`BlockedIsCrossed`).
  `AlwaysComesToRest` weighs an item by the places before it, so that moving it
  outweighs the next read of a task.
- `ChannelPortsProofs`: for any set of flows, number of ports and capacity. The
  agreement of the map with the flows is inductive together with the type
  invariant and `AddrMatchesProc`: a flow has no address while it looks for one
  or after it has released it. `GivesUpNearlyFull` is about a whole round of the
  counter. `SearchedOwned` says that every port drawn in this search, counted
  back from the counter, is owned by now, as long as no other flow drew or
  released one (`alone`). When no tries are left this is every value but the next
  one (`SeenAllButNext`), so at most one port is free.
- `CodecPairsProofs`: for any streams, any number open at a time, any faults and
  any number of them. `Own` says who has which pair: it was made, for the side
  that has it (`Named`), it is in one place (`Custody`), and it is gone if it
  failed (`FailedGone`). `Flow` follows the streams: where a side is decides which
  pairs it has (`PlacedAt`), nothing is written before both sides have looked up
  their ids (`WaitsAt`), and in a direction with a fresh decoder the data is held
  by the encoder, in a chunk or passed on (`DirectAt`). Nothing of the kind holds
  for reused pairs (`codec_reuse`). `NeverStandsStill` needs two facts more:
  streams are opened in their order (`Ordered`), and a side without an encoder has
  finished its direction (`Ended`). The proof goes through the pairs of places of
  the two sides.

Only model-checked: all liveness properties, since liveness under fairness, and
ENABLED with it, is outside of the prover's reach. These are `StopEndsEverything`,
`Reconnects`, `FailureNoticed`, `StopHangsUp`, `PortReleased`, `OnlyOrphansBlock`,
`ClosedForgotten`, `QueuedIsServed`, `AcceptLoopEnds`, `IdleCleansUp`,
`KeepsFlowing`, `ClosingEnds`, `RouterMovesOn` and `LostCleansUp`. Every other
property that a passing run checks is proved.

## Not modelled

- HTTP framing (`codec/http.rs`): what it withholds depends on the bytes of the
  messages; no state is shared. The explicit flush after each message takes the
  place of the flush timer there.
- A codec at one end only. `StreamFlow` in its modes `zstd` and `lazy` and `CodecPairs`
  describe two ends that both have the codec, which is what its handshake is written
  for and `tests/codec_e2e.rs` tests. The server in `server.rs` always passes
  `CodecConfig::default()`, with which the codec is off: against it, a client with
  `--zstd` compresses and sends pair ids that the server forwards as data.
- Endpoint migration and traffic statistics in `client.rs`: the first is a
  periodic rebind of the socket below QUIC, whose effect is quinn's; the second
  only sums counters.
- TLS set-up, certificates, passwords and address checks in `server.rs`: pure
  decisions that let a login pass or fail, which is how the model has them.
- Encoding and parsing of targets, messages and mappings: pure functions of
  bytes and strings with unit tests. Requests that cannot be encoded are an input
  of `TcpHandover`.
- The event bus beyond the order of the states, the socket protector, PEM files,
  DNS resolvers and the command line: wrappers of libraries and of the operating
  system.
- The components are checked one by one. What one of them relies on at its
  boundary is an unconstrained action of its environment, which allows more than
  the real neighbour does.

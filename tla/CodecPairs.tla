----------------------------- MODULE CodecPairs -----------------------------
(***************************************************************************)
(* Compression state that outlives its stream: the pair ids two sides      *)
(* exchange when a stream starts (src/codec/handshake.rs), the table of    *)
(* pairs of each side (src/codec/lru.rs) and the encoder and decoder tasks *)
(* that use and return them (src/codec/mod.rs).                            *)
(*                                                                         *)
(* A zstd coder is what it has seen: a decoder understands what an encoder *)
(* wrote if both have seen the same.  Each side of stream s sends at most  *)
(* one piece of data, written s.  At the start the tables are empty or as  *)
(* stream 1 left them, over which "A" had sent.  A new pair is named after *)
(* the stream, side and task it is made for, and so is a new id: rand_id   *)
(* (128 bits) is taken not to repeat.                                      *)
(***************************************************************************)
EXTENDS Naturals, Sequences, FiniteSets

CONSTANTS
  Streams,      \* numbers of the streams, opened in this order; none is 1
  MaxOpen,      \* bound: streams open at a time
  Talkers,      \* bound: the sides that have data to send
  Faults,       \* what may happen besides the normal end of a task
  MaxFaults     \* bound: how many of these happen

ASSUME CodecAssumption ==
  /\ Streams \subseteq Nat \ {0, 1} /\ IsFiniteSet(Streams) /\ MaxOpen \in Nat /\ MaxFaults \in Nat
  /\ Talkers \subseteq {"A", "B"}
  /\ Faults \subseteq {"evict", "shake", "io", "timeout", "misread"}

Sides == {"A", "B"}
Peer(x) == IF x = "A" THEN "B" ELSE "A"

VARIABLES
  cache,        \* CodecLru of each side: the pairs, each under an id
  step,         \* where a side of a stream is
  offer, ack,   \* the id a side offered for s2q; its answer to the other's (None: 0)
  s2qPair, q2sPair,     \* the pair of each task
  chunks, finished,    \* what the encoder of a side has written; it has finished
  given,        \* data the decoder of a side has passed on
  failed,       \* history: names of the pairs marked errored
  faults        \* history: number of faults

pairVars == <<cache, s2qPair, q2sPair, failed>>
codecVars == <<pairVars, step, offer, ack, chunks, finished, given, faults>>

\* A pair: its name, what its encoder has written and what it still holds,
\* and what its decoder has read.  A pair is marked errored by the task that
\* has it, which then drops it, so that no table ever holds one.
Garbage == 0
Fresh(name) == [obj |-> name, enc |-> <<>>, held |-> <<>>, dec |-> <<>>]
None == <<>>
NoPair == Fresh(None)
Entry(id, pair) == [id |-> id, pair |-> pair]

Steps == {"new", "scan", "id", "ack", "flow", "over"}
OnStreams(v) == [s \in Streams |-> [x \in Sides |-> v]]

\* What is left of stream 1: the pair of each side for what "A" sent, under the
\* id of "A".  The pairs of the other direction have been evicted.
Left(x) ==
  {Entry(<<1, "A", "s2q">>, IF x = "A" THEN [Fresh(<<1, "A", "s2q">>) EXCEPT !.enc = <<1>>]
                                       ELSE [Fresh(<<1, "B", "q2s">>) EXCEPT !.dec = <<1>>])}

CodecInit ==
  /\ cache = [x \in Sides |-> {}] \/ cache = [x \in Sides |-> Left(x)]
  /\ step = OnStreams("new") /\ offer = OnStreams(None) /\ ack = OnStreams(None)
  /\ s2qPair = OnStreams(NoPair) /\ q2sPair = OnStreams(NoPair)
  /\ chunks = OnStreams(<<>>) /\ finished = OnStreams(FALSE) /\ given = OnStreams(<<>>)
  /\ failed = {} /\ faults = 0

Meets(fault) == fault \in Faults /\ faults < MaxFaults /\ faults' = faults + 1

Set(f, s, x, v) == [f EXCEPT ![s][x] = v]
HasEncoder(s, x) == step[s][x] = "flow" /\ s2qPair[s][x] # NoPair
HasDecoder(s, y) == step[s][y] = "flow" /\ q2sPair[s][y] # NoPair
Done(s, x) == step[s][x] = "over" \/ (step[s][x] = "flow" /\ ~HasEncoder(s, x) /\ ~HasDecoder(s, x))
IsOpen(s) == step[s]["A"] # "new" /\ \E x \in Sides : ~Done(s, x)

-----------------------------------------------------------------------------
\* "A" opens the streams one by one, "B" accepts the ones that are opened.
CanScan(s, x) ==
  /\ step[s][x] = "new"
  /\ \A r \in Streams : r < s => step[r]["A"] # "new"
  /\ x = "A" => Cardinality({r \in Streams : IsOpen(r)}) < MaxOpen
  /\ x = "B" => step[s]["A"] # "new"

\* checkout: a scan of the table for any pair ...
Scan(s, x) ==
  /\ CanScan(s, x)
  /\ \E id \in IF cache[x] = {} THEN {None} ELSE {e.id : e \in cache[x]} : offer' = Set(offer, s, x, id)
  /\ step' = Set(step, s, x, "scan")
  /\ UNCHANGED <<pairVars, ack, chunks, finished, given, faults>>

\* Mutant: the pair is read from the table, not removed.
TakeKeeps(s, x) ==
  LET found == {e \in cache[x] : e.id = offer[s][x]} IN
  /\ step[s][x] = "scan"
  /\ IF found # {}
     THEN \E e \in found : s2qPair' = Set(s2qPair, s, x, e.pair) /\ UNCHANGED offer
     ELSE LET name == <<s, x, "s2q">> IN
          s2qPair' = Set(s2qPair, s, x, Fresh(name)) /\ offer' = Set(offer, s, x, name)
  /\ step' = Set(step, s, x, "id")
  /\ UNCHANGED <<cache, q2sPair, failed, ack, chunks, finished, given, faults>>

\* ... and its removal; if it is gone by then, a new pair is made.  The id is sent.
Take(s, x) ==
  LET found == {e \in cache[x] : e.id = offer[s][x]} IN
  /\ step[s][x] = "scan"
  /\ IF found # {}
     THEN \E e \in found : s2qPair' = Set(s2qPair, s, x, e.pair) /\ UNCHANGED offer
     ELSE LET name == <<s, x, "s2q">> IN
          s2qPair' = Set(s2qPair, s, x, Fresh(name)) /\ offer' = Set(offer, s, x, name)
  /\ cache' = [cache EXCEPT ![x] = @ \ found]
  /\ step' = Set(step, s, x, "id")
  /\ UNCHANGED <<q2sPair, failed, ack, chunks, finished, given, faults>>

\* The id of the other side has been sent.
CanLookup(s, x) == step[s][x] = "id" /\ step[s][Peer(x)] \notin {"new", "scan"}

\* lookup: the remote id has arrived.  A pair with this id is removed and
\* acknowledged; otherwise a new pair is made, its decoder is fresh, and
\* the answer is 0.
Lookup(s, x) ==
  LET id == offer[s][Peer(x)]
      found == {e \in cache[x] : e.id = id}
  IN
  /\ CanLookup(s, x)
  /\ IF found # {}
     THEN \E e \in found : q2sPair' = Set(q2sPair, s, x, e.pair) /\ ack' = Set(ack, s, x, id)
     ELSE q2sPair' = Set(q2sPair, s, x, Fresh(<<s, x, "q2s">>)) /\ UNCHANGED ack
  /\ cache' = [cache EXCEPT ![x] = @ \ found]
  /\ step' = Set(step, s, x, "ack")
  /\ UNCHANGED <<failed, offer, s2qPair, chunks, finished, given, faults>>

\* Mutant: a side waits until the other one has started its tasks.
CanAgreeAfterPeer(s, x) == step[s][x] = "ack" /\ step[s][Peer(x)] = "flow"

\* The answer of the other side has been sent.
CanAgree(s, x) == step[s][x] = "ack" /\ step[s][Peer(x)] \in {"ack", "flow"}

\* Mutant: the encoder keeps its state whatever the answer is.
AgreeNoReset(s, x) ==
  /\ CanAgree(s, x)
  /\ step' = Set(step, s, x, "flow")
  /\ UNCHANGED <<pairVars, offer, ack, chunks, finished, given, faults>>

ResetEncoder(pair) == [pair EXCEPT !.enc = <<>>, !.held = <<>>]

\* The remote answer has arrived: 0 resets the encoder.  The tasks start.
Agree(s, x) ==
  /\ CanAgree(s, x)
  /\ IF ack[s][Peer(x)] = None
     THEN s2qPair' = Set(s2qPair, s, x, ResetEncoder(s2qPair[s][x]))
     ELSE UNCHANGED s2qPair
  /\ step' = Set(step, s, x, "flow")
  /\ UNCHANGED <<failed, cache, q2sPair, offer, ack, chunks, finished, given, faults>>

\* Nothing more comes from the other side.
PeerGaveUp(s, x) == step[s][x] \in {"id", "ack"} /\ step[s][Peer(x)] = "over"

\* A timeout or error in the handshake: the pairs are dropped.
ShakeFails(s, x) ==
  /\ \/ step[s][x] \in {"id", "ack"} /\ Meets("shake")
     \/ PeerGaveUp(s, x) /\ UNCHANGED faults
  /\ step' = Set(step, s, x, "over")
  /\ s2qPair' = Set(s2qPair, s, x, NoPair) /\ q2sPair' = Set(q2sPair, s, x, NoPair)
  /\ finished' = Set(finished, s, x, TRUE)
  /\ UNCHANGED <<cache, failed, offer, ack, chunks, given>>

-----------------------------------------------------------------------------
\* checkin: the pair replaces what is in the table under this id.
Checkin(x, id, pair) ==
  cache' = [cache EXCEPT ![x] = {e \in @ : e.id # id} \cup {Entry(id, pair)}]

Saw(seq) == {seq[i] : i \in DOMAIN seq}

\* s2q: data is read into the encoder ...
Encode(s, x) ==
  /\ HasEncoder(s, x) /\ x \in Talkers /\ s \notin Saw(s2qPair[s][x].enc \o s2qPair[s][x].held)
  /\ s2qPair' = Set(s2qPair, s, x, [s2qPair[s][x] EXCEPT !.held = Append(@, s)])
  /\ UNCHANGED <<failed, cache, q2sPair, step, offer, ack, chunks, finished, given, faults>>

\* ... and a flush writes what the encoder holds, which refers to all before.
Flushed(pair) == [pair EXCEPT !.enc = pair.enc \o pair.held, !.held = <<>>]
Chunk(pair) == [after |-> pair.enc, data |-> pair.held]

FlushEncoder(s, x) ==
  /\ HasEncoder(s, x) /\ s2qPair[s][x].held # <<>>
  /\ chunks' = Set(chunks, s, x, Append(chunks[s][x], Chunk(s2qPair[s][x])))
  /\ s2qPair' = Set(s2qPair, s, x, Flushed(s2qPair[s][x]))
  /\ UNCHANGED <<failed, cache, q2sPair, step, offer, ack, finished, given, faults>>

\* CleanEof: the last flush (an action before this), the end, the checkin.
EncoderEof(s, x) ==
  /\ HasEncoder(s, x) /\ s2qPair[s][x].held = <<>>
  /\ finished' = Set(finished, s, x, TRUE)
  /\ Checkin(x, offer[s][x], s2qPair[s][x]) /\ s2qPair' = Set(s2qPair, s, x, NoPair)
  /\ UNCHANGED <<failed, q2sPair, step, offer, ack, chunks, given, faults>>

\* IoError: reading failed.  The pair is checked in as it is.
EncoderIoError(s, x) ==
  /\ HasEncoder(s, x) /\ Meets("io")
  /\ finished' = Set(finished, s, x, TRUE)
  /\ Checkin(x, offer[s][x], s2qPair[s][x]) /\ s2qPair' = Set(s2qPair, s, x, NoPair)
  /\ UNCHANGED <<failed, q2sPair, step, offer, ack, chunks, given>>

\* A timeout or a failed write: mark_errored, and the pair is dropped.
EncoderErrs(s, x) ==
  /\ HasEncoder(s, x)
  /\ \/ Meets("timeout")
     \/ step[s][Peer(x)] \in {"flow", "over"} /\ ~HasDecoder(s, Peer(x)) /\ s2qPair[s][x].held # <<>>
        /\ UNCHANGED faults
  /\ finished' = Set(finished, s, x, TRUE) /\ s2qPair' = Set(s2qPair, s, x, NoPair)
  /\ failed' = failed \cup {s2qPair[s][x].obj}
  /\ UNCHANGED <<cache, q2sPair, step, offer, ack, chunks, given>>

\* q2s: a chunk is decoded and passed on.  A decoder that has seen something
\* else fails, or makes other bytes of it.
Decode(s, y) ==
  LET x == Peer(y)
      chunk == Head(chunks[s][x])
      pair == q2sPair[s][y]
  IN
  /\ HasDecoder(s, y) /\ chunks[s][x] # <<>>
  /\ chunks' = Set(chunks, s, x, Tail(chunks[s][x]))
  /\ IF pair.dec = chunk.after THEN UNCHANGED faults ELSE Meets("misread")
  /\ \E data \in {chunk.data} \cup (IF pair.dec = chunk.after THEN {} ELSE {<<Garbage>>}) :
     /\ q2sPair' = Set(q2sPair, s, y, [pair EXCEPT !.dec = @ \o data])
     /\ given' = Set(given, s, y, given[s][y] \o data)
  /\ UNCHANGED <<failed, cache, s2qPair, step, offer, ack, finished>>

\* Mutant: a pair whose decoder failed is checked in.
DecodeFailsKept(s, y) ==
  /\ HasDecoder(s, y) /\ chunks[s][Peer(y)] # <<>> /\ q2sPair[s][y].dec # Head(chunks[s][Peer(y)]).after
  /\ q2sPair' = Set(q2sPair, s, y, NoPair) /\ failed' = failed \cup {q2sPair[s][y].obj}
  /\ Checkin(y, offer[s][Peer(y)], [q2sPair[s][y] EXCEPT !.dec = Append(@, Garbage)])
  /\ UNCHANGED <<s2qPair, step, offer, ack, chunks, finished, given, faults>>

\* Decoding fails: mark_errored, and the pair is dropped.
DecodeFails(s, y) ==
  /\ HasDecoder(s, y) /\ chunks[s][Peer(y)] # <<>> /\ q2sPair[s][y].dec # Head(chunks[s][Peer(y)]).after
  /\ q2sPair' = Set(q2sPair, s, y, NoPair) /\ failed' = failed \cup {q2sPair[s][y].obj}
  /\ UNCHANGED <<cache, s2qPair, step, offer, ack, chunks, finished, given, faults>>

DecoderEof(s, y) ==
  /\ HasDecoder(s, y) /\ chunks[s][Peer(y)] = <<>> /\ finished[s][Peer(y)]
  /\ Checkin(y, offer[s][Peer(y)], q2sPair[s][y]) /\ q2sPair' = Set(q2sPair, s, y, NoPair)
  /\ UNCHANGED <<failed, s2qPair, step, offer, ack, chunks, finished, given, faults>>

\* IoError: reading from QUIC failed.
DecoderIoError(s, y) ==
  /\ HasDecoder(s, y) /\ Meets("io")
  /\ Checkin(y, offer[s][Peer(y)], q2sPair[s][y]) /\ q2sPair' = Set(q2sPair, s, y, NoPair)
  /\ UNCHANGED <<failed, s2qPair, step, offer, ack, chunks, finished, given>>

\* A timeout or a failed write to the local stream.
DecoderErrs(s, y) ==
  /\ HasDecoder(s, y) /\ Meets("timeout")
  /\ q2sPair' = Set(q2sPair, s, y, NoPair) /\ failed' = failed \cup {q2sPair[s][y].obj}
  /\ UNCHANGED <<cache, s2qPair, step, offer, ack, chunks, finished, given>>

\* The table evicts an idle pair, or one too many; a restart loses them all.
Evict(x) ==
  /\ Meets("evict")
  /\ \E e \in cache[x] : cache' = [cache EXCEPT ![x] = @ \ {e}]
  /\ UNCHANGED <<failed, s2qPair, q2sPair, step, offer, ack, chunks, finished, given>>

-----------------------------------------------------------------------------
HandshakeStep(s, x) == Scan(s, x) \/ Take(s, x) \/ Lookup(s, x) \/ Agree(s, x) \/ ShakeFails(s, x)
EncoderStep(s, x) == \/ Encode(s, x) \/ FlushEncoder(s, x) \/ EncoderEof(s, x) \/ EncoderIoError(s, x)
                     \/ EncoderErrs(s, x)
DecoderStep(s, y) == \/ Decode(s, y) \/ DecodeFails(s, y) \/ DecoderEof(s, y)
                     \/ DecoderIoError(s, y) \/ DecoderErrs(s, y)

CodecNext ==
  \/ \E s \in Streams, x \in Sides : HandshakeStep(s, x) \/ EncoderStep(s, x) \/ DecoderStep(s, x)
  \/ \E x \in Sides : Evict(x)

CodecSpec == CodecInit /\ [][CodecNext]_codecVars

-----------------------------------------------------------------------------
Names == ((Streams \cup {1}) \X Sides \X {"s2q", "q2s"}) \cup {None}
Data == Seq(Nat)
PairType == [obj : Names, enc : Data, held : Data, dec : Data]
ChunkType == [after : Data, data : Data]

\* Type invariant of the tables (at most one pair under an id), the handshakes and the tasks.
CodecTypeOK ==
  /\ failed \subseteq Names
  /\ \A x \in Sides : \A e, f \in cache[x] : e.id = f.id => e = f
  /\ cache \in [Sides -> SUBSET [id : Names, pair : PairType]]
  /\ step \in [Streams -> [Sides -> Steps]]
  /\ offer \in [Streams -> [Sides -> Names]] /\ ack \in [Streams -> [Sides -> Names]]
  /\ s2qPair \in [Streams -> [Sides -> PairType]] /\ q2sPair \in [Streams -> [Sides -> PairType]]
  /\ chunks \in [Streams -> [Sides -> Seq(ChunkType)]]
  /\ finished \in [Streams -> [Sides -> BOOLEAN]] /\ given \in [Streams -> [Sides -> Data]]
  /\ faults \in 0 .. MaxFaults

\* Where the pairs are: in a table, or with a task of a stream.
Holders ==
  (UNION {{[at |-> <<"table", x, e.id>>, obj |-> e.pair.obj] : e \in cache[x]} : x \in Sides})
  \cup {[at |-> <<"s2q", p[1], p[2]>>, obj |-> s2qPair[p[1]][p[2]].obj] : p \in Streams \X Sides}
  \cup {[at |-> <<"q2s", p[1], p[2]>>, obj |-> q2sPair[p[1]][p[2]].obj] : p \in Streams \X Sides}

\* "This guarantees one encoder/decoder is only used by one stream at a time"
\* (lru.rs): a pair is in one place only, a table or one task of one stream,
\* although checkout scans the table and removes the pair in two steps.
Exclusive ==
  \A h, k \in Holders : h.obj = k.obj /\ h.obj # None => h.at = k.at

\* A stream whose pair was not acknowledged delivers exactly its own data, and
\* its decoder is always at the point where the encoder wrote the next chunk,
\* whatever the encoder's pair was used for before.
FreshIsFaithful ==
  \A s \in Streams, y \in Sides : step[s][y] = "flow" /\ ack[s][y] = None =>
    /\ given[s][y] \in {<<>>, <<s>>}
    /\ HasDecoder(s, y) /\ chunks[s][Peer(y)] # <<>> => q2sPair[s][y].dec = Head(chunks[s][Peer(y)]).after

\* A pair whose coder failed or timed out is in no table, hence never reused.
FailedNotReused ==
  \A x \in Sides : \A e \in cache[x] : e.pair.obj \notin failed

\* A side of a stream has something to do that needs no fault: a phase of the
\* handshake, to give it up after the other side, to flush or to end the
\* encoder, to decode or to refuse a chunk, or to end the decoder.
CanDecode(s, y) == HasDecoder(s, y) /\ (chunks[s][Peer(y)] # <<>> \/ finished[s][Peer(y)])
CanGoOn(s, x) ==
  \/ CanScan(s, x) \/ step[s][x] = "scan" \/ CanLookup(s, x) \/ CanAgree(s, x) \/ PeerGaveUp(s, x)
  \/ HasEncoder(s, x) \/ CanDecode(s, x)

\* The two sides of a stream never wait for each other, or for another stream:
\* until both are done one of them has something to do.  Every step brings its
\* task nearer to its end, so a stream that is opened ends.
NoStandstill ==
  \A s \in Streams : IsOpen(s) => \E x \in Sides : CanGoOn(s, x)

\* "The peer closed the stream cleanly; the pair is safe to reuse" (mod.rs):
\* when a pair is acknowledged, the decoder has seen what the encoder wrote.
ReuseAgrees ==
  \A s \in Streams, x \in Sides :
    HasEncoder(s, x) /\ HasDecoder(s, Peer(x)) /\ chunks[s][x] = <<>> =>
      q2sPair[s][Peer(x)].dec = s2qPair[s][x].enc
=============================================================================

-------------------------- MODULE CodecPairsProofs --------------------------
(***************************************************************************)
(* Proofs, for any number of streams and faults, that a codec pair is used *)
(* by one stream at a time, that a failed pair is never reused, and that a *)
(* stream whose pair was not acknowledged delivers its own data.           *)
(***************************************************************************)
EXTENDS CodecPairs, TLAPS

\* The pairs of side x that have been made: a task's pair is made by Take (s2q)
\* or Lookup (q2s), so that its name is new then.
Early(k) == IF k = "s2q" THEN {"new", "scan"} ELSE {"new", "scan", "id"}
Used(x) ==
  {n \in (Streams \cup {1}) \X {x} \X {"s2q", "q2s"} : n[1] = 1 \/ step[n[1]][x] \notin Early(n[3])}

\* The name of the pair of a task.
Tasks == {"s2q", "q2s"}
Obj(k, s, x) == IF k = "s2q" THEN s2qPair[s][x].obj ELSE q2sPair[s][x].obj

\* Every pair in use has been made, for the side that has it.
Named ==
  /\ \A x \in Sides : \A e \in cache[x] : e.id # None /\ e.pair.obj \in Used(x)
  /\ \A k \in Tasks, s \in Streams, x \in Sides : Obj(k, s, x) \in Used(x) \cup {None}
  /\ failed \subseteq Used("A") \cup Used("B")

\* Where a side is decides which pairs it has.
PlacedAt(s, x) ==
  /\ s2qPair[s][x].obj = None => s2qPair[s][x] = NoPair
  /\ q2sPair[s][x].obj = None => q2sPair[s][x] = NoPair
  /\ step[s][x] \in {"id", "ack"} => s2qPair[s][x].obj # None
  /\ step[s][x] = "ack" => q2sPair[s][x].obj # None
  /\ step[s][x] \notin {"new", "scan"} => offer[s][x] # None

\* One place for each pair, among the table and the tasks of its side.
TableSole(x) ==
  /\ \A e, f \in cache[x] : e.pair.obj = f.pair.obj => e = f
  /\ \A e \in cache[x], k \in Tasks, s \in Streams : e.pair.obj # Obj(k, s, x)
TaskSole(x) ==
  \A k, l \in Tasks, s, r \in Streams :
    Obj(k, s, x) = Obj(l, r, x) => (k = l /\ s = r) \/ Obj(k, s, x) = None
Custody == \A x \in Sides : TableSole(x) /\ TaskSole(x)

\* A failed pair has no place any more.
FailedGone ==
  /\ FailedNotReused
  /\ \A k \in Tasks, s \in Streams, x \in Sides : Obj(k, s, x) \notin failed

\* Nobody writes or passes on data before both sides have looked up their ids.
WaitsAt(s, x) ==
  /\ step[s][x] = "flow" => step[s][Peer(x)] \notin {"new", "scan", "id"}
  /\ step[s][x] # "flow" => chunks[s][x] = <<>> /\ given[s][x] = <<>> /\ given[s][Peer(x)] = <<>>

\* A direction whose decoder is fresh: from its reset encoder, which has seen
\* nothing, holds the data or has written it, to what has been passed on.
DirectAt(s, y) ==
  LET x == Peer(y) IN
  step[s][y] \in {"ack", "flow"} /\ ack[s][y] = None =>
    /\ given[s][y] \in {<<>>, <<s>>}
    /\ q2sPair[s][y].obj # None => q2sPair[s][y].dec = given[s][y]
    /\ chunks[s][x] = <<>> \/ (chunks[s][x] = <<[after |-> <<>>, data |-> <<s>>]>> /\ given[s][y] = <<>>)
    /\ step[s][x] = "flow" /\ s2qPair[s][x].obj # None =>
         \/ /\ s2qPair[s][x].enc = <<>> /\ s2qPair[s][x].held \in {<<>>, <<s>>}
            /\ chunks[s][x] = <<>> /\ given[s][y] = <<>>
         \/ s2qPair[s][x].enc = <<s>> /\ s2qPair[s][x].held = <<>>
\* Where the pairs are, and what the streams carry.
Own == Named /\ Custody /\ FailedGone
Flow == \A s \in Streams, x \in Sides : PlacedAt(s, x) /\ WaitsAt(s, x) /\ DirectAt(s, x)

\* The inductive invariant.
IInv == CodecTypeOK /\ Own /\ Flow

-----------------------------------------------------------------------------
\* Set changes one side of one stream.
LEMMA SetIs ==
  ASSUME NEW T, NEW f \in [Streams -> [Sides -> T]], NEW s \in Streams, NEW x \in Sides, NEW v \in T
  PROVE /\ Set(f, s, x, v) \in [Streams -> [Sides -> T]]
        /\ Set(f, s, x, v)[s][x] = v
        /\ \A r \in Streams, y \in Sides : r # s \/ y # x => Set(f, s, x, v)[r][y] = f[r][y]
  BY Zenon DEF Set

\* The pairs of tasks are pairs.
LEMMA PairsTyped ==
  CodecTypeOK => s2qPair \in [Streams -> [Sides -> PairType]] /\ q2sPair \in [Streams -> [Sides -> PairType]]
  BY Zenon DEF CodecTypeOK

\* The other side of a stream.
LEMMA PeerIs == \A x \in Sides : Peer(x) \in Sides /\ Peer(x) # x /\ Peer(Peer(x)) = x
  BY Zenon DEF Sides, Peer

\* A name is not the absence of one.
LEMMA NameIsReal == \A s, x, k : <<s, x, k>> # None
  BY Zenon DEF None

\* Data is closed under what the tasks do with it.
LEMMA DataIs ==
  /\ <<>> \in Data /\ <<Garbage>> \in Data
  /\ \A d \in Data : \A s \in Nat : Append(d, s) \in Data
  /\ \A d, e \in Data : d \o e \in Data
  BY DEF Data, Garbage

\* A new pair.
LEMMA FreshIs ==
  ASSUME NEW name \in Names
  PROVE /\ Fresh(name) \in PairType /\ Fresh(name).obj = name /\ Fresh(name).dec = <<>>
        /\ Fresh(name).enc = <<>> /\ Fresh(name).held = <<>>
  BY DataIs, Zenon DEF Fresh, PairType

\* The changes that tasks make to a pair keep its name.
LEMMA ResetIs ==
  ASSUME NEW p \in PairType
  PROVE /\ ResetEncoder(p) \in PairType /\ ResetEncoder(p).obj = p.obj
        /\ ResetEncoder(p).enc = <<>> /\ ResetEncoder(p).held = <<>> /\ ResetEncoder(p).dec = p.dec
  BY DataIs, Zenon DEF ResetEncoder, PairType

\* Reading keeps what the encoder has written.
LEMMA HeldIs ==
  ASSUME NEW p \in PairType, NEW s \in Nat
  PROVE LET q == [p EXCEPT !.held = Append(@, s)] IN
        q \in PairType /\ q.obj = p.obj /\ q.enc = p.enc /\ q.held = Append(p.held, s)
  BY DataIs, Zenon DEF PairType

\* A flush moves what is held.
LEMMA FlushedIs ==
  ASSUME NEW p \in PairType
  PROVE /\ Flushed(p) \in PairType /\ Flushed(p).obj = p.obj
        /\ Flushed(p).enc = p.enc \o p.held /\ Flushed(p).held = <<>>
  BY DataIs, Zenon DEF Flushed, PairType

\* Decoding adds to what the decoder has seen.
LEMMA DecodedIs ==
  ASSUME NEW p \in PairType, NEW data \in Data
  PROVE LET q == [p EXCEPT !.dec = @ \o data] IN
        q \in PairType /\ q.obj = p.obj /\ q.dec = p.dec \o data
  BY DataIs, Zenon DEF PairType

-----------------------------------------------------------------------------
\* The absence of a pair has the type of a pair.
LEMMA NoPairIs == NoPair \in PairType /\ NoPair.obj = None
  BY FreshIs, Zenon DEF NoPair, Names

\* The pair of a task is a pair, with a name.
LEMMA PairIsTyped ==
  ASSUME CodecTypeOK
  PROVE \A s \in Streams, x \in Sides :
          /\ s2qPair[s][x] \in PairType /\ s2qPair[s][x].obj \in Names
          /\ q2sPair[s][x] \in PairType /\ q2sPair[s][x].obj \in Names
<1>1. \A p \in PairType : p.obj \in Names
  BY DEF PairType
<1> QED
  BY <1>1, PairsTyped

\* Every step preserves the type invariant.
LEMMA NextType == CodecTypeOK /\ [CodecNext]_codecVars => CodecTypeOK'
<1> SUFFICES ASSUME CodecTypeOK, [CodecNext]_codecVars PROVE CodecTypeOK'
  BY Zenon
<1>p. \A s \in Streams, x \in Sides :
        /\ s2qPair[s][x] \in PairType /\ s2qPair[s][x].obj \in Names
        /\ q2sPair[s][x] \in PairType /\ q2sPair[s][x].obj \in Names
  BY PairIsTyped
<1> USE CodecAssumption, NoPairIs DEF CodecTypeOK
<1>0. CASE UNCHANGED codecVars
  BY <1>0, Zenon DEF codecVars, pairVars
<1>f. faults' \in 0 .. MaxFaults
  <2>1. ASSUME NEW s \in Streams, NEW x \in Sides, HandshakeStep(s, x)
        PROVE faults' = faults \/ \E fault : Meets(fault)
    BY <2>1, Zenon DEF HandshakeStep, Scan, Take, Lookup, Agree, ShakeFails
  <2>2. ASSUME NEW s \in Streams, NEW x \in Sides, EncoderStep(s, x)
        PROVE faults' = faults \/ \E fault : Meets(fault)
    BY <2>2, Zenon DEF EncoderStep, Encode, FlushEncoder, EncoderEof, EncoderIoError, EncoderErrs
  <2>3. ASSUME NEW s \in Streams, NEW x \in Sides, DecoderStep(s, x)
        PROVE faults' = faults \/ \E fault : Meets(fault)
    BY <2>3, Zenon DEF DecoderStep, Decode, DecodeFails, DecoderEof, DecoderIoError, DecoderErrs
  <2>4. faults' = faults \/ \E fault : Meets(fault)
    BY <2>1, <2>2, <2>3, Zenon DEF CodecNext, Evict, codecVars
  <2> QED
    BY <2>4 DEF Meets
<1>1. ASSUME NEW s \in Streams, NEW x \in Sides, Scan(s, x) PROVE CodecTypeOK'
  <2> USE <1>1 DEF Scan
  <2>1. offer' \in [Streams -> [Sides -> Names]]
    <3>1. PICK id \in IF cache[x] = {} THEN {None} ELSE {e.id : e \in cache[x]} : offer' = Set(offer, s, x, id)
      BY Zenon
    <3>2. id \in Names
      BY DEF Names
    <3> QED
      BY <3>1, <3>2, Zenon DEF Set
  <2>2. step' \in [Streams -> [Sides -> Steps]]
    BY Zenon DEF Set, Steps
  <2> QED
    BY <1>f, <2>1, <2>2, Zenon DEF pairVars
<1>2. ASSUME NEW s \in Streams, NEW x \in Sides, Take(s, x) PROVE CodecTypeOK'
  <2> USE <1>2 DEF Take
  <2>1. s2qPair' \in [Streams -> [Sides -> PairType]]
    <3>1. CASE {e \in cache[x] : e.id = offer[s][x]} # {}
      <4>1. PICK e \in cache[x] : s2qPair' = Set(s2qPair, s, x, e.pair)
        BY <3>1, Zenon
      <4> QED
        BY <4>1 DEF Set
    <3>2. CASE {e \in cache[x] : e.id = offer[s][x]} = {}
      <4>1. s2qPair' = Set(s2qPair, s, x, Fresh(<<s, x, "s2q">>))
        BY <3>2, Zenon
      <4>2. Fresh(<<s, x, "s2q">>) \in PairType
        BY FreshIs DEF Names
      <4> QED
        BY <4>1, <4>2, Zenon DEF Set
    <3> QED
      BY <3>1, <3>2, Zenon
  <2>2. offer' \in [Streams -> [Sides -> Names]]
    <3>1. offer' = offer \/ offer' = Set(offer, s, x, <<s, x, "s2q">>)
      BY Zenon
    <3>2. <<s, x, "s2q">> \in Names
      BY Zenon DEF Names
    <3>3. CASE offer' = offer
      BY <3>3, Zenon
    <3>4. CASE offer' = Set(offer, s, x, <<s, x, "s2q">>)
      BY <3>2, <3>4, Zenon DEF Set
    <3> QED
      BY <3>1, <3>3, <3>4, Zenon
  <2>3. cache' \in [Sides -> SUBSET [id : Names, pair : PairType]]
    BY Zenon
  <2>4. step' \in [Streams -> [Sides -> Steps]]
    BY Zenon DEF Set, Steps
  <2>5. \A y \in Sides : \A e, f \in cache'[y] : e.id = f.id => e = f
    BY Zenon
  <2> QED
    BY <1>f, <2>1, <2>2, <2>3, <2>4, <2>5, Zenon DEF pairVars
<1>3. ASSUME NEW s \in Streams, NEW x \in Sides, Lookup(s, x) PROVE CodecTypeOK'
  <2> USE <1>3 DEF Lookup
  <2>1. q2sPair' \in [Streams -> [Sides -> PairType]]
    <3>1. CASE {e \in cache[x] : e.id = offer[s][Peer(x)]} # {}
      <4>1. PICK e \in cache[x] : q2sPair' = Set(q2sPair, s, x, e.pair)
        BY <3>1, Zenon
      <4> QED
        BY <4>1 DEF Set
    <3>2. CASE {e \in cache[x] : e.id = offer[s][Peer(x)]} = {}
      <4>1. q2sPair' = Set(q2sPair, s, x, Fresh(<<s, x, "q2s">>))
        BY <3>2, Zenon
      <4>2. Fresh(<<s, x, "q2s">>) \in PairType
        BY FreshIs DEF Names
      <4> QED
        BY <4>1, <4>2, Zenon DEF Set
    <3> QED
      BY <3>1, <3>2, Zenon
  <2>2. ack' \in [Streams -> [Sides -> Names]]
    <3>1. ack' = ack \/ ack' = Set(ack, s, x, offer[s][Peer(x)])
      BY Zenon
    <3>2. offer[s][Peer(x)] \in Names
      BY PeerIs
    <3>3. CASE ack' = ack
      BY <3>3, Zenon
    <3>4. CASE ack' = Set(ack, s, x, offer[s][Peer(x)])
      BY <3>2, <3>4, Zenon DEF Set
    <3> QED
      BY <3>1, <3>3, <3>4, Zenon
  <2>3. cache' \in [Sides -> SUBSET [id : Names, pair : PairType]]
    BY Zenon
  <2>4. step' \in [Streams -> [Sides -> Steps]]
    BY Zenon DEF Set, Steps
  <2>5. \A y \in Sides : \A e, f \in cache'[y] : e.id = f.id => e = f
    BY Zenon
  <2> QED
    BY <1>f, <2>1, <2>2, <2>3, <2>4, <2>5, Zenon DEF pairVars
<1>4. ASSUME NEW s \in Streams, NEW x \in Sides, Agree(s, x) PROVE CodecTypeOK'
  <2> USE <1>4 DEF Agree
  <2>1. s2qPair' \in [Streams -> [Sides -> PairType]]
    <3>1. s2qPair' = s2qPair \/ s2qPair' = Set(s2qPair, s, x, ResetEncoder(s2qPair[s][x]))
      BY Zenon
    <3>2. ResetEncoder(s2qPair[s][x]) \in PairType
      BY <1>p, ResetIs, Zenon
    <3>3. CASE s2qPair' = s2qPair
      BY <3>3, Zenon
    <3>4. CASE s2qPair' = Set(s2qPair, s, x, ResetEncoder(s2qPair[s][x]))
      BY <3>2, <3>4, Zenon DEF Set
    <3> QED
      BY <3>1, <3>3, <3>4, Zenon
  <2>2. step' \in [Streams -> [Sides -> Steps]]
    BY Zenon DEF Set, Steps
  <2> QED
    BY <1>f, <2>1, <2>2, Zenon DEF pairVars
<1>5. ASSUME NEW s \in Streams, NEW x \in Sides, ShakeFails(s, x) PROVE CodecTypeOK'
  <2> USE <1>5 DEF ShakeFails
  <2>1. step' \in [Streams -> [Sides -> Steps]]
    BY Zenon DEF Set, Steps
  <2>2. s2qPair' \in [Streams -> [Sides -> PairType]]
    BY Zenon DEF Set
  <2>3. q2sPair' \in [Streams -> [Sides -> PairType]]
    BY Zenon DEF Set
  <2>4. finished' \in [Streams -> [Sides -> BOOLEAN]]
    BY Zenon DEF Set
  <2> QED
    BY <1>f, <2>1, <2>2, <2>3, <2>4, Zenon DEF pairVars
<1>6. ASSUME NEW s \in Streams, NEW x \in Sides, Encode(s, x) PROVE CodecTypeOK'
  <2>1. s2qPair' \in [Streams -> [Sides -> PairType]]
    <3> DEFINE v == [s2qPair[s][x] EXCEPT !.held = Append(@, s)]
    <3>1. s2qPair' = Set(s2qPair, s, x, v)
      BY <1>6, Zenon DEF Encode
    <3>2. v \in PairType
      BY HeldIs
    <3> HIDE DEF v
    <3> QED
      BY <3>1, <3>2, Zenon DEF Set
  <2> QED
    BY <1>6, <1>f, <2>1, Zenon DEF Encode, pairVars
<1>7. ASSUME NEW s \in Streams, NEW x \in Sides, FlushEncoder(s, x) PROVE CodecTypeOK'
  <2>1. chunks' \in [Streams -> [Sides -> Seq(ChunkType)]]
    <3> DEFINE v == Append(chunks[s][x], Chunk(s2qPair[s][x]))
    <3>1. chunks' = Set(chunks, s, x, v)
      BY <1>7, Zenon DEF FlushEncoder
    <3>2. Chunk(s2qPair[s][x]) \in ChunkType
      BY DEF Chunk, ChunkType, PairType
    <3>3. v \in Seq(ChunkType)
      BY <3>2
    <3> HIDE DEF v
    <3> QED
      BY <3>1, <3>3, Zenon DEF Set
  <2>2. s2qPair' \in [Streams -> [Sides -> PairType]]
    <3>1. s2qPair' = Set(s2qPair, s, x, Flushed(s2qPair[s][x]))
      BY <1>7, Zenon DEF FlushEncoder
    <3>a. s2qPair[s][x] \in PairType
      OBVIOUS
    <3>2. Flushed(s2qPair[s][x]) \in PairType
      BY <3>a, FlushedIs, Zenon
    <3> QED
      BY <3>1, <3>2, Zenon DEF Set
  <2> QED
    BY <1>7, <1>f, <2>1, <2>2, Zenon DEF FlushEncoder, pairVars
<1>8. ASSUME NEW s \in Streams, NEW x \in Sides, EncoderEof(s, x) \/ EncoderIoError(s, x) PROVE CodecTypeOK'
  <2>0. /\ finished' = Set(finished, s, x, TRUE) /\ Checkin(x, offer[s][x], s2qPair[s][x])
        /\ s2qPair' = Set(s2qPair, s, x, NoPair)
           /\ UNCHANGED <<failed, q2sPair, step, offer, ack, chunks, given>>
    BY <1>8, Zenon DEF EncoderEof, EncoderIoError
  <2>1. finished' \in [Streams -> [Sides -> BOOLEAN]]
    BY <2>0, Zenon DEF Set
  <2>2. cache' \in [Sides -> SUBSET [id : Names, pair : PairType]]
    BY <2>0 DEF Checkin, Entry
  <2>3. s2qPair' \in [Streams -> [Sides -> PairType]]
    BY <2>0, Zenon DEF Set
  <2>4. \A y \in Sides : \A e, f \in cache'[y] : e.id = f.id => e = f
    BY <2>0 DEF Checkin, Entry
  <2> QED
    BY <1>f, <2>0, <2>1, <2>2, <2>3, <2>4, Zenon DEF pairVars
<1>9. ASSUME NEW s \in Streams, NEW x \in Sides, EncoderErrs(s, x) PROVE CodecTypeOK'
  <2> USE <1>9 DEF EncoderErrs
  <2>1. finished' \in [Streams -> [Sides -> BOOLEAN]]
    BY Zenon DEF Set
  <2>2. s2qPair' \in [Streams -> [Sides -> PairType]]
    BY Zenon DEF Set
  <2>3. failed' \subseteq Names
    BY <1>p, Zenon
  <2> QED
    BY <1>f, <2>1, <2>2, <2>3, Zenon DEF pairVars
<1>10. ASSUME NEW s \in Streams, NEW x \in Sides, Decode(s, x) PROVE CodecTypeOK'
  <2> USE <1>10 DEF Decode
  <2>1. chunks' \in [Streams -> [Sides -> Seq(ChunkType)]]
    BY PeerIs DEF Set
  <2>2. q2sPair' \in [Streams -> [Sides -> PairType]]
    <3>1. PICK data \in {Head(chunks[s][Peer(x)]).data, <<Garbage>>} :
            q2sPair' = Set(q2sPair, s, x, [q2sPair[s][x] EXCEPT !.dec = @ \o data])
      BY Zenon
    <3>a. chunks[s][Peer(x)] \in Seq(ChunkType) /\ chunks[s][Peer(x)] # <<>>
      BY PeerIs
    <3>b. Head(chunks[s][Peer(x)]) \in ChunkType
      BY <3>a
    <3>2. data \in Data
      BY <3>b, DataIs, Zenon DEF ChunkType
    <3> DEFINE v == [q2sPair[s][x] EXCEPT !.dec = @ \o data]
    <3>c. q2sPair[s][x] \in PairType
      OBVIOUS
    <3>3. v \in PairType
      BY <3>2, <3>c, DecodedIs, Zenon
    <3> HIDE DEF v
    <3> QED
      BY <3>1, <3>3, Zenon DEF Set, v
  <2>3. given' \in [Streams -> [Sides -> Data]]
    <3>1. PICK data \in {Head(chunks[s][Peer(x)]).data, <<Garbage>>} : given' = Set(given, s, x, given[s][x] \o data)
      BY Zenon
    <3>a. chunks[s][Peer(x)] \in Seq(ChunkType) /\ chunks[s][Peer(x)] # <<>>
      BY PeerIs
    <3>b. Head(chunks[s][Peer(x)]) \in ChunkType
      BY <3>a
    <3>2. data \in Data
      BY <3>b, DataIs, Zenon DEF ChunkType
    <3>3. given[s][x] \o data \in Data
      BY <3>2, DataIs
    <3> QED
      BY <3>1, <3>3, Zenon DEF Set
  <2> QED
    BY <1>f, <2>1, <2>2, <2>3, Zenon DEF pairVars
<1>11. ASSUME NEW s \in Streams, NEW x \in Sides, DecodeFails(s, x) \/ DecoderErrs(s, x) PROVE CodecTypeOK'
  <2>0. /\ q2sPair' = Set(q2sPair, s, x, NoPair) /\ failed' = failed \cup {q2sPair[s][x].obj}
        /\ UNCHANGED <<cache, s2qPair, step, offer, ack, chunks, finished, given>>
    BY <1>11, Zenon DEF DecodeFails, DecoderErrs
  <2>1. q2sPair' \in [Streams -> [Sides -> PairType]]
    BY <2>0, Zenon DEF Set
  <2>2. failed' \subseteq Names
    BY <1>p, <2>0, Zenon
  <2> QED
    BY <1>f, <2>0, <2>1, <2>2, Zenon DEF pairVars
<1>12. ASSUME NEW s \in Streams, NEW x \in Sides, DecoderEof(s, x) \/ DecoderIoError(s, x) PROVE CodecTypeOK'
  <2>0. /\ Checkin(x, offer[s][Peer(x)], q2sPair[s][x]) /\ q2sPair' = Set(q2sPair, s, x, NoPair)
        /\ UNCHANGED <<failed, s2qPair, step, offer, ack, chunks, finished, given>>
    BY <1>12, Zenon DEF DecoderEof, DecoderIoError
  <2>1. cache' \in [Sides -> SUBSET [id : Names, pair : PairType]]
    <3>1. Entry(offer[s][Peer(x)], q2sPair[s][x]) \in [id : Names, pair : PairType]
      BY PeerIs DEF Entry
    <3> QED
      BY <2>0, <3>1, Zenon DEF Checkin
  <2>2. q2sPair' \in [Streams -> [Sides -> PairType]]
    BY <2>0, Zenon DEF Set
  <2>3. \A y \in Sides : \A e, f \in cache'[y] : e.id = f.id => e = f
    BY <2>0 DEF Checkin, Entry
  <2> QED
    BY <1>f, <2>0, <2>1, <2>2, <2>3, Zenon DEF pairVars
<1>13. ASSUME NEW x \in Sides, Evict(x) PROVE CodecTypeOK'
  BY <1>13, <1>f DEF Evict
<1> QED
  BY <1>0, <1>1, <1>2, <1>3, <1>4, <1>5, <1>6, <1>7, <1>8, <1>9, <1>10, <1>11, <1>12, <1>13, Zenon
     DEF CodecNext, HandshakeStep, EncoderStep, DecoderStep

-----------------------------------------------------------------------------
\* No name is the absence of one, and each belongs to one side.
LEMMA UsedIs ==
  /\ \A x \in Sides : None \notin Used(x) /\ \A n \in Used(x) : n[2] = x
  /\ \A s \in Streams, x \in Sides : step[s][x] \in {"new", "scan"} => <<s, x, "s2q">> \notin Used(x)
  /\ \A s \in Streams, x \in Sides : step[s][x] \in {"new", "scan", "id"} => <<s, x, "q2s">> \notin Used(x)
  BY NameIsReal, CodecAssumption DEF Used, Early

\* Tables that only lose entries and tasks that only lose pairs: each pair
\* that is left is where it was.
LEMMA Kept ==
  ASSUME Own,
         \A y \in Sides : Used(y) \subseteq Used(y)' /\ cache'[y] \subseteq cache[y],
         \A k \in Tasks, r \in Streams, y \in Sides : Obj(k, r, y)' = Obj(k, r, y) \/ Obj(k, r, y)' = None,
         failed' = failed
  PROVE Own'
<1>1. Named'
  BY Zenon DEF Own, Named, Sides
<1>2. \A y \in Sides : TableSole(y)'
  BY UsedIs DEF Own, Custody, TableSole, Named
<1>3. \A y \in Sides : TaskSole(y)'
  BY DEF Own, Custody, TaskSole
<1>4. FailedGone'
  BY UsedIs DEF Own, FailedGone, FailedNotReused, Named, Sides
<1> QED
  BY <1>1, <1>2, <1>3, <1>4, Zenon DEF Own, Custody

\* A task gets a pair that nobody has any more, or had before.
LEMMA Gets ==
  ASSUME Own, NEW k \in Tasks, NEW s \in Streams, NEW x \in Sides, NEW o \in Used(x)',
         \A y \in Sides : Used(y) \subseteq Used(y)' /\ cache'[y] \subseteq cache[y],
         Obj(k, s, x)' = o,
         \A l \in Tasks, r \in Streams, y \in Sides : l # k \/ r # s \/ y # x => Obj(l, r, y)' = Obj(l, r, y),
         \A e \in cache'[x] : e.pair.obj # o,
         \A l \in Tasks, r \in Streams : Obj(l, r, x) # o,
         o \notin failed, failed' = failed
  PROVE Own'
<1>1. Named'
  BY DEF Own, Named, Sides
<1>2. \A y \in Sides : TableSole(y)'
  BY DEF Own, Custody, TableSole
<1>3. \A y \in Sides : TaskSole(y)'
  BY DEF Own, Custody, TaskSole
<1>4. FailedGone'
  BY Zenon DEF Own, FailedGone, FailedNotReused
<1> QED
  BY <1>1, <1>2, <1>3, <1>4, Zenon DEF Own, Custody

\* A task returns its pair to the table: what was there under the id is gone,
\* and the task has the pair no longer.
LEMMA Returns ==
  ASSUME Own, NEW k \in Tasks, NEW s \in Streams, NEW x \in Sides, NEW entry, Obj(k, s, x) # None,
         entry.id # None, entry.pair.obj = Obj(k, s, x),
         \A y \in Sides : Used(y) \subseteq Used(y)',
         cache'[x] \subseteq cache[x] \cup {entry}, \A y \in Sides : y # x => cache'[y] = cache[y],
         Obj(k, s, x)' = None,
         \A l \in Tasks, r \in Streams, y \in Sides : l # k \/ r # s \/ y # x => Obj(l, r, y)' = Obj(l, r, y),
         failed' = failed
  PROVE Own'
<1>1. Named'
  BY DEF Own, Named, Sides
<1>2. ASSUME NEW y \in Sides, y # x PROVE TableSole(y)'
  BY <1>2 DEF Own, Custody, TableSole
<1>3. TableSole(x)'
  <2>1. \A e, f \in cache'[x] : e.pair.obj = f.pair.obj => e = f
    BY DEF Own, Custody, TableSole
  <2>2. \A l \in Tasks, r \in Streams : Obj(l, r, x)' # entry.pair.obj
    BY DEF Own, Custody, TaskSole
  <2>3. \A e \in cache[x], l \in Tasks, r \in Streams : e.pair.obj # Obj(l, r, x)'
    BY UsedIs DEF Own, Custody, TableSole, Named
  <2> QED
    BY <2>1, <2>2, <2>3, Zenon DEF TableSole
<1>4. \A y \in Sides : TaskSole(y)'
  BY DEF Own, Custody, TaskSole
<1>5. FailedGone'
  BY UsedIs DEF Own, FailedGone, FailedNotReused, Named, Sides
<1> QED
  BY <1>1, <1>2, <1>3, <1>4, <1>5, Zenon DEF Own, Custody

\* A task marks its pair as errored and drops it.
LEMMA Drops ==
  ASSUME Own, NEW k \in Tasks, NEW s \in Streams, NEW x \in Sides, Obj(k, s, x) # None,
         \A y \in Sides : Used(y) \subseteq Used(y)' /\ cache'[y] = cache[y],
         Obj(k, s, x)' = None,
         \A l \in Tasks, r \in Streams, y \in Sides : l # k \/ r # s \/ y # x => Obj(l, r, y)' = Obj(l, r, y),
         failed' = failed \cup {Obj(k, s, x)}
  PROVE Own'
<1> DEFINE o == Obj(k, s, x)
<1>1. o \in Used(x) /\ Named'
  BY DEF Own, Named, Sides
<1>2. \A y \in Sides : TableSole(y)'
  BY UsedIs DEF Own, Custody, TableSole, Named
<1>3. \A y \in Sides : TaskSole(y)'
  BY DEF Own, Custody, TaskSole
<1>4. \A y \in Sides : y # x => o \notin Used(y)
  BY <1>1, UsedIs, Zenon
<1>5. \A y \in Sides : \A e \in cache'[y] : e.pair.obj # o
  BY <1>4 DEF Own, Named, Custody, TableSole
<1>6. \A l \in Tasks, r \in Streams, y \in Sides : Obj(l, r, y)' # o
  BY <1>4 DEF Own, Named, Custody, TaskSole
<1>7. \A l \in Tasks, r \in Streams, y \in Sides : Obj(l, r, y)' \notin failed
  BY UsedIs DEF Own, FailedGone, Named, Sides
<1>8. FailedGone'
  BY <1>5, <1>6, <1>7, Zenon DEF Own, FailedGone, FailedNotReused
<1> QED
  BY <1>1, <1>2, <1>3, <1>8, Zenon DEF Own, Custody

\* A name that has been used stays used: no side of a stream goes back.
LEMMA UsedStays ==
  ASSUME CodecTypeOK, CodecNext
  PROVE \A y \in Sides : Used(y) \subseteq Used(y)'
<1>1. ASSUME NEW r \in Streams, NEW y \in Sides, NEW k \in Tasks, step[r][y] \notin Early(k)
      PROVE step'[r][y] \notin Early(k)
  <2> USE <1>1 DEF CodecTypeOK, Set, Early
  <2>1. ASSUME NEW s \in Streams, NEW x \in Sides, HandshakeStep(s, x) PROVE step'[r][y] \notin Early(k)
    <3>1. PICK to \in {"scan", "id", "ack", "flow", "over"} :
            /\ step' = Set(step, s, x, to)
            /\ to = "scan" => step[s][x] = "new"
            /\ to = "id" => step[s][x] = "scan"
      BY <2>1, Zenon DEF HandshakeStep, Scan, CanScan, Take, Lookup, CanLookup, Agree, CanAgree, ShakeFails
    <3> QED
      BY <3>1, Zenon
  <2>2. ASSUME NEW s \in Streams, NEW x \in Sides, EncoderStep(s, x) \/ DecoderStep(s, x) PROVE UNCHANGED step
    BY <2>2, Zenon DEF EncoderStep, Encode, FlushEncoder, EncoderEof, EncoderIoError, EncoderErrs,
                DecoderStep, Decode, DecodeFails, DecoderEof, DecoderIoError, DecoderErrs
  <2>3. ASSUME NEW x \in Sides, Evict(x) PROVE UNCHANGED step
    BY <2>3, Zenon DEF Evict
  <2> QED
    BY <2>1, <2>2, <2>3, Zenon DEF CodecNext
<1> QED
  BY <1>1, Zenon DEF Used, Tasks

\* A new name of side x, not yet used, is nowhere.
LEMMA NewIsNowhere ==
  ASSUME Own, NEW x \in Sides, NEW o, o # None, o[2] = x, o \notin Used(x)
  PROVE /\ o \notin failed /\ \A e \in cache[x] : e.pair.obj # o
        /\ \A k \in Tasks, r \in Streams : Obj(k, r, x) # o
<1>1. o \notin failed
  BY UsedIs, Zenon DEF Own, Named, Sides
<1> QED
  BY <1>1, Zenon DEF Own, Named

\* What a change of one task's pair means for the names.
LEMMA ObjIs ==
  ASSUME CodecTypeOK, NEW s \in Streams, NEW x \in Sides, NEW p
  PROVE /\ s2qPair' = Set(s2qPair, s, x, p) /\ q2sPair' = q2sPair =>
             /\ Obj("s2q", s, x)' = p.obj
             /\ \A l \in Tasks, r \in Streams, y \in Sides :
                  l # "s2q" \/ r # s \/ y # x => Obj(l, r, y)' = Obj(l, r, y)
        /\ q2sPair' = Set(q2sPair, s, x, p) /\ s2qPair' = s2qPair =>
             /\ Obj("q2s", s, x)' = p.obj
             /\ \A l \in Tasks, r \in Streams, y \in Sides :
                  l # "q2s" \/ r # s \/ y # x => Obj(l, r, y)' = Obj(l, r, y)
  BY PairsTyped DEF Set, Obj, Tasks

\* Taking or making a pair for s2q keeps every pair in one place.
LEMMA TakeOwns ==
  ASSUME CodecTypeOK, Own, \A y \in Sides : Used(y) \subseteq Used(y)',
         NEW s \in Streams, NEW x \in Sides, Take(s, x)
  PROVE Own'
<1> DEFINE found == {e \in cache[x] : e.id = offer[s][x]}
<1>1. cache'[x] = cache[x] \ found /\ (\A y \in Sides : cache'[y] \subseteq cache[y])
      /\ q2sPair' = q2sPair /\ failed' = failed /\ "s2q" \in Tasks
  BY Zenon DEF Take, CodecTypeOK, Tasks
<1>2. CASE found # {}
  <2>1. PICK e \in found : s2qPair' = Set(s2qPair, s, x, e.pair)
    BY <1>2, Zenon DEF Take
  <2>2. e.pair.obj \in Used(x)' /\ e.pair.obj \notin failed
        /\ \A k \in Tasks, r \in Streams : Obj(k, r, x) # e.pair.obj
    BY <2>1, Zenon DEF Own, Named, Custody, TableSole, FailedGone, FailedNotReused
  <2>3. \A d \in cache'[x] : d.pair.obj # e.pair.obj
    BY <1>1, <2>1, Zenon DEF Own, Custody, TableSole
  <2> QED
    BY <1>1, <2>1, <2>2, <2>3, ObjIs, Gets
<1>3. CASE found = {}
  <2> DEFINE o == <<s, x, "s2q">>
  <2>1. s2qPair' = Set(s2qPair, s, x, Fresh(o)) /\ step[s][x] = "scan" /\ step' = Set(step, s, x, "id")
    BY <1>3, Zenon DEF Take
  <2>2. Fresh(o).obj = o /\ o # None /\ o[2] = x
    BY NameIsReal, Zenon DEF Fresh
  <2>3. o \notin Used(x)
    BY <2>1, UsedIs, Zenon
  <2>4. step'[s][x] = "id"
    BY <2>1, Zenon DEF Set, CodecTypeOK
  <2>5. o \in Used(x)'
    BY <2>4, Zenon DEF Used, Early
  <2> HIDE DEF o
  <2> QED
    BY <1>1, <2>1, <2>2, <2>3, <2>5, NewIsNowhere, ObjIs, Gets
<1> QED
  BY <1>2, <1>3, Zenon

\* Looking a pair up or making one for q2s keeps every pair in one place.
LEMMA LookupOwns ==
  ASSUME CodecTypeOK, Own, \A y \in Sides : Used(y) \subseteq Used(y)',
         NEW s \in Streams, NEW x \in Sides, Lookup(s, x)
  PROVE Own'
<1> DEFINE found == {e \in cache[x] : e.id = offer[s][Peer(x)]}
<1>1. cache'[x] = cache[x] \ found /\ (\A y \in Sides : cache'[y] \subseteq cache[y])
      /\ s2qPair' = s2qPair /\ failed' = failed /\ "q2s" \in Tasks
  BY Zenon DEF Lookup, CodecTypeOK, Tasks
<1>2. CASE found # {}
  <2>1. PICK e \in found : q2sPair' = Set(q2sPair, s, x, e.pair)
    BY <1>2, Zenon DEF Lookup
  <2>2. e.pair.obj \in Used(x)' /\ e.pair.obj \notin failed
        /\ \A k \in Tasks, r \in Streams : Obj(k, r, x) # e.pair.obj
    BY <2>1, Zenon DEF Own, Named, Custody, TableSole, FailedGone, FailedNotReused
  <2>3. \A d \in cache'[x] : d.pair.obj # e.pair.obj
    BY <1>1, <2>1, Zenon DEF Own, Custody, TableSole
  <2> QED
    BY <1>1, <2>1, <2>2, <2>3, ObjIs, Gets
<1>3. CASE found = {}
  <2> DEFINE o == <<s, x, "q2s">>
  <2>1. q2sPair' = Set(q2sPair, s, x, Fresh(o)) /\ step[s][x] = "id" /\ step' = Set(step, s, x, "ack")
    BY <1>3, Zenon DEF Lookup, CanLookup
  <2>2. Fresh(o).obj = o /\ o # None /\ o[2] = x
    BY NameIsReal, Zenon DEF Fresh
  <2>3. o \notin Used(x)
    BY <2>1, UsedIs, Zenon
  <2>4. step'[s][x] = "ack"
    BY <2>1, Zenon DEF Set, CodecTypeOK
  <2>5. o \in Used(x)'
    BY <2>4, Zenon DEF Used, Early
  <2> HIDE DEF o
  <2> QED
    BY <1>1, <2>1, <2>2, <2>3, <2>5, NewIsNowhere, ObjIs, Gets
<1> QED
  BY <1>2, <1>3, Zenon

-----------------------------------------------------------------------------
\* A task that runs has a pair, and an id to return it under.
LEMMA TaskHasPair ==
  ASSUME Flow, NEW s \in Streams, NEW x \in Sides
  PROVE /\ HasEncoder(s, x) => s2qPair[s][x].obj # None /\ Obj("s2q", s, x) # None /\ offer[s][x] # None
        /\ HasDecoder(s, x) => q2sPair[s][x].obj # None /\ Obj("q2s", s, x) # None /\ offer[s][Peer(x)] # None
  BY PeerIs, Zenon DEF Flow, PlacedAt, WaitsAt, HasEncoder, HasDecoder, Obj

\* Every step keeps every pair in one place.
LEMMA NextOwn ==
  ASSUME CodecTypeOK, Own, Flow, CodecNext
  PROVE Own'
<1> "s2q" \in Tasks /\ "q2s" \in Tasks
  BY Zenon DEF Tasks
<1>a. \A y \in Sides : Used(y) \subseteq Used(y)'
  BY UsedStays, Zenon
<1>b. \A r \in Streams, y \in Sides : /\ s2qPair[r][y] \in PairType /\ q2sPair[r][y] \in PairType
                                      /\ Obj("s2q", r, y) = s2qPair[r][y].obj
                                         /\ Obj("q2s", r, y) = q2sPair[r][y].obj
  BY PairsTyped, Zenon DEF Obj
<1>1. ASSUME NEW s \in Streams, NEW x \in Sides, Scan(s, x) PROVE Own'
  <2>1. cache' = cache /\ s2qPair' = s2qPair /\ q2sPair' = q2sPair /\ failed' = failed
    BY <1>1, Zenon DEF Scan, pairVars
  <2> QED
    BY <1>a, <2>1, Kept, Zenon DEF Obj
<1>2. ASSUME NEW s \in Streams, NEW x \in Sides, Take(s, x) \/ Lookup(s, x) PROVE Own'
  BY <1>2, <1>a, TakeOwns, LookupOwns, Zenon
<1>3. ASSUME NEW s \in Streams, NEW x \in Sides, Agree(s, x) \/ Encode(s, x) \/ FlushEncoder(s, x) PROVE Own'
  <2>1. cache' = cache /\ q2sPair' = q2sPair /\ failed' = failed
        /\ \/ s2qPair' = s2qPair
           \/ s2qPair' = Set(s2qPair, s, x, ResetEncoder(s2qPair[s][x]))
           \/ s2qPair' = Set(s2qPair, s, x, [s2qPair[s][x] EXCEPT !.held = Append(@, s)])
           \/ s2qPair' = Set(s2qPair, s, x, Flushed(s2qPair[s][x]))
    BY <1>3, Zenon DEF Agree, Encode, FlushEncoder
  <2>2. /\ ResetEncoder(s2qPair[s][x]).obj = s2qPair[s][x].obj
        /\ [s2qPair[s][x] EXCEPT !.held = Append(@, s)].obj = s2qPair[s][x].obj
        /\ Flushed(s2qPair[s][x]).obj = s2qPair[s][x].obj
    BY <1>b, ResetIs, HeldIs, FlushedIs, CodecAssumption, Zenon
  <2>3. CASE s2qPair' = s2qPair
    BY <1>a, <2>1, <2>3, Kept, Zenon DEF Obj
  <2>4. CASE \E p : s2qPair' = Set(s2qPair, s, x, p) /\ p.obj = s2qPair[s][x].obj
    BY <1>a, <1>b, <2>1, <2>4, ObjIs, Kept
  <2> QED
    BY <2>1, <2>2, <2>3, <2>4, Zenon
<1>4. ASSUME NEW s \in Streams, NEW x \in Sides, ShakeFails(s, x) PROVE Own'
  <2>1. cache' = cache /\ failed' = failed
        /\ s2qPair' = Set(s2qPair, s, x, NoPair) /\ q2sPair' = Set(q2sPair, s, x, NoPair)
    BY <1>4, Zenon DEF ShakeFails
  <2>2. \A k \in Tasks, r \in Streams, y \in Sides : Obj(k, r, y)' = Obj(k, r, y) \/ Obj(k, r, y)' = None
    BY <2>1, PairsTyped, NoPairIs, Zenon DEF Set, Obj
  <2> QED
    BY <1>a, <2>1, <2>2, Kept, Zenon
<1>5. ASSUME NEW s \in Streams, NEW x \in Sides, EncoderEof(s, x) \/ EncoderIoError(s, x) PROVE Own'
  <2> DEFINE entry == Entry(offer[s][x], s2qPair[s][x])
  <2>1. /\ HasEncoder(s, x) /\ Checkin(x, offer[s][x], s2qPair[s][x])
        /\ q2sPair' = q2sPair /\ failed' = failed /\ s2qPair' = Set(s2qPair, s, x, NoPair)
    BY <1>5, Zenon DEF EncoderEof, EncoderIoError
  <2>2. entry.id = offer[s][x] /\ entry.pair = s2qPair[s][x]
    BY Zenon DEF Entry
  <2>3. cache'[x] \subseteq cache[x] \cup {entry} /\ \A y \in Sides : y # x => cache'[y] = cache[y]
    BY <2>1, Zenon DEF Checkin, CodecTypeOK
  <2> HIDE DEF entry
  <2> QED
    BY <1>a, <1>b, <2>1, <2>2, <2>3, TaskHasPair, NoPairIs, ObjIs, Returns
<1>6. ASSUME NEW s \in Streams, NEW x \in Sides, EncoderErrs(s, x) PROVE Own'
  <2>1. /\ HasEncoder(s, x) /\ cache' = cache /\ q2sPair' = q2sPair
        /\ failed' = failed \cup {s2qPair[s][x].obj} /\ s2qPair' = Set(s2qPair, s, x, NoPair)
    BY <1>6, Zenon DEF EncoderErrs
  <2> QED
    BY <1>a, <1>b, <2>1, TaskHasPair, NoPairIs, ObjIs, Drops
<1>7. ASSUME NEW s \in Streams, NEW x \in Sides, Decode(s, x) PROVE Own'
  <2> DEFINE p(data) == [q2sPair[s][x] EXCEPT !.dec = @ \o data]
  <2>1. PICK data : /\ cache' = cache /\ s2qPair' = s2qPair /\ failed' = failed
                    /\ q2sPair' = Set(q2sPair, s, x, p(data))
    BY <1>7, Zenon DEF Decode
  <2>2. p(data).obj = q2sPair[s][x].obj
    BY <1>b, Zenon DEF PairType
  <2> HIDE DEF p
  <2> QED
    BY <1>a, <1>b, <2>1, <2>2, ObjIs, Kept
<1>8. ASSUME NEW s \in Streams, NEW x \in Sides, DecodeFails(s, x) \/ DecoderErrs(s, x) PROVE Own'
  <2>1. /\ HasDecoder(s, x) /\ cache' = cache /\ s2qPair' = s2qPair
        /\ failed' = failed \cup {q2sPair[s][x].obj} /\ q2sPair' = Set(q2sPair, s, x, NoPair)
    BY <1>8, Zenon DEF DecodeFails, DecoderErrs
  <2> QED
    BY <1>a, <1>b, <2>1, TaskHasPair, NoPairIs, ObjIs, Drops
<1>9. ASSUME NEW s \in Streams, NEW x \in Sides, DecoderEof(s, x) \/ DecoderIoError(s, x) PROVE Own'
  <2> DEFINE entry == Entry(offer[s][Peer(x)], q2sPair[s][x])
  <2>1. /\ HasDecoder(s, x) /\ Checkin(x, offer[s][Peer(x)], q2sPair[s][x])
        /\ s2qPair' = s2qPair /\ failed' = failed /\ q2sPair' = Set(q2sPair, s, x, NoPair)
    BY <1>9, Zenon DEF DecoderEof, DecoderIoError
  <2>2. entry.id = offer[s][Peer(x)] /\ entry.pair = q2sPair[s][x]
    BY Zenon DEF Entry
  <2>3. cache'[x] \subseteq cache[x] \cup {entry} /\ \A y \in Sides : y # x => cache'[y] = cache[y]
    BY <2>1, Zenon DEF Checkin, CodecTypeOK
  <2> HIDE DEF entry
  <2> QED
    BY <1>a, <1>b, <2>1, <2>2, <2>3, TaskHasPair, NoPairIs, ObjIs, Returns
<1>10. ASSUME NEW x \in Sides, Evict(x) PROVE Own'
  <2>1. s2qPair' = s2qPair /\ q2sPair' = q2sPair /\ failed' = failed
        /\ \A y \in Sides : cache'[y] \subseteq cache[y]
    BY <1>10, Zenon DEF Evict, CodecTypeOK
  <2> QED
    BY <1>a, <2>1, Kept, Zenon DEF Obj
<1> QED
  BY <1>1, <1>2, <1>3, <1>4, <1>5, <1>6, <1>7, <1>8, <1>9, <1>10, Zenon
     DEF CodecNext, HandshakeStep, EncoderStep, DecoderStep

-----------------------------------------------------------------------------
\* Every side of every stream has its type.
LEMMA Typed ==
  ASSUME CodecTypeOK
  PROVE /\ step \in [Streams -> [Sides -> Steps]] /\ offer \in [Streams -> [Sides -> Names]]
        /\ ack \in [Streams -> [Sides -> Names]] /\ chunks \in [Streams -> [Sides -> Seq(ChunkType)]]
        /\ s2qPair \in [Streams -> [Sides -> PairType]] /\ q2sPair \in [Streams -> [Sides -> PairType]]
        /\ given \in [Streams -> [Sides -> Data]]
  BY Zenon DEF CodecTypeOK

\* What a stream carries, at both of its sides.
Here(s, x) ==
  /\ PlacedAt(s, x) /\ WaitsAt(s, x) /\ DirectAt(s, x)
  /\ PlacedAt(s, Peer(x)) /\ WaitsAt(s, Peer(x)) /\ DirectAt(s, Peer(x))

\* A step of a stream leaves the others alone.
Alone(r) ==
  /\ step'[r] = step[r] /\ offer'[r] = offer[r] /\ ack'[r] = ack[r] /\ chunks'[r] = chunks[r]
  /\ s2qPair'[r] = s2qPair[r] /\ q2sPair'[r] = q2sPair[r] /\ given'[r] = given[r]

LEMMA OthersAlone ==
  ASSUME CodecTypeOK, NEW s \in Streams, NEW x \in Sides, NEW r \in Streams, r # s,
         HandshakeStep(s, x) \/ EncoderStep(s, x) \/ DecoderStep(s, x)
  PROVE Alone(r)
<1>1. \A y, v : /\ Set(step, s, y, v)[r] = step[r] /\ Set(offer, s, y, v)[r] = offer[r]
                /\ Set(ack, s, y, v)[r] = ack[r] /\ Set(chunks, s, y, v)[r] = chunks[r]
                /\ Set(s2qPair, s, y, v)[r] = s2qPair[r] /\ Set(q2sPair, s, y, v)[r] = q2sPair[r]
                /\ Set(given, s, y, v)[r] = given[r]
  BY Typed, Zenon DEF Set
<1>2. CASE Scan(s, x)
  BY <1>1, <1>2 DEF Alone, Scan, pairVars
<1>3. CASE Take(s, x)
  BY <1>1, <1>3 DEF Alone, Take
<1>4. CASE Lookup(s, x)
  BY <1>1, <1>4 DEF Alone, Lookup
<1>5. CASE Agree(s, x)
  BY <1>1, <1>5, Zenon DEF Alone, Agree
<1>6. CASE ShakeFails(s, x)
  BY <1>1, <1>6, Zenon DEF Alone, ShakeFails
<1>7. CASE Encode(s, x)
  BY <1>1, <1>7, Zenon DEF Alone, Encode
<1>8. CASE FlushEncoder(s, x)
  BY <1>1, <1>8, Zenon DEF Alone, FlushEncoder
<1>9. CASE EncoderEof(s, x)
  BY <1>1, <1>9, Zenon DEF Alone, EncoderEof
<1>10. CASE EncoderIoError(s, x)
  BY <1>1, <1>10, Zenon DEF Alone, EncoderIoError
<1>11. CASE EncoderErrs(s, x)
  BY <1>1, <1>11, Zenon DEF Alone, EncoderErrs
<1>12. CASE Decode(s, x)
  BY <1>1, <1>12 DEF Alone, Decode
<1>13. CASE DecodeFails(s, x)
  BY <1>1, <1>13, Zenon DEF Alone, DecodeFails
<1>14. CASE DecoderEof(s, x)
  BY <1>1, <1>14, Zenon DEF Alone, DecoderEof
<1>15. CASE DecoderIoError(s, x)
  BY <1>1, <1>15, Zenon DEF Alone, DecoderIoError
<1>16. CASE DecoderErrs(s, x)
  BY <1>1, <1>16, Zenon DEF Alone, DecoderErrs
<1> QED
  BY <1>2, <1>3, <1>4, <1>5, <1>6, <1>7, <1>8, <1>9, <1>10, <1>11, <1>12, <1>13, <1>14, <1>15, <1>16, Zenon
     DEF HandshakeStep, EncoderStep, DecoderStep

\* A stream that is left alone carries what it did.
LEMMA AloneStays ==
  ASSUME Flow, NEW r \in Streams, NEW y \in Sides, Alone(r)
  PROVE PlacedAt(r, y)' /\ WaitsAt(r, y)' /\ DirectAt(r, y)'
<1>1. PlacedAt(r, y)' /\ WaitsAt(r, y)'
  BY DEF Alone, Flow, PlacedAt, WaitsAt
<1>2. DirectAt(r, y)'
  BY DEF Alone, Flow, DirectAt
<1> QED
  BY <1>1, <1>2, Zenon

\* So only the stream that takes a step has to be looked at.
LEMMA FlowIsHere ==
  ASSUME Flow, NEW s \in Streams, NEW x \in Sides
  PROVE Here(s, x) /\ Peer(x) \in Sides /\ Peer(x) # x /\ Peer(Peer(x)) = x
  BY PeerIs, Zenon DEF Flow, Here

LEMMA HereIsFlow ==
  ASSUME CodecTypeOK, Flow, NEW s \in Streams, NEW x \in Sides, Here(s, x)',
         HandshakeStep(s, x) \/ EncoderStep(s, x) \/ DecoderStep(s, x)
  PROVE Flow'
<1>1. ASSUME NEW r \in Streams, NEW y \in Sides, r # s
      PROVE PlacedAt(r, y)' /\ WaitsAt(r, y)' /\ DirectAt(r, y)'
  BY <1>1, OthersAlone, AloneStays, Zenon
<1>2. \A y \in Sides : y = x \/ y = Peer(x)
  BY DEF Sides, Peer
<1>3. ASSUME NEW y \in Sides PROVE PlacedAt(s, y)' /\ WaitsAt(s, y)' /\ DirectAt(s, y)'
  BY <1>2, Zenon DEF Here
<1> QED
  BY <1>1, <1>3, Zenon DEF Flow

\* The scan changes nothing yet.
LEMMA ScanFlow ==
  ASSUME CodecTypeOK, Own, Flow, NEW s \in Streams, NEW x \in Sides, Scan(s, x)
  PROVE Flow'
<1>0. Here(s, x) /\ Peer(x) \in Sides /\ Peer(x) # x /\ Peer(Peer(x)) = x
  BY FlowIsHere, Zenon
<1>1. step[s][x] = "new" /\ ack' = ack /\ s2qPair' = s2qPair /\ q2sPair' = q2sPair /\ chunks' = chunks
      /\ given' = given
  BY Zenon DEF Scan, CanScan, pairVars
<1>2. step'[s][x] = "scan" /\ step'[s][Peer(x)] = step[s][Peer(x)] /\ offer'[s][Peer(x)] = offer[s][Peer(x)]
  BY <1>0, Typed DEF Scan, Set
<1>3. PlacedAt(s, x)' /\ PlacedAt(s, Peer(x))' /\ WaitsAt(s, x)' /\ WaitsAt(s, Peer(x))'
  BY <1>0, <1>1, <1>2, Zenon DEF Here, PlacedAt, WaitsAt
<1>4. DirectAt(s, x)'
  BY <1>0, <1>1, <1>2, Zenon DEF Here, WaitsAt, DirectAt
<1>5. DirectAt(s, Peer(x))'
  BY <1>0, <1>1, <1>2, Zenon DEF Here, WaitsAt, DirectAt
<1> QED
  BY <1>3, <1>4, <1>5, HereIsFlow, Zenon DEF Here, HandshakeStep

\* Take provides a pair and its id.
LEMMA TakeFlow ==
  ASSUME CodecTypeOK, Own, Flow, NEW s \in Streams, NEW x \in Sides, Take(s, x)
  PROVE Flow'
<1>0. Here(s, x) /\ Peer(x) \in Sides /\ Peer(x) # x /\ Peer(Peer(x)) = x
  BY FlowIsHere, Zenon
<1>1. step[s][x] = "scan" /\ ack' = ack /\ q2sPair' = q2sPair /\ chunks' = chunks /\ given' = given
  BY Zenon DEF Take
<1>2. /\ step'[s][x] = "id" /\ step'[s][Peer(x)] = step[s][Peer(x)]
      /\ offer'[s][Peer(x)] = offer[s][Peer(x)] /\ s2qPair'[s][Peer(x)] = s2qPair[s][Peer(x)]
  BY <1>0, Typed DEF Take, Set
<1>3. s2qPair'[s][x].obj # None /\ offer'[s][x] # None
  <2>1. CASE {e \in cache[x] : e.id = offer[s][x]} # {}
    <3>1. PICK e \in cache[x] : e.id = offer[s][x] /\ s2qPair' = Set(s2qPair, s, x, e.pair) /\ offer' = offer
      BY <2>1, Zenon DEF Take
    <3>2. e.id # None /\ e.pair.obj # None
      BY UsedIs DEF Own, Named
    <3> QED
      BY <3>1, <3>2, Typed, Zenon DEF Set
  <2>2. CASE {e \in cache[x] : e.id = offer[s][x]} = {}
    <3>1. s2qPair' = Set(s2qPair, s, x, Fresh(<<s, x, "s2q">>)) /\ offer' = Set(offer, s, x, <<s, x, "s2q">>)
      BY <2>2, Zenon DEF Take
    <3>2. s2qPair'[s][x] = Fresh(<<s, x, "s2q">>) /\ offer'[s][x] = <<s, x, "s2q">>
      BY <3>1, Typed, Zenon DEF Set
    <3> QED
      BY <3>2, NameIsReal DEF Fresh
  <2> QED
    BY <2>1, <2>2, Zenon
<1>4. PlacedAt(s, x)' /\ PlacedAt(s, Peer(x))' /\ WaitsAt(s, x)' /\ WaitsAt(s, Peer(x))'
  BY <1>0, <1>1, <1>2, <1>3, Zenon DEF Here, PlacedAt, WaitsAt
<1>5. DirectAt(s, x)'
  BY <1>0, <1>1, <1>2, <1>3, Zenon DEF Here, WaitsAt, DirectAt
<1>6. DirectAt(s, Peer(x))'
  BY <1>0, <1>1, <1>2, <1>3, Zenon DEF Here, WaitsAt, DirectAt
<1> QED
  BY <1>4, <1>5, <1>6, HereIsFlow, Zenon DEF Here, HandshakeStep

\* Lookup provides a decoder: a known one, acknowledged, or a fresh one.
LEMMA LookupFlow ==
  ASSUME CodecTypeOK, Own, Flow, NEW s \in Streams, NEW x \in Sides, Lookup(s, x)
  PROVE Flow'
<1>0. Here(s, x) /\ Peer(x) \in Sides /\ Peer(x) # x /\ Peer(Peer(x)) = x
  BY FlowIsHere, Zenon
<1>1. step[s][x] = "id" /\ step[s][Peer(x)] # "flow" /\ offer' = offer /\ s2qPair' = s2qPair
      /\ chunks' = chunks /\ given' = given
  BY <1>0, Zenon DEF Lookup, CanLookup, Here, WaitsAt
<1>2. /\ step'[s][x] = "ack" /\ step'[s][Peer(x)] = step[s][Peer(x)]
      /\ ack'[s][Peer(x)] = ack[s][Peer(x)] /\ q2sPair'[s][Peer(x)] = q2sPair[s][Peer(x)]
  BY <1>0, Typed DEF Lookup, Set
<1>3. /\ q2sPair'[s][x].obj # None
      /\ ack'[s][x] # None \/ q2sPair'[s][x].dec = <<>>
  <2>1. CASE {e \in cache[x] : e.id = offer[s][Peer(x)]} # {}
    <3>1. PICK e \in cache[x] : /\ e.id = offer[s][Peer(x)] /\ q2sPair' = Set(q2sPair, s, x, e.pair)
                               /\ ack' = Set(ack, s, x, offer[s][Peer(x)])
      BY <2>1, Zenon DEF Lookup
    <3>2. e.id # None /\ e.pair.obj # None
      BY UsedIs DEF Own, Named
    <3> QED
      BY <3>1, <3>2, Typed, Zenon DEF Set
  <2>2. CASE {e \in cache[x] : e.id = offer[s][Peer(x)]} = {}
    <3>1. q2sPair' = Set(q2sPair, s, x, Fresh(<<s, x, "q2s">>))
      BY <2>2, Zenon DEF Lookup
    <3>2. q2sPair'[s][x] = Fresh(<<s, x, "q2s">>)
      BY <3>1, Typed, Zenon DEF Set
    <3> QED
      BY <3>2, NameIsReal DEF Fresh
  <2> QED
    BY <2>1, <2>2, Zenon
<1>4. PlacedAt(s, x)' /\ PlacedAt(s, Peer(x))' /\ WaitsAt(s, x)' /\ WaitsAt(s, Peer(x))'
  BY <1>0, <1>1, <1>2, <1>3, Zenon DEF Here, PlacedAt, WaitsAt
<1>5. DirectAt(s, x)'
  BY <1>0, <1>1, <1>2, <1>3, Zenon DEF Here, WaitsAt, DirectAt
<1>6. DirectAt(s, Peer(x))'
  BY <1>0, <1>1, <1>2, <1>3, Zenon DEF Here, WaitsAt, DirectAt
<1> QED
  BY <1>4, <1>5, <1>6, HereIsFlow, Zenon DEF Here, HandshakeStep

\* Without an acknowledgement the encoder starts anew.
LEMMA AgreeFlow ==
  ASSUME CodecTypeOK, Own, Flow, NEW s \in Streams, NEW x \in Sides, Agree(s, x)
  PROVE Flow'
<1>0. Here(s, x) /\ Peer(x) \in Sides /\ Peer(x) # x /\ Peer(Peer(x)) = x
  BY FlowIsHere, Zenon
<1>1. step[s][x] = "ack" /\ step[s][Peer(x)] \in {"ack", "flow"} /\ offer' = offer /\ ack' = ack
      /\ q2sPair' = q2sPair /\ chunks' = chunks /\ given' = given
  BY Zenon DEF Agree, CanAgree
<1>2. step'[s][x] = "flow" /\ step'[s][Peer(x)] = step[s][Peer(x)] /\ s2qPair'[s][Peer(x)] = s2qPair[s][Peer(x)]
  BY <1>0, Typed DEF Agree, Set
<1>3. /\ s2qPair'[s][x].obj = s2qPair[s][x].obj /\ s2qPair[s][x].obj # None
      /\ ack[s][Peer(x)] = None => s2qPair'[s][x].enc = <<>> /\ s2qPair'[s][x].held = <<>>
  <2>1. s2qPair[s][x].obj # None
    BY <1>0, <1>1, Zenon DEF Here, PlacedAt
  <2>2. CASE ack[s][Peer(x)] = None
    <3>1. s2qPair'[s][x] = ResetEncoder(s2qPair[s][x])
      BY <2>2, Typed DEF Agree, Set
    <3>2. s2qPair[s][x] \in PairType
      BY Typed, Zenon
    <3> QED
      BY <2>1, <3>1, <3>2, ResetIs
  <2>3. CASE ack[s][Peer(x)] # None
    BY <2>1, <2>3, Zenon DEF Agree
  <2> QED
    BY <2>2, <2>3, Zenon
<1>4. PlacedAt(s, x)' /\ PlacedAt(s, Peer(x))' /\ WaitsAt(s, x)' /\ WaitsAt(s, Peer(x))'
  BY <1>0, <1>1, <1>2, <1>3, Zenon DEF Here, PlacedAt, WaitsAt
<1>5. DirectAt(s, x)'
  BY <1>0, <1>1, <1>2, <1>3, Zenon DEF Here, WaitsAt, DirectAt
<1>6. DirectAt(s, Peer(x))'
  BY <1>0, <1>1, <1>2, <1>3, Zenon DEF Here, WaitsAt, DirectAt
<1> QED
  BY <1>4, <1>5, <1>6, HereIsFlow, Zenon DEF Here, HandshakeStep

\* A failed handshake leaves no pairs.
LEMMA ShakeFailsFlow ==
  ASSUME CodecTypeOK, Own, Flow, NEW s \in Streams, NEW x \in Sides, ShakeFails(s, x)
  PROVE Flow'
<1>0. Here(s, x) /\ Peer(x) \in Sides /\ Peer(x) # x /\ Peer(Peer(x)) = x
  BY FlowIsHere, Zenon
<1>1. step[s][x] \in {"id", "ack"} /\ offer' = offer /\ ack' = ack /\ chunks' = chunks /\ given' = given
  BY Zenon DEF ShakeFails, PeerGaveUp
<1>2. /\ step'[s][x] = "over" /\ step'[s][Peer(x)] = step[s][Peer(x)]
      /\ s2qPair'[s][x] = NoPair /\ s2qPair'[s][Peer(x)] = s2qPair[s][Peer(x)]
      /\ q2sPair'[s][x] = NoPair /\ q2sPair'[s][Peer(x)] = q2sPair[s][Peer(x)]
  BY <1>0, Typed, Zenon DEF ShakeFails, Set
<1>3. PlacedAt(s, x)' /\ PlacedAt(s, Peer(x))' /\ WaitsAt(s, x)' /\ WaitsAt(s, Peer(x))'
  BY <1>0, <1>1, <1>2, NoPairIs, Zenon DEF Here, PlacedAt, WaitsAt
<1>4. DirectAt(s, x)'
  BY <1>0, <1>1, <1>2, NoPairIs, Zenon DEF Here, WaitsAt, DirectAt
<1>5. DirectAt(s, Peer(x))'
  BY <1>0, <1>1, <1>2, NoPairIs, Zenon DEF Here, WaitsAt, DirectAt
<1> QED
  BY <1>3, <1>4, <1>5, HereIsFlow, Zenon DEF Here, HandshakeStep

-----------------------------------------------------------------------------
\* The data of a stream is seen in what its encoder has or holds of it.
LEMMA SawIs == \A s : s \in Saw(<<>> \o <<s>>) /\ s \in Saw(<<s>> \o <<>>)
<1> SUFFICES ASSUME NEW s PROVE s \in Saw(<<>> \o <<s>>) /\ s \in Saw(<<s>> \o <<>>)
  BY Zenon
<1>1. <<>> \o <<s>> = <<s>> /\ <<s>> \o <<>> = <<s>>
  OBVIOUS
<1>2. s \in Saw(<<s>>)
  BY DEF Saw
<1> QED
  BY <1>1, <1>2, Zenon

\* Data is read once.
LEMMA EncodeFlow ==
  ASSUME CodecTypeOK, Own, Flow, NEW s \in Streams, NEW x \in Sides, Encode(s, x)
  PROVE Flow'
<1>0. Here(s, x) /\ Peer(x) \in Sides /\ Peer(x) # x /\ Peer(Peer(x)) = x
  BY FlowIsHere, Zenon
<1>1. step[s][x] = "flow" /\ s2qPair[s][x].obj # None /\ step' = step /\ offer' = offer /\ ack' = ack
      /\ q2sPair' = q2sPair /\ chunks' = chunks /\ given' = given
  BY TaskHasPair, Zenon DEF Encode, HasEncoder
<1>2. /\ s2qPair'[s][x] = [s2qPair[s][x] EXCEPT !.held = Append(@, s)]
      /\ s2qPair'[s][Peer(x)] = s2qPair[s][Peer(x)]
  BY <1>0, Typed, Zenon DEF Encode, Set
<1>3. /\ s2qPair'[s][x].obj = s2qPair[s][x].obj /\ s2qPair'[s][x].enc = s2qPair[s][x].enc
      /\ s2qPair'[s][x].held = Append(s2qPair[s][x].held, s)
  <2>1. s2qPair[s][x] \in PairType /\ s \in Nat
    BY Typed, CodecAssumption
  <2> QED
    BY <1>2, <2>1, HeldIs, Zenon
<1>4. /\ ~(s2qPair[s][x].enc = <<>> /\ s2qPair[s][x].held = <<s>>)
      /\ ~(s2qPair[s][x].enc = <<s>> /\ s2qPair[s][x].held = <<>>)
  BY SawIs, Zenon DEF Encode
<1>5. s2qPair'[s][Peer(x)] = s2qPair[s][Peer(x)] /\ Append(<<>>, s) = <<s>>
  BY <1>2
<1>6. PlacedAt(s, x)' /\ PlacedAt(s, Peer(x))' /\ WaitsAt(s, x)' /\ WaitsAt(s, Peer(x))'
  BY <1>0, <1>1, <1>3, <1>5, Zenon DEF Here, PlacedAt, WaitsAt
<1>7. DirectAt(s, x)'
  BY <1>0, <1>1, <1>3, <1>4, <1>5, Zenon DEF Here, WaitsAt, DirectAt
<1>8. DirectAt(s, Peer(x))'
  BY <1>0, <1>1, <1>3, <1>4, <1>5, Zenon DEF Here, WaitsAt, DirectAt
<1> QED
  BY <1>6, <1>7, <1>8, HereIsFlow, Zenon DEF Here, EncoderStep

\* A flush of a fresh encoder writes a chunk that refers to nothing.
LEMMA FlushFlow ==
  ASSUME CodecTypeOK, Own, Flow, NEW s \in Streams, NEW x \in Sides, FlushEncoder(s, x)
  PROVE Flow'
<1>0. Here(s, x) /\ Peer(x) \in Sides /\ Peer(x) # x /\ Peer(Peer(x)) = x
  BY FlowIsHere, Zenon
<1>1. step[s][x] = "flow" /\ s2qPair[s][x].obj # None /\ s2qPair[s][x].held # <<>> /\ step' = step
      /\ offer' = offer /\ ack' = ack /\ q2sPair' = q2sPair /\ given' = given
  BY TaskHasPair, Zenon DEF FlushEncoder, HasEncoder
<1>2. s2qPair'[s][Peer(x)] = s2qPair[s][Peer(x)] /\ chunks'[s][Peer(x)] = chunks[s][Peer(x)]
  BY <1>0, Typed, Zenon DEF FlushEncoder, Set
<1>3. /\ s2qPair'[s][x].obj = s2qPair[s][x].obj /\ s2qPair'[s][x].enc = s2qPair[s][x].enc \o s2qPair[s][x].held
      /\ s2qPair'[s][x].held = <<>>
  <2>1. s2qPair'[s][x] = Flushed(s2qPair[s][x]) /\ s2qPair[s][x] \in PairType
    BY Typed, Zenon DEF FlushEncoder, Set
  <2> QED
    BY <2>1, FlushedIs, Zenon
<1>4. chunks'[s][x] = Append(chunks[s][x], [after |-> s2qPair[s][x].enc, data |-> s2qPair[s][x].held])
  BY Typed, Zenon DEF FlushEncoder, Set, Chunk
<1>5. PlacedAt(s, x)' /\ PlacedAt(s, Peer(x))' /\ WaitsAt(s, x)' /\ WaitsAt(s, Peer(x))'
  BY <1>0, <1>1, <1>2, <1>3, Zenon DEF Here, PlacedAt, WaitsAt
<1>6. DirectAt(s, x)'
  BY <1>0, <1>1, <1>2, Zenon DEF Here, WaitsAt, DirectAt
<1>7. DirectAt(s, Peer(x))'
  <2>1. CASE ~(step[s][Peer(x)] \in {"ack", "flow"} /\ ack[s][Peer(x)] = None)
    BY <1>1, <2>1, Zenon DEF DirectAt
  <2>2. CASE step[s][Peer(x)] \in {"ack", "flow"} /\ ack[s][Peer(x)] = None
    <3>1. \/ /\ s2qPair[s][x].enc = <<>> /\ s2qPair[s][x].held \in {<<>>, <<s>>}
             /\ chunks[s][x] = <<>> /\ given[s][Peer(x)] = <<>>
          \/ s2qPair[s][x].enc = <<s>> /\ s2qPair[s][x].held = <<>>
      BY <1>0, <1>1, <2>2, Zenon DEF Here, DirectAt
    <3>2. q2sPair[s][Peer(x)].obj # None => q2sPair[s][Peer(x)].dec = given[s][Peer(x)]
      BY <1>0, <2>2, Zenon DEF Here, DirectAt
    <3>3. /\ s2qPair[s][x].enc = <<>> /\ s2qPair[s][x].held = <<s>>
          /\ chunks[s][x] = <<>> /\ given[s][Peer(x)] = <<>>
      BY <1>1, <3>1, Zenon
    <3>4. /\ <<>> \o <<s>> = <<s>>
          /\ Append(<<>>, [after |-> <<>>, data |-> <<s>>]) = <<[after |-> <<>>, data |-> <<s>>]>>
      OBVIOUS
    <3>5. /\ s2qPair'[s][x].enc = <<s>> /\ s2qPair'[s][x].held = <<>>
          /\ chunks'[s][x] = <<[after |-> <<>>, data |-> <<s>>]>>
      BY <1>3, <1>4, <3>3, <3>4, Zenon
    <3> QED
      BY <1>0, <1>1, <3>2, <3>3, <3>5, Zenon DEF DirectAt
  <2> QED
    BY <2>1, <2>2, Zenon
<1> QED
  BY <1>5, <1>6, <1>7, HereIsFlow, Zenon DEF Here, EncoderStep

\* An encoder that ends leaves the stream as it is.
LEMMA EncoderEndsFlow ==
  ASSUME CodecTypeOK, Own, Flow, NEW s \in Streams, NEW x \in Sides,
         EncoderEof(s, x) \/ EncoderIoError(s, x) \/ EncoderErrs(s, x)
  PROVE Flow'
<1>0. Here(s, x) /\ Peer(x) \in Sides /\ Peer(x) # x /\ Peer(Peer(x)) = x
  BY FlowIsHere, Zenon
<1>1. step[s][x] = "flow" /\ step' = step /\ offer' = offer /\ ack' = ack /\ chunks' = chunks
      /\ given' = given /\ q2sPair' = q2sPair
  BY Zenon DEF HasEncoder, EncoderEof, EncoderIoError, EncoderErrs
<1>2. s2qPair'[s][x] = NoPair /\ s2qPair'[s][Peer(x)] = s2qPair[s][Peer(x)]
  <2>1. s2qPair' = Set(s2qPair, s, x, NoPair)
    BY Zenon DEF EncoderEof, EncoderIoError, EncoderErrs
  <2> QED
    BY <1>0, <2>1, Typed, Zenon DEF Set
<1>3. PlacedAt(s, x)' /\ PlacedAt(s, Peer(x))' /\ WaitsAt(s, x)' /\ WaitsAt(s, Peer(x))'
  BY <1>0, <1>1, <1>2, NoPairIs, Zenon DEF Here, PlacedAt, WaitsAt
<1>4. DirectAt(s, x)'
  BY <1>0, <1>1, <1>2, NoPairIs, Zenon DEF Here, WaitsAt, DirectAt
<1>5. DirectAt(s, Peer(x))'
  BY <1>0, <1>1, <1>2, NoPairIs, Zenon DEF Here, WaitsAt, DirectAt
<1> QED
  BY <1>3, <1>4, <1>5, HereIsFlow, Zenon DEF Here, EncoderStep

\* So does a decoder.
LEMMA DecoderEndsFlow ==
  ASSUME CodecTypeOK, Own, Flow, NEW s \in Streams, NEW x \in Sides,
         DecodeFails(s, x) \/ DecoderEof(s, x) \/ DecoderIoError(s, x) \/ DecoderErrs(s, x)
  PROVE Flow'
<1>0. Here(s, x) /\ Peer(x) \in Sides /\ Peer(x) # x /\ Peer(Peer(x)) = x
  BY FlowIsHere, Zenon
<1>1. step[s][x] = "flow" /\ step' = step /\ offer' = offer /\ ack' = ack /\ chunks' = chunks
      /\ given' = given /\ s2qPair' = s2qPair
  BY Zenon DEF HasDecoder, DecodeFails, DecoderEof, DecoderIoError, DecoderErrs
<1>2. q2sPair'[s][x] = NoPair /\ q2sPair'[s][Peer(x)] = q2sPair[s][Peer(x)]
  <2>1. q2sPair' = Set(q2sPair, s, x, NoPair)
    BY Zenon DEF DecodeFails, DecoderEof, DecoderIoError, DecoderErrs
  <2> QED
    BY <1>0, <2>1, Typed, Zenon DEF Set
<1>3. PlacedAt(s, x)' /\ PlacedAt(s, Peer(x))' /\ WaitsAt(s, x)' /\ WaitsAt(s, Peer(x))'
  BY <1>0, <1>1, <1>2, NoPairIs, Zenon DEF Here, PlacedAt, WaitsAt
<1>4. DirectAt(s, x)'
  BY <1>0, <1>1, <1>2, NoPairIs, Zenon DEF Here, WaitsAt, DirectAt
<1>5. DirectAt(s, Peer(x))'
  BY <1>0, <1>1, <1>2, NoPairIs, Zenon DEF Here, WaitsAt, DirectAt
<1> QED
  BY <1>3, <1>4, <1>5, HereIsFlow, Zenon DEF Here, DecoderStep

\* A fresh decoder understands the one chunk of its stream.
LEMMA DecodeFlow ==
  ASSUME CodecTypeOK, Own, Flow, NEW s \in Streams, NEW x \in Sides, Decode(s, x)
  PROVE Flow'
<1>0. Here(s, x) /\ Peer(x) \in Sides /\ Peer(x) # x /\ Peer(Peer(x)) = x
  BY FlowIsHere, Zenon
<1>1. step[s][x] = "flow" /\ q2sPair[s][x].obj # None /\ chunks[s][Peer(x)] # <<>> /\ step' = step
      /\ offer' = offer /\ ack' = ack /\ s2qPair' = s2qPair
  BY TaskHasPair, Zenon DEF Decode, HasDecoder
<1>2. /\ q2sPair'[s][Peer(x)] = q2sPair[s][Peer(x)] /\ given'[s][Peer(x)] = given[s][Peer(x)]
      /\ chunks'[s][Peer(x)] = Tail(chunks[s][Peer(x)]) /\ chunks'[s][x] = chunks[s][x]
  BY <1>0, Typed DEF Decode, Set
<1>3. q2sPair'[s][x].obj = q2sPair[s][x].obj
  <2>1. PICK data : q2sPair' = Set(q2sPair, s, x, [q2sPair[s][x] EXCEPT !.dec = @ \o data])
    BY Zenon DEF Decode
  <2>2. q2sPair'[s][x] = [q2sPair[s][x] EXCEPT !.dec = @ \o data] /\ q2sPair[s][x] \in PairType
    BY <2>1, Typed, Zenon DEF Set
  <2> QED
    BY <2>2, Zenon DEF PairType
<1>4. step[s][Peer(x)] = "flow"
  BY <1>0, <1>1, Zenon DEF Here, WaitsAt
<1>5. ack[s][x] = None =>
        given'[s][x] = <<s>> /\ q2sPair'[s][x].dec = <<s>> /\ chunks'[s][Peer(x)] = <<>> /\ given[s][x] = <<>>
  <2> SUFFICES ASSUME ack[s][x] = None
              PROVE given'[s][x] = <<s>> /\ q2sPair'[s][x].dec = <<s>> /\ chunks'[s][Peer(x)] = <<>>
              /\ given[s][x] = <<>>
    BY Zenon
  <2> DEFINE chunk == [after |-> <<>>, data |-> <<s>>]
  <2>1. chunks[s][Peer(x)] = <<chunk>> /\ given[s][x] = <<>> /\ q2sPair[s][x].dec = <<>>
    BY <1>0, <1>1, Zenon DEF Here, DirectAt
  <2>2. Head(<<chunk>>) = chunk /\ Tail(<<chunk>>) = <<>> /\ chunk.data = <<s>> /\ chunk.after = <<>>
        /\ <<>> \o <<s>> = <<s>>
    OBVIOUS
  <2>3. /\ q2sPair' = Set(q2sPair, s, x, [q2sPair[s][x] EXCEPT !.dec = @ \o <<s>>])
        /\ given' = Set(given, s, x, given[s][x] \o <<s>>)
    BY <2>1, <2>2, Zenon DEF Decode
  <2>4. q2sPair'[s][x] = [q2sPair[s][x] EXCEPT !.dec = @ \o <<s>>] /\ given'[s][x] = given[s][x] \o <<s>>
    BY <2>3, Typed, Zenon DEF Set
  <2>5. q2sPair[s][x] \in PairType /\ <<s>> \in Data
    BY Typed, CodecAssumption DEF Data
  <2>6. q2sPair'[s][x].dec = q2sPair[s][x].dec \o <<s>>
    BY <2>4, <2>5, DecodedIs, Zenon
  <2> QED
    BY <1>2, <2>1, <2>2, <2>4, <2>6, Zenon
<1>6. PlacedAt(s, x)' /\ PlacedAt(s, Peer(x))' /\ WaitsAt(s, x)' /\ WaitsAt(s, Peer(x))'
  BY <1>0, <1>1, <1>2, <1>3, <1>4, <1>5, Zenon DEF Here, PlacedAt, WaitsAt
<1>7. DirectAt(s, x)'
  BY <1>0, <1>1, <1>2, <1>3, <1>4, <1>5, Zenon DEF Here, WaitsAt, DirectAt
<1>8. DirectAt(s, Peer(x))'
  BY <1>0, <1>1, <1>2, <1>3, <1>4, <1>5, Zenon DEF Here, WaitsAt, DirectAt
<1> QED
  BY <1>6, <1>7, <1>8, HereIsFlow, Zenon DEF Here, DecoderStep


-----------------------------------------------------------------------------
\* Every step keeps what the streams carry.
LEMMA NextFlow ==
  ASSUME CodecTypeOK, Own, Flow, CodecNext
  PROVE Flow'
<1>1. ASSUME NEW x \in Sides, Evict(x) PROVE Flow'
  <2>1. \A r \in Streams : Alone(r)
    BY <1>1, Zenon DEF Evict, Alone
  <2> QED
    BY <2>1, AloneStays, Zenon DEF Flow
<1>2. ASSUME NEW s \in Streams, NEW x \in Sides, HandshakeStep(s, x) PROVE Flow'
  BY <1>2, ScanFlow, TakeFlow, LookupFlow, AgreeFlow, ShakeFailsFlow, Zenon DEF HandshakeStep
<1>3. ASSUME NEW s \in Streams, NEW x \in Sides, EncoderStep(s, x) PROVE Flow'
  BY <1>3, EncodeFlow, FlushFlow, EncoderEndsFlow, Zenon DEF EncoderStep
<1>4. ASSUME NEW s \in Streams, NEW x \in Sides, DecoderStep(s, x) PROVE Flow'
  BY <1>4, DecodeFlow, DecoderEndsFlow, Zenon DEF DecoderStep
<1> QED
  BY <1>1, <1>2, <1>3, <1>4, Zenon DEF CodecNext

\* What stream 1 leaves: one entry with a pair of stream 1, in each table.
LEMMA LeftIs ==
  ASSUME NEW x \in Sides
  PROVE \E e \in [id : Names, pair : PairType] :
          Left(x) = {e} /\ e.id # None /\ e.pair.obj # None /\ e.pair.obj \in {1} \X {x} \X {"s2q", "q2s"}
<1>1. <<1, "A", "s2q">> \in Names /\ <<1, "B", "q2s">> \in Names /\ <<1>> \in Data
  BY CodecAssumption DEF Names, Sides, Data
<1> DEFINE a == [Fresh(<<1, "A", "s2q">>) EXCEPT !.enc = <<1>>]
           b == [Fresh(<<1, "B", "q2s">>) EXCEPT !.dec = <<1>>]
<1>2. a \in PairType /\ a.obj = <<1, "A", "s2q">> /\ b \in PairType /\ b.obj = <<1, "B", "q2s">>
  BY <1>1, DataIs, Zenon DEF Fresh, PairType
<1> HIDE DEF a, b
<1> DEFINE p == IF x = "A" THEN a ELSE b
           e == Entry(<<1, "A", "s2q">>, p)
<1>3. p \in PairType /\ p.obj # None /\ p.obj \in {1} \X {x} \X {"s2q", "q2s"}
  BY <1>2, NameIsReal DEF Sides
<1>4. Left(x) = {e}
  BY Zenon DEF Left, a, b
<1> HIDE DEF p
<1>5. e \in [id : Names, pair : PairType] /\ e.id = <<1, "A", "s2q">> /\ e.pair = p
  BY <1>1, <1>3, Zenon DEF Entry
<1>6. e.id # None /\ e.pair.obj # None /\ e.pair.obj \in {1} \X {x} \X {"s2q", "q2s"}
  BY <1>3, <1>5, NameIsReal, Zenon
<1> HIDE DEF e
<1> QED
  BY <1>4, <1>5, <1>6, Zenon

\* The initial values of the streams.
LEMMA OnStreamsIs == ASSUME NEW T, NEW v \in T PROVE OnStreams(v) \in [Streams -> [Sides -> T]]
  BY Zenon DEF OnStreams

\* The initial states satisfy the invariant.
LEMMA InitIInv == CodecInit => IInv
<1> SUFFICES ASSUME CodecInit PROVE IInv
  BY Zenon
<1>1. /\ step \in [Streams -> [Sides -> {"new"}]]
      /\ offer \in [Streams -> [Sides -> {None}]] /\ ack \in [Streams -> [Sides -> {None}]]
      /\ s2qPair \in [Streams -> [Sides -> {NoPair}]] /\ q2sPair \in [Streams -> [Sides -> {NoPair}]]
      /\ chunks \in [Streams -> [Sides -> {<<>>}]] /\ given \in [Streams -> [Sides -> {<<>>}]]
      /\ finished \in [Streams -> [Sides -> {FALSE}]] /\ failed = {} /\ faults = 0
  BY Zenon DEF CodecInit, OnStreams
<1>2. /\ cache \in [Sides -> SUBSET [id : Names, pair : PairType]]
      /\ \A x \in Sides : \A e, f \in cache[x] : e = f
      /\ \A x \in Sides : \A e \in cache[x] :
           e.id # None /\ e.pair.obj # None /\ e.pair.obj \in {1} \X {x} \X {"s2q", "q2s"}
  BY LeftIs DEF CodecInit
<1>3. \A s \in Streams, x \in Sides :
        /\ step[s][x] = "new" /\ s2qPair[s][x] = NoPair /\ q2sPair[s][x] = NoPair
        /\ chunks[s][x] = <<>> /\ given[s][x] = <<>>
  BY <1>1
<1>o. \A k \in Tasks, s \in Streams, x \in Sides : Obj(k, s, x) = None
  BY <1>3, NoPairIs, Zenon DEF Obj
<1>4. CodecTypeOK
  <2>1. None \in Names /\ NoPair \in PairType /\ <<>> \in Data /\ "new" \in Steps /\ 0 \in 0 .. MaxFaults
    BY NoPairIs, DataIs, CodecAssumption DEF Names, Steps
  <2>2. <<>> \in Seq(ChunkType)
    OBVIOUS
  <2>3. step \in [Streams -> [Sides -> Steps]]
    BY <2>1, OnStreamsIs, Zenon DEF CodecInit
  <2>4. offer \in [Streams -> [Sides -> Names]] /\ ack \in [Streams -> [Sides -> Names]]
    BY <2>1, OnStreamsIs, Zenon DEF CodecInit
  <2>5. s2qPair \in [Streams -> [Sides -> PairType]] /\ q2sPair \in [Streams -> [Sides -> PairType]]
    BY <2>1, OnStreamsIs, Zenon DEF CodecInit
  <2>6. chunks \in [Streams -> [Sides -> Seq(ChunkType)]]
    BY <2>2, OnStreamsIs, Zenon DEF CodecInit
  <2>7. given \in [Streams -> [Sides -> Data]] /\ finished \in [Streams -> [Sides -> BOOLEAN]]
    <3>1. FALSE \in BOOLEAN
      BY Zenon
    <3> QED
      BY <2>1, <3>1, OnStreamsIs, Zenon DEF CodecInit
  <2>8. failed \subseteq Names /\ faults \in 0 .. MaxFaults
    BY <1>1, <2>1, Zenon
  <2> QED
    BY <1>2, <2>3, <2>4, <2>5, <2>6, <2>7, <2>8 DEF CodecTypeOK
<1>5. Own
  <2>1. Named
    BY <1>1, <1>2, <1>o DEF Named, Used
  <2>2. Custody
    BY <1>2, <1>o DEF Custody, TableSole, TaskSole
  <2>3. FailedGone
    BY <1>1, Zenon DEF FailedGone, FailedNotReused
  <2> QED
    BY <2>1, <2>2, <2>3, Zenon DEF Own
<1>6. Flow
  BY <1>3, PeerIs, NoPairIs DEF Flow, PlacedAt, WaitsAt, DirectAt
<1> QED
  BY <1>4, <1>5, <1>6, Zenon DEF IInv

\* Every step preserves the invariant.
LEMMA NextIInv == IInv /\ [CodecNext]_codecVars => IInv'
<1> SUFFICES ASSUME IInv, [CodecNext]_codecVars PROVE IInv'
  BY Zenon
<1>1. CodecTypeOK'
  BY NextType, Zenon DEF IInv
<1>2. CASE CodecNext
  BY <1>1, <1>2, NextOwn, NextFlow, Zenon DEF IInv
<1>3. CASE UNCHANGED codecVars
  <2>1. /\ cache' = cache /\ s2qPair' = s2qPair /\ q2sPair' = q2sPair /\ failed' = failed /\ step' = step
        /\ offer' = offer /\ ack' = ack /\ chunks' = chunks /\ given' = given
    BY <1>3, Zenon DEF codecVars, pairVars
  <2>2. Own'
    <3>1. \A k, s, x : Obj(k, s, x)' = Obj(k, s, x)
      BY <2>1, Zenon DEF Obj
    <3>2. \A x : Used(x)' = Used(x)
      BY <2>1, Zenon DEF Used
    <3> QED
      BY <2>1, <3>1, <3>2, Kept, Zenon DEF IInv
  <2>3. \A r \in Streams : Alone(r)
    BY <2>1, Zenon DEF Alone
  <2>4. Flow'
    BY <2>3, AloneStays, Zenon DEF IInv, Flow
  <2> QED
    BY <1>1, <2>2, <2>4, Zenon DEF IInv
<1> QED
  BY <1>2, <1>3, Zenon

-----------------------------------------------------------------------------
\* The invariant holds in every reachable state.
THEOREM InvariantHolds == CodecSpec => []IInv
  BY InitIInv, NextIInv, PTL DEF CodecSpec

\* Tables have one pair under an id, whatever overlaps and fails.
THEOREM TypeCorrect == CodecSpec => []CodecTypeOK
<1>1. IInv => CodecTypeOK
  BY Zenon DEF IInv
<1> QED
  BY <1>1, InvariantHolds, PTL

\* Where a pair is named decides its side, and its side has it in one place.
LEMMA CustodyIsExclusive == Own => Exclusive
<1> SUFFICES ASSUME Own, NEW h \in Holders, NEW k \in Holders, h.obj = k.obj, h.obj # None
             PROVE h.at = k.at
  BY Zenon DEF Exclusive
<1> DEFINE InTable(g, x, e) == e \in cache[x] /\ g.at = <<"table", x, e.id>> /\ g.obj = e.pair.obj
           InTask(g, l, s, x) == g.at = <<l, s, x>> /\ g.obj = Obj(l, s, x)
           InTableOf(g, x) == \E e \in cache[x] : InTable(g, x, e)
           InTaskOf(g, x) == \E l \in Tasks, s \in Streams : InTask(g, l, s, x)
<1>1. ASSUME NEW g \in Holders
      PROVE \E x \in Sides : InTableOf(g, x) \/ InTaskOf(g, x)
  <2>1. CASE g \in UNION {{[at |-> <<"table", x, e.id>>, obj |-> e.pair.obj] : e \in cache[x]} : x \in Sides}
    <3>1. PICK x \in Sides : g \in {[at |-> <<"table", x, e.id>>, obj |-> e.pair.obj] : e \in cache[x]}
      BY <2>1, Zenon
    <3> QED
      BY <3>1
  <2>2. CASE g \in {[at |-> <<"s2q", p[1], p[2]>>, obj |-> s2qPair[p[1]][p[2]].obj] : p \in Streams \X Sides}
    BY <2>2 DEF Tasks, Obj
  <2>3. CASE g \in {[at |-> <<"q2s", p[1], p[2]>>, obj |-> q2sPair[p[1]][p[2]].obj] : p \in Streams \X Sides}
    BY <2>3 DEF Tasks, Obj
  <2> QED
    BY <1>1, <2>1, <2>2, <2>3, Zenon DEF Holders
<1>2. PICK x \in Sides : InTableOf(h, x) \/ InTaskOf(h, x)
  BY <1>1, Zenon
<1>3. PICK y \in Sides : InTableOf(k, y) \/ InTaskOf(k, y)
  BY <1>1, Zenon
<1>4. x = y
  <2>1. h.obj \in Used(x) /\ k.obj \in Used(y)
    BY <1>2, <1>3, Zenon DEF Own, Named
  <2> QED
    BY <2>1, UsedIs, Zenon
<1>5. TableSole(x) /\ TaskSole(x)
  BY Zenon DEF Own, Custody
<1>6. CASE \E e, f \in cache[x] : InTable(h, x, e) /\ InTable(k, x, f)
  BY <1>5, <1>6, Zenon DEF TableSole
<1>7. CASE \E l, m \in Tasks, s, r \in Streams : InTask(h, l, s, x) /\ InTask(k, m, r, x)
  <2>1. PICK l, m \in Tasks, s, r \in Streams : InTask(h, l, s, x) /\ InTask(k, m, r, x)
    BY <1>7, Zenon
  <2>2. l = m /\ s = r
    BY <1>5, <2>1, Zenon DEF TaskSole
  <2> QED
    BY <2>1, <2>2, Zenon
<1> QED
  BY <1>2, <1>3, <1>4, <1>5, <1>6, <1>7 DEF TableSole

\* A pair is in one table or with one task of one stream, for any number of
\* streams and faults, although checkout is not atomic.
THEOREM PairsAreExclusive == CodecSpec => []Exclusive
<1>1. IInv => Exclusive
  BY CustodyIsExclusive, Zenon DEF IInv
<1> QED
  BY <1>1, InvariantHolds, PTL

\* A pair that was marked errored is never in a table again.
THEOREM FailedPairsAreGone == CodecSpec => []FailedNotReused
<1>1. IInv => FailedNotReused
  BY Zenon DEF IInv, Own, FailedGone
<1> QED
  BY <1>1, InvariantHolds, PTL

\* A stream whose pair was answered with 0 delivers exactly its own data.
THEOREM FreshDeliversItsOwn == CodecSpec => []FreshIsFaithful
<1>1. IInv => FreshIsFaithful
  <2> SUFFICES ASSUME IInv, NEW s \in Streams, NEW y \in Sides, step[s][y] = "flow", ack[s][y] = None
               PROVE /\ given[s][y] \in {<<>>, <<s>>}
                     /\ HasDecoder(s, y) /\ chunks[s][Peer(y)] # <<>> =>
                          q2sPair[s][y].dec = Head(chunks[s][Peer(y)]).after
    BY Zenon DEF FreshIsFaithful
  <2>1. /\ given[s][y] \in {<<>>, <<s>>}
        /\ q2sPair[s][y].obj # None => q2sPair[s][y].dec = given[s][y]
        /\ \/ chunks[s][Peer(y)] = <<>>
           \/ chunks[s][Peer(y)] = <<[after |-> <<>>, data |-> <<s>>]>> /\ given[s][y] = <<>>
    BY Zenon DEF IInv, Flow, DirectAt
  <2>2. HasDecoder(s, y) => q2sPair[s][y].obj # None
    BY TaskHasPair, Zenon DEF IInv
  <2>3. Head(<<[after |-> <<>>, data |-> <<s>>]>>).after = <<>>
    OBVIOUS
  <2> QED
    BY <2>1, <2>2, <2>3, Zenon
<1> QED
  BY <1>1, InvariantHolds, PTL

-----------------------------------------------------------------------------
\* Streams are opened in order, so that none has to wait for an earlier one.
Ordered ==
  \A s, r \in Streams : r < s /\ step[s]["A"] # "new" => step[r]["A"] # "new"

\* Whoever has no encoder any more has told the other side so.
EndedAt(s, x) ==
  step[s][x] = "over" \/ (step[s][x] = "flow" /\ s2qPair[s][x] = NoPair) => finished[s][x]
Ended == \A s \in Streams, x \in Sides : EndedAt(s, x)

\* A side leaves "new" with its scan, and no side returns to it.
LEMMA StepMoves ==
  ASSUME CodecTypeOK, CodecNext
  PROVE \/ UNCHANGED step
        \/ \E s \in Streams, x \in Sides, to \in Steps \ {"new"} :
             step' = Set(step, s, x, to) /\ (step[s][x] = "new" => CanScan(s, x))
<1>1. ASSUME NEW s \in Streams, NEW x \in Sides, HandshakeStep(s, x)
      PROVE \E to \in Steps \ {"new"} :
              step' = Set(step, s, x, to) /\ (step[s][x] = "new" => CanScan(s, x))
  <2>1. CASE Scan(s, x)
    BY <2>1, Zenon DEF Scan, Steps
  <2>2. CASE Take(s, x) \/ Lookup(s, x) \/ Agree(s, x) \/ ShakeFails(s, x)
    <3>1. step[s][x] \in {"scan", "id", "ack"}
      BY <2>2, Zenon DEF Take, Lookup, CanLookup, Agree, CanAgree, ShakeFails, PeerGaveUp
    <3>2. \E to \in {"id", "ack", "flow", "over"} : step' = Set(step, s, x, to)
      BY <2>2, Zenon DEF Take, Lookup, Agree, ShakeFails
    <3> QED
      BY <3>1, <3>2, Zenon DEF Steps
  <2> QED
    BY <1>1, <2>1, <2>2, Zenon DEF HandshakeStep
<1>2. ASSUME NEW s \in Streams, NEW x \in Sides, EncoderStep(s, x) \/ DecoderStep(s, x) PROVE UNCHANGED step
  BY <1>2, Zenon DEF EncoderStep, Encode, FlushEncoder, EncoderEof, EncoderIoError, EncoderErrs,
              DecoderStep, Decode, DecodeFails, DecoderEof, DecoderIoError, DecoderErrs
<1>3. ASSUME NEW x \in Sides, Evict(x) PROVE UNCHANGED step
  BY <1>3, Zenon DEF Evict
<1> QED
  BY <1>1, <1>2, <1>3, Zenon DEF CodecNext

\* A stream is opened after all that come before it.
LEMMA NextOrdered ==
  ASSUME CodecTypeOK, Ordered, CodecNext
  PROVE Ordered'
<1>1. CASE UNCHANGED step
  BY <1>1, Zenon DEF Ordered
<1>2. ASSUME NEW s \in Streams, NEW x \in Sides, NEW to \in Steps \ {"new"},
             step' = Set(step, s, x, to), step[s][x] = "new" => CanScan(s, x)
      PROVE Ordered'
  <2> SUFFICES ASSUME NEW q \in Streams, NEW r \in Streams, r < q, step'[q]["A"] # "new"
               PROVE  step'[r]["A"] # "new"
    BY Zenon DEF Ordered
  <2>1. \A p \in Streams, y \in Sides : p # s \/ y # x => step'[p][y] = step[p][y]
    BY <1>2, Typed DEF Set
  <2>2. step'[s][x] # "new"
    BY <1>2, Typed DEF Set
  <2>3. "A" \in Sides
    BY Zenon DEF Sides
  <2>4. step[r]["A"] # "new" => step'[r]["A"] # "new"
    BY <2>1, <2>2, <2>3, Zenon
  <2>5. CASE step[q]["A"] # "new"
    BY <2>4, <2>5, Zenon DEF Ordered
  <2>6. CASE step[q]["A"] = "new"
    <3>1. q = s /\ x = "A"
      BY <2>1, <2>3, <2>6, Zenon
    <3> QED
      BY <1>2, <2>4, <2>6, <3>1, Zenon DEF CanScan
  <2> QED
    BY <2>5, <2>6, Zenon
<1> QED
  BY <1>1, <1>2, StepMoves, Zenon

\* What a side of a stream does leaves the other sides' encoders alone.
Elsewhere(s, x) ==
  \A r \in Streams, y \in Sides : r # s \/ y # x =>
    step'[r][y] = step[r][y] /\ s2qPair'[r][y] = s2qPair[r][y] /\ finished'[r][y] = finished[r][y]

LEMMA ElsewhereSame ==
  ASSUME CodecTypeOK, NEW s \in Streams, NEW x \in Sides,
         HandshakeStep(s, x) \/ EncoderStep(s, x) \/ DecoderStep(s, x)
  PROVE Elsewhere(s, x)
<1>1. \A v : \A r \in Streams, y \in Sides : r # s \/ y # x =>
        /\ Set(step, s, x, v)[r][y] = step[r][y] /\ Set(s2qPair, s, x, v)[r][y] = s2qPair[r][y]
        /\ Set(finished, s, x, v)[r][y] = finished[r][y]
  BY Zenon DEF CodecTypeOK, Set
<1>2. CASE HandshakeStep(s, x)
  <2>1. step' = step \/ \E v : step' = Set(step, s, x, v)
    BY <1>2, Zenon DEF HandshakeStep, Scan, Take, Lookup, Agree, ShakeFails
  <2>2. s2qPair' = s2qPair \/ \E v : s2qPair' = Set(s2qPair, s, x, v)
    BY <1>2, Zenon DEF HandshakeStep, Scan, pairVars, Take, Lookup, Agree, ShakeFails
  <2>3. finished' = finished \/ \E v : finished' = Set(finished, s, x, v)
    BY <1>2, Zenon DEF HandshakeStep, Scan, Take, Lookup, Agree, ShakeFails
  <2> QED
    BY <1>1, <2>1, <2>2, <2>3 DEF Elsewhere
<1>3. CASE EncoderStep(s, x)
  <2>1. step' = step
    BY <1>3, Zenon DEF EncoderStep, Encode, FlushEncoder, EncoderEof, EncoderIoError, EncoderErrs
  <2>2. \E v : s2qPair' = Set(s2qPair, s, x, v)
    BY <1>3, Zenon DEF EncoderStep, Encode, FlushEncoder, EncoderEof, EncoderIoError, EncoderErrs
  <2>3. finished' = finished \/ \E v : finished' = Set(finished, s, x, v)
    BY <1>3, Zenon DEF EncoderStep, Encode, FlushEncoder, EncoderEof, EncoderIoError, EncoderErrs
  <2> QED
    BY <1>1, <2>1, <2>2, <2>3 DEF Elsewhere
<1>4. CASE DecoderStep(s, x)
  <2>1. step' = step /\ s2qPair' = s2qPair /\ finished' = finished
    BY <1>4, Zenon DEF DecoderStep, Decode, DecodeFails, DecoderEof, DecoderIoError, DecoderErrs
  <2> QED
    BY <2>1, Zenon DEF Elsewhere
<1> QED
  BY <1>2, <1>3, <1>4, Zenon

\* An encoder that ends says so, and one that goes on keeps its pair.
LEMMA NextEnded ==
  ASSUME CodecTypeOK, CodecTypeOK', Flow, Ended, CodecNext
  PROVE Ended'
<1>1. ASSUME NEW s \in Streams, NEW x \in Sides, EndedAt(s, x)', Elsewhere(s, x) PROVE Ended'
  <2>1. ASSUME NEW r \in Streams, NEW y \in Sides, r # s \/ y # x PROVE EndedAt(r, y)'
    BY <1>1, <2>1 DEF Ended, EndedAt, Elsewhere
  <2> QED
    BY <1>1, <2>1, Zenon DEF Ended
<1>2. ASSUME NEW s \in Streams, NEW x \in Sides, s2qPair'[s][x].obj # None PROVE EndedAt(s, x)' \/ step'[s][x] = "over"
  BY <1>2, NoPairIs, Zenon DEF EndedAt
<1>3. ASSUME NEW s \in Streams, NEW x \in Sides, HandshakeStep(s, x) PROVE EndedAt(s, x)'
  <2>1. CASE Scan(s, x) \/ Take(s, x) \/ Lookup(s, x)
    <3>1. \E to \in {"scan", "id", "ack"} : step' = Set(step, s, x, to)
      BY <2>1, Zenon DEF Scan, Take, Lookup
    <3>2. step'[s][x] \in {"scan", "id", "ack"}
      BY <3>1, Typed DEF Set
    <3> QED
      BY <3>2, Zenon DEF EndedAt
  <2>2. CASE Agree(s, x)
    <3>1. s2qPair[s][x].obj # None /\ s2qPair[s][x] \in PairType
      BY <2>2, Typed, Zenon DEF Agree, CanAgree, Flow, PlacedAt
    <3>2. s2qPair' = s2qPair \/ s2qPair' = Set(s2qPair, s, x, ResetEncoder(s2qPair[s][x]))
      BY <2>2, Zenon DEF Agree
    <3>3. s2qPair'[s][x].obj # None
      BY <3>1, <3>2, ResetIs, Typed DEF Set
    <3>4. step'[s][x] = "flow"
      BY <2>2, Zenon DEF Agree, CodecTypeOK, Set
    <3> QED
      BY <1>2, <3>3, <3>4, Zenon
  <2>3. CASE ShakeFails(s, x)
    BY <2>3 DEF ShakeFails, EndedAt, CodecTypeOK, Set
  <2> QED
    BY <1>3, <2>1, <2>2, <2>3, Zenon DEF HandshakeStep
<1>4. ASSUME NEW s \in Streams, NEW x \in Sides, EncoderStep(s, x) PROVE EndedAt(s, x)'
  <2>1. CASE Encode(s, x) \/ FlushEncoder(s, x)
    <3>1. s2qPair[s][x].obj # None /\ s2qPair[s][x] \in PairType /\ step'[s][x] = "flow"
      BY <2>1, Typed, Zenon DEF Encode, FlushEncoder, HasEncoder, Flow, PlacedAt
    <3>2. s \in Nat
      BY CodecAssumption, Zenon
    <3>3. \E p \in PairType : s2qPair' = Set(s2qPair, s, x, p) /\ p.obj = s2qPair[s][x].obj
      BY <2>1, <3>1, <3>2, HeldIs, FlushedIs, Zenon DEF Encode, FlushEncoder
    <3>4. s2qPair'[s][x].obj # None
      BY <3>1, <3>3, Typed DEF Set
    <3> QED
      BY <1>2, <3>1, <3>4, Zenon
  <2>2. CASE EncoderEof(s, x) \/ EncoderIoError(s, x) \/ EncoderErrs(s, x)
    BY <2>2 DEF EncoderEof, EncoderIoError, EncoderErrs, EndedAt, CodecTypeOK, Set
  <2> QED
    BY <1>4, <2>1, <2>2, Zenon DEF EncoderStep
<1>5. ASSUME NEW s \in Streams, NEW x \in Sides, DecoderStep(s, x) PROVE EndedAt(s, x)'
  <2>1. step' = step /\ s2qPair' = s2qPair /\ finished' = finished
    BY <1>5, Zenon DEF DecoderStep, Decode, DecodeFails, DecoderEof, DecoderIoError, DecoderErrs
  <2> QED
    BY <2>1, Zenon DEF Ended, EndedAt
<1>6. ASSUME NEW x \in Sides, Evict(x) PROVE Ended'
  BY <1>6, Zenon DEF Evict, Ended, EndedAt
<1> QED
  BY <1>1, <1>3, <1>4, <1>5, <1>6, ElsewhereSame, Zenon DEF CodecNext

\* Until both sides are done, one of them has something to do: by the phases of
\* the handshake, and then because an encoder never waits and the end of one is
\* seen by the other side's decoder.
LEMMA SomeoneGoesOn == Ordered /\ Ended /\ CodecTypeOK => NoStandstill
<1> SUFFICES ASSUME Ordered, Ended, CodecTypeOK, NEW s \in Streams, IsOpen(s)
             PROVE  \E x \in Sides : CanGoOn(s, x)
  BY Zenon DEF NoStandstill
<1>0. Sides = {"A", "B"} /\ Peer("A") = "B" /\ Peer("B") = "A" /\ step[s]["A"] \in Steps /\ step[s]["B"] \in Steps
  BY Typed, Zenon DEF Sides, Peer
<1>1. step[s]["A"] # "new"
  BY Zenon DEF IsOpen
<1>2. CASE \E x \in Sides : step[s][x] = "scan"
  BY <1>2, Zenon DEF CanGoOn
<1>3. CASE step[s]["B"] = "new"
  <2>1. CanScan(s, "B")
    BY <1>1, <1>3, Zenon DEF CanScan, Ordered
  <2> QED
    BY <1>0, <2>1, Zenon DEF CanGoOn
<1>4. CASE \A x \in Sides : step[s][x] \notin {"new", "scan"}
  <2>1. CASE \E x \in Sides : step[s][x] = "id"
    BY <1>0, <1>4, <2>1, PeerIs, Zenon DEF CanGoOn, CanLookup
  <2>2. ASSUME NEW x \in Sides, step[s][x] = "ack", step[s][Peer(x)] # "id" PROVE CanGoOn(s, x)
    <3>1. step[s][Peer(x)] \in {"ack", "flow", "over"}
      BY <1>4, <2>2, PeerIs, Typed, Zenon DEF Steps
    <3> QED
      BY <2>2, <3>1, Zenon DEF CanGoOn, CanAgree, PeerGaveUp
  <2>3. CASE \A x \in Sides : step[s][x] \in {"flow", "over"}
    <3>1. PICK y \in Sides : ~Done(s, y)
      BY Zenon DEF IsOpen
    <3>2. CASE \E x \in Sides : HasEncoder(s, x)
      BY <3>2, Zenon DEF CanGoOn
    <3>3. CASE ~\E x \in Sides : HasEncoder(s, x)
      <4>1. HasDecoder(s, y)
        BY <2>3, <3>1, <3>3, Zenon DEF Done
      <4>2. finished[s][Peer(y)]
        BY <2>3, <3>3, PeerIs, Zenon DEF Ended, EndedAt, HasEncoder
      <4> QED
        BY <4>1, <4>2, Zenon DEF CanGoOn, CanDecode
    <3> QED
      BY <3>2, <3>3, Zenon
  <2>4. \A x \in Sides : step[s][x] \in {"id", "ack", "flow", "over"}
    BY <1>4, Typed, Zenon DEF Steps
  <2> QED
    BY <2>1, <2>2, <2>3, <2>4, PeerIs, Zenon
<1> QED
  BY <1>0, <1>1, <1>2, <1>3, <1>4, Zenon

\* exchange_pair_id and the tasks of a stream cannot wait for each other in a
\* circle, or for another stream, in any number of streams and with any faults:
\* in every state an open stream has a side with something to do.
THEOREM NeverStandsStill == CodecSpec => []NoStandstill
<1>1. CodecInit => Ordered /\ Ended
  <2>1. CodecInit => \A s \in Streams, x \in Sides : step[s][x] = "new"
    <3>1. \A s \in Streams, x \in Sides : OnStreams("new")[s][x] = "new"
      BY DEF OnStreams
    <3> QED
      BY <3>1, Zenon DEF CodecInit
  <2>2. "A" \in Sides
    BY Zenon DEF Sides
  <2> QED
    BY <2>1, <2>2, Zenon DEF Ordered, Ended, EndedAt
<1>2. IInv /\ IInv' /\ Ordered /\ Ended /\ [CodecNext]_codecVars => Ordered' /\ Ended'
  <2>1. CASE CodecNext
    BY <2>1, NextOrdered, NextEnded, Zenon DEF IInv
  <2>2. CASE UNCHANGED codecVars
    BY <2>2, Zenon DEF codecVars, pairVars, Ordered, Ended, EndedAt
  <2> QED
    BY <2>1, <2>2, Zenon
<1>3. IInv /\ Ordered /\ Ended => NoStandstill
  BY SomeoneGoesOn, Zenon DEF IInv
<1> QED
  BY <1>1, <1>2, <1>3, InvariantHolds, PTL DEF CodecSpec
=============================================================================

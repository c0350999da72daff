--------------------------- MODULE SendPathProofs ---------------------------
(***************************************************************************)
(* The safety properties of SendPath for every number of frames, frame     *)
(* length, water mark and socket size.                                     *)
(***************************************************************************)
EXTENDS SendPath, SequenceTheorems, TLAPS

(* The smaller of two numbers is one of them and at most each. *)
LEMMA MinPair ==
  ASSUME NEW x \in Int, NEW y \in Int
  PROVE  Min({x, y}) \in {x, y} /\ Min({x, y}) <= x /\ Min({x, y}) <= y
<1>1. \E m \in {x, y} : \A z \in {x, y} : m <= z
  OBVIOUS
<1> QED BY <1>1 DEF Min

(* Natural numbers are integers, for the provers that do not know it. *)
LEMMA NatInt == \A n \in Nat : n \in Int
OBVIOUS

(* A frame as a sequence of bytes. *)
LEMMA FrameBytes ==
  ASSUME NEW n \in FrameIds
  PROVE  /\ Frame(n) \in Seq(Bytes) /\ Len(Frame(n)) = FrameLen
         /\ \A k \in 1..FrameLen : Frame(n)[k] = <<n, k>>
<1>1. Frame(n) \in [1..FrameLen -> Bytes]
  BY SizesAssumption DEF Frame, Bytes
<1>2. FrameLen \in Nat
  BY SizesAssumption
<1> QED BY <1>1, <1>2, IsASeq, LenProperties DEF Frame

(* The socket takes at most what it is offered and what it has room for. *)
LEMMA TakenRange ==
  ASSUME NEW a \in AsyncioType, NEW bytes \in Seq(Bytes)
  PROVE  Taken(a, bytes) \in 0..Len(bytes) /\ Taken(a, bytes) <= a.room
<1>1. a.room \in Nat /\ Len(bytes) \in Nat
  BY SizesAssumption DEF AsyncioType
<1> DEFINE m == Min({a.room, Len(bytes)})
<1>2. m \in {a.room, Len(bytes)} /\ m <= a.room /\ m <= Len(bytes)
  BY Zenon, <1>1, MinPair, NatInt
<1>3. Taken(a, bytes) = IF a.broken THEN 0 ELSE m
  BY Zenon DEF Taken
<1> HIDE DEF m
<1> QED BY <1>1, <1>2, <1>3

(* Concatenation is associative. *)
LEMMA Associative ==
  ASSUME NEW S, NEW w \in Seq(S), NEW b \in Seq(S), NEW q \in Seq(S)
  PROVE  w \o (b \o q) = (w \o b) \o q
OBVIOUS

Rejoined(w, p, b, q, x) == (w \o p) \o (b \o q) = (w \o b) \o x

(* Four pieces put together in two ways, one of the middle ones empty. *)
LEMMA Rejoin ==
  ASSUME NEW S, NEW w \in Seq(S), NEW p \in Seq(S), NEW b \in Seq(S), NEW q \in Seq(S),
         NEW x, p \o q = x, p = <<>> \/ b = <<>>
  PROVE  Rejoined(w, p, b, q, x)
<1> USE DEF Rejoined
<1>1. w \o (b \o q) = (w \o b) \o q
  BY ONLY Associative
<1>2. w \o (p \o q) = (w \o p) \o q
  BY ONLY Associative
<1>3. CASE p = <<>>
  <2>1. w \o p = w /\ p \o q = q
    BY <1>3, ConcatEmptySeq
  <2> QED BY ONLY Zenon, <2>1, <1>1, p \o q = x
<1>4. CASE b = <<>>
  <2>1. w \o b = w /\ b \o q = q
    BY <1>4, ConcatEmptySeq
  <2> QED BY ONLY Zenon, <2>1, <1>2, p \o q = x
<1> QED BY Zenon, <1>3, <1>4

(* `bytes` cut after the first n, the parts behind w and b. *)
CutAt(S, w, b, bytes, n) ==
  LET p == SubSeq(bytes, 1, n)
      q == SubSeq(bytes, n + 1, Len(bytes))
  IN /\ p \in Seq(S) /\ q \in Seq(S) /\ Len(p) = n
     /\ w \o p \in Seq(S) /\ b \o q \in Seq(S)
     /\ (w \o p) \o (b \o q) = (w \o b) \o bytes

(* Cutting bytes in two and putting the parts behind two others. *)
LEMMA CutAndJoin ==
  ASSUME NEW S, NEW w \in Seq(S), NEW b \in Seq(S), NEW x \in Seq(S), NEW n \in 0..Len(x),
         n = 0 \/ b = <<>>
  PROVE  CutAt(S, w, b, x, n)
<1> DEFINE p == SubSeq(x, 1, n)
           q == SubSeq(x, n + 1, Len(x))
<1>1. /\ p \in Seq(S) /\ Len(p) = n
      /\ q \in Seq(S)
  OBVIOUS
<1>2. p \o q = x
  <2>1. 1 \in 1..(Len(x) + 1) /\ n \in (1 - 1)..Len(x) /\ Len(x) \in n..Len(x)
    OBVIOUS
  <2>2. p \o q = SubSeq(x, 1, Len(x))
    BY ONLY Zenon, <2>1, x \in Seq(S), ConcatAdjacentSubSeq DEF p, q
  <2> QED BY Zenon, <2>2, SubSeqFull
<1>3. <<>> \in Seq(S)
  OBVIOUS
<1> HIDE DEF p, q
<1>4. w \o p \in Seq(S) /\ b \o q \in Seq(S)
  BY Zenon, <1>1, ConcatProperties
<1>5. p = <<>> \/ b = <<>>
  BY <1>1, EmptySeq
<1>6. Rejoined(w, p, b, q, x)
  BY Zenon, <1>1, <1>2, <1>5, Rejoin
<1> QED BY Zenon, <1>1, <1>2, <1>4, <1>6 DEF p, q, Rejoined, CutAt

-----------------------------------------------------------------------------
(* What transport.write() does.                                             *)

(* A transport that has lost its connection holds nothing. *)
Sane(a) == a \in AsyncioType /\ (a.lost => a.buffer = <<>>)

Output(a) == a.wire \o a.buffer

(* The bytes are thrown away and nothing else happens to the client, or     *)
(* they follow what is there; then the client may be paused.                *)
WrittenTo(c, a, bytes, d, b) ==
  /\ Sane(b)
  /\ \/ /\ d = c /\ b.protocol_paused = a.protocol_paused
        /\ Output(b) = Output(a) /\ b.discarded
     \/ /\ \/ d = c /\ b.protocol_paused = a.protocol_paused
           \/ d = pause_writing(c) /\ b.protocol_paused
        /\ Output(b) = Output(a) \o bytes /\ b.discarded = a.discarded

(* What the socket takes leaves room for the rest, and the stream is whole. *)
LEMMA OnWireEffect ==
  ASSUME NEW a \in AsyncioType, NEW p \in Seq(Bytes), NEW q \in Seq(Bytes), Len(p) <= a.room
  PROVE  /\ OnWire(a, p) \in AsyncioType
         /\ OnWire(a, p).wire = a.wire \o p /\ OnWire(a, p).buffer = a.buffer
         /\ OnWire(a, p).lost = a.lost /\ OnWire(a, p).discarded = a.discarded
         /\ OnWire(a, p).protocol_paused = a.protocol_paused
<1>1. a.wire \o p \in Seq(Bytes)
  <2>1. a.wire \in Seq(Bytes)
    BY DEF AsyncioType
  <2> QED BY <2>1, ConcatProperties
<1>2. a.room - Len(p) \in 0..MaxRoom
  <2>1. a.room \in 0..MaxRoom /\ MaxRoom \in Nat
    BY SizesAssumption DEF AsyncioType
  <2>2. Len(p) \in Nat
    BY LenProperties
  <2> QED BY <2>1, <2>2
<1> QED BY Zenon, <1>1, <1>2 DEF OnWire, AsyncioType

PairType == [client : ClientType, asyncio : AsyncioType]

(* transport.write(): the bytes are lost or follow what is there. *)
LEMMA WriteEffect ==
  ASSUME NEW p0 \in PairType, Sane(p0.asyncio), NEW bytes \in Seq(Bytes),
         NEW s, s = Write(p0, bytes)
  PROVE  s \in PairType /\ WrittenTo(p0.client, p0.asyncio, bytes, s.client, s.asyncio)
<1> DEFINE c == p0.client
           a == p0.asyncio
<1>0. c \in ClientType /\ a \in AsyncioType
  BY Zenon DEF PairType
<1>1. CASE a.lost
  <2>1. s = [p0 EXCEPT !.asyncio.discarded = TRUE]
    BY Zenon, <1>1 DEF Write
  <2>2. s \in PairType /\ s.client = c /\ s.asyncio = [a EXCEPT !.discarded = TRUE]
    BY ZenonT(60), <1>0, <2>1 DEF PairType, AsyncioType
  <2>3. /\ s.asyncio \in AsyncioType
        /\ s.asyncio.wire = a.wire /\ s.asyncio.buffer = a.buffer /\ s.asyncio.lost = a.lost
        /\ s.asyncio.discarded /\ s.asyncio.protocol_paused = a.protocol_paused
    BY Zenon, <2>2 DEF Sane, AsyncioType
  <2> QED BY Zenon, <2>2, <2>3 DEF WrittenTo, Sane, Output
<1>2. CASE ~a.lost /\ a.buffer = <<>> /\ a.broken
  <2> DEFINE b == [ForceClosed(a) EXCEPT !.discarded = TRUE]
  <2>1. s = [p0 EXCEPT !.asyncio = b]
    BY Zenon, <1>2 DEF Write
  <2>2. <<>> \in Seq(Bytes)
    OBVIOUS
  <2>3. /\ b \in AsyncioType
        /\ b.wire = a.wire /\ b.buffer = <<>>
        /\ b.discarded /\ b.protocol_paused = a.protocol_paused
    BY Zenon, <1>0, <2>2 DEF AsyncioType, ForceClosed
  <2> HIDE DEF b
  <2>4. s \in PairType /\ s.client = c /\ s.asyncio = b
    BY Zenon, <2>1, <2>3 DEF PairType
  <2> QED BY Zenon, <1>2, <2>3, <2>4 DEF WrittenTo, Sane, Output
<1>3. CASE ~a.lost /\ ~(a.buffer = <<>> /\ a.broken)
  <2> DEFINE n == IF a.buffer = <<>> THEN Taken(a, bytes) ELSE 0
             p == SubSeq(bytes, 1, n)
             q == SubSeq(bytes, n + 1, Len(bytes))
             kept == [OnWire(a, p) EXCEPT !.buffer = @ \o q]
             pauses == Len(kept.buffer) > HighWater /\ ~a.protocol_paused
  <2>1. s = [client |-> IF pauses THEN pause_writing(c) ELSE c,
             asyncio |-> [kept EXCEPT !.protocol_paused = @ \/ pauses]]
    BY Zenon, <1>3 DEF Write
  <2>2. n \in 0..Len(bytes) /\ n <= a.room /\ (n = 0 \/ a.buffer = <<>>)
    <3>1. a \in AsyncioType
      BY Zenon DEF Sane
    <3>2. Taken(a, bytes) \in 0..Len(bytes) /\ Taken(a, bytes) <= a.room
      BY <3>1, TakenRange
    <3>3. 0 \in 0..Len(bytes) /\ 0 <= a.room
      BY <3>1, SizesAssumption DEF AsyncioType
    <3> QED BY Zenon, <3>2, <3>3
  <2> HIDE DEF n
  <2>3. a \in AsyncioType /\ a.wire \in Seq(Bytes) /\ a.buffer \in Seq(Bytes)
    BY Zenon, <1>0 DEF AsyncioType
  <2>4. /\ p \in Seq(Bytes) /\ q \in Seq(Bytes) /\ Len(p) = n
        /\ a.wire \o p \in Seq(Bytes) /\ a.buffer \o q \in Seq(Bytes)
        /\ (a.wire \o p) \o (a.buffer \o q) = (a.wire \o a.buffer) \o bytes
    <3>1. CutAt(Bytes, a.wire, a.buffer, bytes, n)
      BY Zenon, <2>2, <2>3, CutAndJoin
    <3> QED BY Zenon, <3>1 DEF CutAt
  <2> HIDE DEF p, q
  <2>5. Len(p) <= a.room
    BY Zenon, <2>2, <2>4
  <2>6. /\ OnWire(a, p) \in AsyncioType
        /\ OnWire(a, p).wire = a.wire \o p /\ OnWire(a, p).buffer = a.buffer
        /\ OnWire(a, p).lost = a.lost /\ OnWire(a, p).discarded = a.discarded
        /\ OnWire(a, p).protocol_paused = a.protocol_paused
    BY Zenon, <2>3, <2>4, <2>5, OnWireEffect
  <2>7. /\ kept \in AsyncioType
        /\ kept.wire = a.wire \o p /\ kept.buffer = a.buffer \o q
        /\ kept.lost = a.lost /\ kept.discarded = a.discarded
        /\ kept.protocol_paused = a.protocol_paused
    BY Zenon, <2>4, <2>6 DEF AsyncioType
  <2> HIDE DEF kept
  <2>8. pauses \in BOOLEAN
    BY Zenon DEF pauses
  <2> HIDE DEF pauses
  <2>9. a.protocol_paused \in BOOLEAN /\ (a.protocol_paused \/ pauses) \in BOOLEAN
    BY Zenon, <2>3, <2>8 DEF AsyncioType
  <2>10. /\ s.client = IF pauses THEN pause_writing(c) ELSE c
         /\ s.asyncio = [kept EXCEPT !.protocol_paused = a.protocol_paused \/ pauses]
    BY <2>1, <2>7
  <2>11. /\ s.asyncio \in AsyncioType
         /\ s.asyncio.wire = a.wire \o p /\ s.asyncio.buffer = a.buffer \o q
         /\ ~s.asyncio.lost /\ s.asyncio.discarded = a.discarded
         /\ s.asyncio.protocol_paused = (a.protocol_paused \/ pauses)
    BY Zenon, <1>3, <2>7, <2>9, <2>10 DEF AsyncioType
  <2>12. Output(s.asyncio) = Output(a) \o bytes
    BY Zenon, <2>4, <2>11 DEF Output
  <2>13. \/ s.client = c /\ s.asyncio.protocol_paused = a.protocol_paused
         \/ s.client = pause_writing(c) /\ s.asyncio.protocol_paused
    BY Zenon, <2>8, <2>9, <2>10, <2>11
  <2>14. s \in PairType
    <3>1. s.client \in ClientType
      BY Zenon, <1>0, <2>8, <2>10 DEF pause_writing, ClientType
    <3> QED BY Zenon, <2>1, <2>11, <3>1 DEF PairType
  <2> QED BY Zenon, <2>11, <2>12, <2>13, <2>14 DEF WrittenTo, Sane
<1> QED BY Zenon, <1>1, <1>2, <1>3

-----------------------------------------------------------------------------
(* The order of a stream s, of the frames w that wait, and of the kinds k   *)
(* of all frames: two bytes of the stream are in the order of submission    *)
(* unless a control frame passed a data frame; what waits are data frames,  *)
(* submitted after every data frame of the stream, in order.                *)
InOrder(k, b, c) == Precedes(b, c) \/ (k[b[1]] # "data" /\ k[c[1]] = "data")

OrderedIn(s, w, k) ==
  /\ \A i \in 1..Len(s) : s[i] \in (1..Len(k)) \X (1..FrameLen)
  /\ \A i, j \in 1..Len(s) : i < j => InOrder(k, s[i], s[j])
  /\ \A j \in 1..Len(w) : w[j] \in 1..Len(k) /\ k[w[j]] = "data"
  /\ \A i \in 1..Len(s), j \in 1..Len(w) : k[s[i][1]] = "data" => s[i][1] < w[j]
  /\ \A i, j \in 1..Len(w) : i < j => w[i] < w[j]

(* Stream t is s and the first m bytes of frame n. *)
Extends(s, t, n, m) ==
  /\ Len(t) = Len(s) + m
  /\ \A i \in 1..Len(s) : t[i] = s[i]
  /\ \A i \in (Len(s) + 1)..(Len(s) + m) : t[i] = <<n, i - Len(s)>>

(* A prefix of f behind s, position by position. *)
LEMMA PrefixBehind ==
  ASSUME NEW S, NEW s \in Seq(S), NEW f \in Seq(S), NEW m \in 0..Len(f)
  PROVE  LET t == s \o SubSeq(f, 1, m)
         IN /\ t \in Seq(S) /\ Len(t) = Len(s) + m
            /\ \A i \in 1..Len(s) : t[i] = s[i]
            /\ \A i \in (Len(s) + 1)..(Len(s) + m) : i - Len(s) \in 1..m /\ t[i] = f[i - Len(s)]
<1> SubSeq(f, 1, m) \in Seq(S)
  OBVIOUS
<1>1. PICK p \in Seq(S) : p = SubSeq(f, 1, m)
  BY Zenon
<1>2. Len(p) = m /\ \A k \in 1..m : p[k] = f[k]
  BY <1>1
<1>3. PICK t \in Seq(S) : t = s \o p
  BY ConcatProperties
<1>4. /\ Len(t) = Len(s) + m
      /\ \A i \in 1..Len(s) : t[i] = s[i]
      /\ \A i \in (Len(s) + 1)..(Len(s) + Len(p)) : t[i] = p[i - Len(s)]
  BY <1>2, <1>3, ConcatProperties
<1>5. \A i \in (Len(s) + 1)..(Len(s) + m) : i - Len(s) \in 1..m
  OBVIOUS
<1> QED BY Zenon, <1>1, <1>2, <1>3, <1>4, <1>5

(* Extends is what concatenation does. *)
LEMMA ExtendsPart ==
  ASSUME NEW s \in Seq(Bytes), NEW n \in FrameIds, NEW m \in 0..FrameLen
  PROVE  /\ s \o SubSeq(Frame(n), 1, m) \in Seq(Bytes)
         /\ Extends(s, s \o SubSeq(Frame(n), 1, m), n, m)
<1>1. /\ Frame(n) \in Seq(Bytes) /\ Len(Frame(n)) = FrameLen
      /\ \A k \in 1..FrameLen : Frame(n)[k] = <<n, k>>
  BY FrameBytes
<1>2. 1..m \subseteq 1..FrameLen
  BY SizesAssumption
<1> DEFINE t == s \o SubSeq(Frame(n), 1, m)
<1>3. /\ t \in Seq(Bytes) /\ Len(t) = Len(s) + m
      /\ \A i \in 1..Len(s) : t[i] = s[i]
      /\ \A i \in (Len(s) + 1)..(Len(s) + m) : i - Len(s) \in 1..m /\ t[i] = Frame(n)[i - Len(s)]
  BY ZenonT(60), <1>1, PrefixBehind
<1> QED BY Zenon, <1>1, <1>2, <1>3 DEF Extends

(* A frame is submitted: nothing has it yet. *)
LEMMA OrderedSubmit ==
  ASSUME NEW s \in Seq(Bytes), NEW w \in Seq(FrameIds), NEW k \in Seq(Kinds), NEW x \in Kinds,
         OrderedIn(s, w, k)
  PROVE  OrderedIn(s, w, Append(k, x))
<1>1. PICK l \in Seq(Kinds) : l = Append(k, x)
  BY AppendProperties
<1>2. Len(l) = Len(k) + 1 /\ \A i \in 1..Len(k) : l[i] = k[i]
  BY <1>1
<1>3. 1..Len(k) \subseteq 1..Len(l)
  BY <1>2
<1>4. \A i \in 1..Len(s) : s[i] \in (1..Len(l)) \X (1..FrameLen) /\ l[s[i][1]] = k[s[i][1]]
  BY Zenon, <1>2, <1>3 DEF OrderedIn
<1>5. \A j \in 1..Len(w) : w[j] \in 1..Len(l) /\ l[w[j]] = k[w[j]]
  BY Zenon, <1>2, <1>3 DEF OrderedIn
<1>6. OrderedIn(s, w, l)
  BY Zenon, <1>4, <1>5 DEF OrderedIn, InOrder
<1> QED BY Zenon, <1>1, <1>6

(* The bytes of frame n go to the stream. *)
LEMMA OrderedWritten ==
  ASSUME NEW s \in Seq(Bytes), NEW t \in Seq(Bytes), NEW w \in Seq(FrameIds), NEW k \in Seq(Kinds),
         NEW n \in 1..Len(k), NEW m \in 0..FrameLen,
         OrderedIn(s, w, k), Extends(s, t, n, m),
         \A i \in 1..Len(s) : s[i][1] < n \/ (k[s[i][1]] # "data" /\ k[n] = "data"),
         k[n] = "data" => \A j \in 1..Len(w) : n < w[j]
  PROVE  OrderedIn(t, w, k)
<1>1. \A i \in 1..Len(t) :
        \/ i \in 1..Len(s) /\ t[i] = s[i]
        \/ /\ i \in (Len(s) + 1)..(Len(s) + m) /\ i - Len(s) \in 1..FrameLen
           /\ t[i] = <<n, i - Len(s)>> /\ t[i][1] = n /\ t[i][2] = i - Len(s)
  BY SizesAssumption DEF Extends
<1>2. ASSUME NEW i \in 1..Len(t)
      PROVE  t[i] \in (1..Len(k)) \X (1..FrameLen)
  <2>1. CASE i \in 1..Len(s) /\ t[i] = s[i]
    BY Zenon, <2>1 DEF OrderedIn
  <2>2. CASE i - Len(s) \in 1..FrameLen /\ t[i] = <<n, i - Len(s)>>
    BY <2>2
  <2> QED BY Zenon, <1>1, <2>1, <2>2
<1>3. ASSUME NEW i \in 1..Len(t), NEW j \in 1..Len(t), i < j
      PROVE  InOrder(k, t[i], t[j])
  <2>1. CASE j \in 1..Len(s) /\ t[j] = s[j]
    <3>1. i \in 1..Len(s)
      BY <1>3, <2>1
    <3>2. t[i] = s[i]
      BY Zenon, <3>1 DEF Extends
    <3> QED BY Zenon, <1>3, <2>1, <3>1, <3>2 DEF OrderedIn
  <2>2. CASE j \in (Len(s) + 1)..(Len(s) + m) /\ t[j][1] = n /\ t[j][2] = j - Len(s)
    <3>1. CASE i \in 1..Len(s) /\ t[i] = s[i]
      BY Zenon, <2>2, <3>1 DEF InOrder, Precedes
    <3>2. CASE i \in (Len(s) + 1)..(Len(s) + m) /\ t[i][1] = n /\ t[i][2] = i - Len(s)
      <4>1. i - Len(s) < j - Len(s)
        BY <1>3, <2>2, <3>2
      <4> QED BY Zenon, <2>2, <3>2, <4>1 DEF InOrder, Precedes
    <3> QED BY Zenon, <1>1, <3>1, <3>2
  <2> QED BY Zenon, <1>1, <2>1, <2>2
<1>4. \A i \in 1..Len(t), j \in 1..Len(w) : k[t[i][1]] = "data" => t[i][1] < w[j]
  BY Zenon, <1>1 DEF OrderedIn
<1> QED BY Zenon, <1>2, <1>3, <1>4 DEF OrderedIn

(* send() of a paused client: the new frame waits behind the others. *)
LEMMA OrderedQueued ==
  ASSUME NEW s \in Seq(Bytes), NEW w \in Seq(FrameIds), NEW k \in Seq(Kinds),
         NEW n \in FrameIds, n = Len(k) + 1, OrderedIn(s, w, k)
  PROVE  OrderedIn(s, Append(w, n), Append(k, "data"))
<1>1. PICK l \in Seq(Kinds) : l = Append(k, "data")
  BY AppendProperties DEF Kinds
<1>2. Len(l) = n /\ l[n] = "data"
  BY <1>1
<1>3. PICK v \in Seq(FrameIds) : v = Append(w, n)
  BY AppendProperties
<1>4. /\ Len(v) = Len(w) + 1 /\ v[Len(w) + 1] = n
      /\ \A j \in 1..Len(w) : v[j] = w[j]
  BY <1>3
<1>5. OrderedIn(s, w, l)
  BY Zenon, <1>1, OrderedSubmit DEF Kinds
<1>6. /\ \A i \in 1..Len(s) : s[i][1] \in 1..Len(k)
      /\ \A j \in 1..Len(w) : w[j] \in 1..Len(k)
  BY DEF OrderedIn
<1>7. /\ \A i \in 1..Len(s) : s[i][1] < n
      /\ \A j \in 1..Len(w) : w[j] < n
  BY <1>6
<1>8. \A j \in 1..Len(v) : (j \in 1..Len(w) /\ v[j] = w[j]) \/ (j = Len(w) + 1 /\ v[j] = n)
  BY <1>4
<1>9. \A j \in 1..Len(v) : v[j] \in 1..Len(l) /\ l[v[j]] = "data"
  <2>1. n \in 1..Len(l)
    BY <1>2
  <2> QED BY Zenon, <1>2, <1>5, <1>8, <2>1 DEF OrderedIn
<1>10. \A i \in 1..Len(s), j \in 1..Len(v) : l[s[i][1]] = "data" => s[i][1] < v[j]
  BY Zenon, <1>5, <1>7, <1>8 DEF OrderedIn
<1>11. ASSUME NEW i \in 1..Len(v), NEW j \in 1..Len(v), i < j
       PROVE  v[i] < v[j]
  <2>1. i \in 1..Len(w) /\ v[i] = w[i]
    BY <1>4, <1>11
  <2>2. CASE j \in 1..Len(w) /\ v[j] = w[j]
    BY Zenon, <1>5, <1>11, <2>1, <2>2 DEF OrderedIn
  <2>3. CASE v[j] = n
    BY Zenon, <1>7, <2>1, <2>3
  <2> QED BY Zenon, <1>8, <2>2, <2>3
<1>12. OrderedIn(s, v, l)
  BY Zenon, <1>5, <1>9, <1>10, <1>11 DEF OrderedIn
<1> QED BY Zenon, <1>1, <1>3, <1>12

(* A prefix of the stream, and fewer waiting frames, stay in order. *)
LEMMA OrderedLess ==
  ASSUME NEW s \in Seq(Bytes), NEW t \in Seq(Bytes), NEW w \in Seq(FrameIds), NEW v \in Seq(FrameIds),
         NEW k \in Seq(Kinds), OrderedIn(s, w, k),
         Len(t) <= Len(s), \A i \in 1..Len(t) : t[i] = s[i],
         v = w \/ v = <<>> \/ (w # <<>> /\ v = Tail(w))
  PROVE  OrderedIn(t, v, k)
<1>1. OrderedIn(t, w, k)
  <2>1. 1..Len(t) \subseteq 1..Len(s)
    OBVIOUS
  <2> QED BY Zenon, <2>1 DEF OrderedIn
<1>2. CASE v = <<>>
  <2>1. 1..Len(v) = {}
    BY <1>2
  <2> QED BY Zenon, <1>1, <2>1 DEF OrderedIn
<1>3. CASE w # <<>> /\ v = Tail(w)
  <2>1. \A j \in 1..Len(v) : j + 1 \in 1..Len(w) /\ v[j] = w[j + 1]
    BY <1>3
  <2>2. \A i, j \in 1..Len(v) : i < j => i + 1 < j + 1
    OBVIOUS
  <2>3. ASSUME NEW j \in 1..Len(v)
        PROVE  v[j] \in 1..Len(k) /\ k[v[j]] = "data"
    <3>1. w[j + 1] \in 1..Len(k) /\ k[w[j + 1]] = "data"
      BY Zenon, <1>1, <2>1 DEF OrderedIn
    <3> QED BY Zenon, <2>1, <3>1
  <2>4. \A i \in 1..Len(t), j \in 1..Len(v) : k[t[i][1]] = "data" => t[i][1] < v[j]
    BY Zenon, <1>1, <2>1 DEF OrderedIn
  <2>5. \A i, j \in 1..Len(v) : i < j => v[i] < v[j]
    BY Zenon, <1>1, <2>1, <2>2 DEF OrderedIn
  <2> QED BY Zenon, <1>1, <2>3, <2>4, <2>5 DEF OrderedIn
<1> QED BY Zenon, <1>1, <1>2, <1>3

-----------------------------------------------------------------------------
(* Every frame is in the stream or waits. *)
Has(s, n) == \A p \in 1..FrameLen : \E i \in 1..Len(s) : s[i] = <<n, p>>
CompleteIn(s, w, k) == \A n \in 1..Len(k) : Has(s, n) \/ \E j \in 1..Len(w) : w[j] = n

(* What a stream has, it has when it is longer; and it has what was added.  *)
LEMMA HasWritten ==
  ASSUME NEW s \in Seq(Bytes), NEW t \in Seq(Bytes), NEW n, Extends(s, t, n, FrameLen)
  PROVE  Has(t, n) /\ \A o : Has(s, o) => Has(t, o)
<1>1. 1..Len(s) \subseteq 1..Len(t)
  BY SizesAssumption DEF Extends
<1>2. \A o : Has(s, o) => Has(t, o)
  BY Zenon, <1>1 DEF Has, Extends
<1>3. ASSUME NEW p \in 1..FrameLen
      PROVE  \E i \in 1..Len(t) : t[i] = <<n, p>>
  <2>1. /\ Len(s) + p \in (Len(s) + 1)..(Len(s) + FrameLen)
        /\ Len(s) + p \in 1..Len(t) /\ (Len(s) + p) - Len(s) = p
    BY SizesAssumption DEF Extends
  <2>2. t[Len(s) + p] = <<n, (Len(s) + p) - Len(s)>>
    BY Zenon, <2>1 DEF Extends
  <2> QED BY Zenon, <2>1, <2>2
<1> QED BY Zenon, <1>2, <1>3 DEF Has

(* A new frame is written whole. *)
LEMMA CompleteWritten ==
  ASSUME NEW s \in Seq(Bytes), NEW t \in Seq(Bytes), NEW w \in Seq(FrameIds), NEW k \in Seq(Kinds),
         NEW x \in Kinds, NEW n, n = Len(k) + 1, Extends(s, t, n, FrameLen), CompleteIn(s, w, k)
  PROVE  CompleteIn(t, w, Append(k, x))
<1>1. \A o \in 1..Len(Append(k, x)) : o \in 1..Len(k) \/ o = n
  OBVIOUS
<1>2. Has(t, n) /\ \A o : Has(s, o) => Has(t, o)
  BY Zenon, HasWritten
<1> QED BY Zenon, <1>1, <1>2 DEF CompleteIn

(* A new frame waits. *)
LEMMA CompleteQueued ==
  ASSUME NEW s \in Seq(Bytes), NEW w \in Seq(FrameIds), NEW k \in Seq(Kinds),
         NEW x \in Kinds, NEW n \in FrameIds, n = Len(k) + 1, CompleteIn(s, w, k)
  PROVE  CompleteIn(s, Append(w, n), Append(k, x))
<1>1. \A o \in 1..Len(Append(k, x)) : o \in 1..Len(k) \/ o = n
  OBVIOUS
<1>2. PICK v \in Seq(FrameIds) : v = Append(w, n)
  BY AppendProperties
<1>3. /\ Len(w) + 1 \in 1..Len(v) /\ v[Len(w) + 1] = n
      /\ \A j \in 1..Len(w) : j \in 1..Len(v) /\ v[j] = w[j]
  BY <1>2
<1>4. CompleteIn(s, v, Append(k, x))
  BY Zenon, <1>1, <1>3 DEF CompleteIn
<1> QED BY Zenon, <1>2, <1>4

(* resume_writing() writes the first waiting frame whole. *)
LEMMA CompleteResumed ==
  ASSUME NEW s \in Seq(Bytes), NEW t \in Seq(Bytes), NEW w \in Seq(FrameIds), NEW k \in Seq(Kinds),
         w # <<>>, Extends(s, t, Head(w), FrameLen), CompleteIn(s, w, k)
  PROVE  CompleteIn(t, Tail(w), k)
<1>1. Has(t, Head(w)) /\ \A o : Has(s, o) => Has(t, o)
  BY Zenon, HasWritten
<1>2. PICK v \in Seq(FrameIds) : v = Tail(w)
  BY Zenon, HeadTailProperties
<1>3. \A j \in 1..Len(w) : w[j] = Head(w) \/ (j - 1 \in 1..Len(v) /\ v[j - 1] = w[j])
  BY <1>2
<1>4. CompleteIn(t, v, k)
  BY Zenon, <1>1, <1>3 DEF CompleteIn
<1> QED BY Zenon, <1>2, <1>4

-----------------------------------------------------------------------------
(* Frames follow one another, and the last one is complete. *)
WholeIn(s) == Uncut(s) /\ (Len(s) > 0 => s[Len(s)][2] = FrameLen)

(* A frame written whole behind whole frames. *)
LEMMA WholeWritten ==
  ASSUME NEW s \in Seq(Bytes), NEW t \in Seq(Bytes), NEW n, Extends(s, t, n, FrameLen), WholeIn(s)
  PROVE  WholeIn(t)
<1>1. /\ Len(t) = Len(s) + FrameLen /\ Len(s) \in Nat /\ FrameLen \in Nat \ {0}
      /\ \A i \in 1..Len(s) : t[i] = s[i]
      /\ \A i \in (Len(s) + 1)..(Len(s) + FrameLen) :
           t[i] = <<n, i - Len(s)>> /\ t[i][1] = n /\ t[i][2] = i - Len(s)
  BY SizesAssumption, LenProperties DEF Extends
<1>2. t[Len(t)][2] = FrameLen
  BY <1>1
<1>3. ASSUME NEW i \in 1..(Len(t) - 1)
      PROVE  Follows(t[i], t[i + 1])
  <2>1. CASE i < Len(s)
    <3>1. i \in 1..(Len(s) - 1) /\ i \in 1..Len(s) /\ i + 1 \in 1..Len(s)
      BY <2>1
    <3>2. t[i] = s[i] /\ t[i + 1] = s[i + 1]
      BY Zenon, <1>1, <3>1
    <3> QED BY Zenon, <3>1, <3>2 DEF WholeIn, Uncut
  <2>2. CASE i = Len(s)
    <3>1. t[i] = s[Len(s)] /\ t[i + 1][2] = 1 /\ Len(s) > 0
      BY <1>1, <2>2
    <3> QED BY Zenon, <3>1 DEF WholeIn, Follows
  <2>3. CASE i > Len(s)
    <3>1. /\ t[i][1] = n /\ t[i][2] = i - Len(s) /\ t[i + 1] = <<n, (i - Len(s)) + 1>>
          /\ i - Len(s) # FrameLen
      BY <1>1, <2>3
    <3> QED BY Zenon, <3>1 DEF Follows
  <2> QED BY <1>1, <2>1, <2>2, <2>3
<1> QED BY Zenon, <1>2, <1>3 DEF WholeIn, Uncut

-----------------------------------------------------------------------------
(* The inductive invariant.  Fit is what client and transport know of each  *)
(* other; r says that resume_writing() is active.                           *)
Fit(c, a, r) ==
  /\ c \in ClientType /\ Sane(a)
  /\ r => ~c.buf_known_empty /\ c.write_queue = <<>>
  /\ c.closed => c.write_queue = <<>>
  /\ ~c.closed => /\ c.paused = a.protocol_paused
                  /\ c.write_queue # <<>> => c.paused
                  /\ c.buf_known_empty => a.buffer = <<>>

State ==
  /\ Fit(client, asyncio, resuming)
  /\ resuming \in BOOLEAN /\ queue \in Seq(FrameIds) /\ (~resuming => queue = <<>>)
  /\ kinds \in Seq(Kinds) /\ Len(kinds) <= MaxFrames + 1 /\ (~client.closed => Len(kinds) <= MaxFrames)

SInv ==
  /\ State
  /\ OrderedIn(Stream, Waiting, kinds)
  /\ ~client.closed /\ ~asyncio.discarded => CompleteIn(Stream, Waiting, kinds)
  /\ ~asyncio.discarded => WholeIn(Stream)

(* What a step does to the stream and to the waiting frames. *)
Kept == Waiting' = Waiting \/ (Waiting' = <<>> /\ client'.closed)

Grows(n) ==
  \E m \in 0..FrameLen :
    /\ Extends(Stream, Stream', n, m)
    /\ ~asyncio'.discarded => ~asyncio.discarded /\ m = FrameLen

Rests ==
  /\ kinds' = kinds /\ Kept /\ (client.closed => client'.closed)
  /\ Len(Stream') <= Len(Stream) /\ \A i \in 1..Len(Stream') : Stream'[i] = Stream[i]
  /\ ~asyncio'.discarded => ~asyncio.discarded /\ Stream' = Stream

Adds(x) ==
  /\ ~client.closed /\ kinds' = Append(kinds, x) /\ Kept
  /\ x = "data" => Waiting = <<>>
  /\ Grows(NewFrame)

Queues ==
  /\ ~client.closed /\ kinds' = Append(kinds, "data") /\ Waiting' = Append(Waiting, NewFrame)
  /\ Stream' = Stream /\ asyncio'.discarded = asyncio.discarded /\ ~client'.closed

Passes ==
  /\ kinds' = kinds /\ client'.closed = client.closed
  /\ Waiting # <<>> /\ Waiting' = Tail(Waiting)
  /\ Grows(Head(Waiting))

(* The sequences are sequences. *)
LEMMA FitSequences ==
  ASSUME NEW c, NEW a, NEW r, NEW q \in Seq(FrameIds), Fit(c, a, r)
  PROVE  /\ a.wire \in Seq(Bytes) /\ a.buffer \in Seq(Bytes) /\ c.write_queue \in Seq(FrameIds)
         /\ a.wire \o a.buffer \in Seq(Bytes) /\ q \o c.write_queue \in Seq(FrameIds)
<1>1. /\ a.wire \in Seq(Bytes) /\ a.buffer \in Seq(Bytes) /\ c.write_queue \in Seq(FrameIds)
  BY Zenon DEF Fit, Sane, ClientType, AsyncioType
<1> QED BY Zenon, <1>1, ConcatProperties

(* The number of the next frame. *)
LEMMA NewFrameId ==
  ASSUME State, ~client.closed
  PROVE  NewFrame \in FrameIds
BY SizesAssumption, LenProperties DEF State, NewFrame, FrameIds

(* A step that adds nothing to the stream. *)
LEMMA RestsKeeps ==
  ASSUME SInv, State', Rests
  PROVE  SInv'
<1>1. /\ Stream \in Seq(Bytes) /\ Waiting \in Seq(FrameIds) /\ kinds \in Seq(Kinds)
  BY Zenon, FitSequences DEF SInv, State, Stream, Waiting
<1>2. /\ Stream' \in Seq(Bytes) /\ Waiting' \in Seq(FrameIds)
  BY Zenon, FitSequences DEF State, Stream, Waiting
<1>3. OrderedIn(Stream', Waiting', kinds)
  BY Zenon, <1>1, <1>2, OrderedLess DEF SInv, Rests, Kept
<1>4. ~client'.closed /\ ~asyncio'.discarded => CompleteIn(Stream', Waiting', kinds)
  BY Zenon DEF SInv, Rests, Kept
<1>5. ~asyncio'.discarded => WholeIn(Stream')
  BY Zenon DEF SInv, Rests
<1> QED BY Zenon, <1>3, <1>4, <1>5 DEF SInv, Rests

(* A step that submits a frame and writes it. *)
LEMMA AddsKeeps ==
  ASSUME SInv, State', NEW x \in Kinds, Adds(x)
  PROVE  SInv'
<1>1. /\ Stream \in Seq(Bytes) /\ Waiting \in Seq(FrameIds) /\ kinds \in Seq(Kinds)
  BY Zenon, FitSequences DEF SInv, State, Stream, Waiting
<1>2. /\ Stream' \in Seq(Bytes) /\ Waiting' \in Seq(FrameIds)
  BY Zenon, FitSequences DEF State, Stream, Waiting
<1>3. PICK m \in 0..FrameLen :
        /\ Extends(Stream, Stream', NewFrame, m)
        /\ ~asyncio'.discarded => ~asyncio.discarded /\ m = FrameLen
  BY Zenon DEF Adds, Grows
<1>4. PICK k \in Seq(Kinds) : k = Append(kinds, x)
  BY Zenon, <1>1, AppendProperties
<1>5. k = kinds' /\ Len(k) = NewFrame /\ k[NewFrame] = x /\ NewFrame \in 1..Len(k)
  BY <1>1, <1>4 DEF Adds, NewFrame
<1>6. OrderedIn(Stream, Waiting, k)
  BY Zenon, <1>1, <1>4, OrderedSubmit DEF SInv
<1>7. \A i \in 1..Len(Stream) : Stream[i][1] < NewFrame
  <2>1. \A i \in 1..Len(Stream) : Stream[i] \in (1..Len(kinds)) \X (1..FrameLen)
    BY Zenon DEF SInv, OrderedIn
  <2>2. \A i \in 1..Len(Stream) : Stream[i][1] \in 1..Len(kinds)
    BY Zenon, <2>1
  <2>3. \A n \in 1..Len(kinds) : n < NewFrame
    BY <1>1, LenProperties DEF NewFrame
  <2> QED BY Zenon, <2>2, <2>3
<1>8. k[NewFrame] = "data" => \A j \in 1..Len(Waiting) : NewFrame < Waiting[j]
  <2>1. k[NewFrame] = "data" => Waiting = <<>>
    BY Zenon, <1>5 DEF Adds
  <2>2. \A w : w = <<>> => \A j \in 1..Len(w) : NewFrame < w[j]
    OBVIOUS
  <2> QED BY Zenon, <2>1, <2>2
<1>9. OrderedIn(Stream', Waiting, k)
  BY Zenon, <1>1, <1>2, <1>3, <1>5, <1>6, <1>7, <1>8, OrderedWritten
<1>10. OrderedIn(Stream', Waiting', k)
  <2>1. Len(Stream') <= Len(Stream')
    BY <1>2, LenProperties
  <2> QED BY Zenon, <1>1, <1>2, <1>9, <2>1, OrderedLess DEF Adds, Kept
<1>11. ~client'.closed /\ ~asyncio'.discarded => CompleteIn(Stream', Waiting', kinds')
  BY Zenon, <1>1, <1>2, <1>3, CompleteWritten DEF Adds, Kept, SInv, NewFrame
<1>12. ASSUME ~asyncio'.discarded
       PROVE  WholeIn(Stream')
  <2>1. Extends(Stream, Stream', NewFrame, FrameLen) /\ WholeIn(Stream)
    BY Zenon, <1>3, <1>12 DEF SInv
  <2> QED BY Zenon, <1>1, <1>2, <2>1, WholeWritten
<1> QED BY Zenon, <1>5, <1>10, <1>11, <1>12 DEF SInv

(* A step that submits a data frame which waits. *)
LEMMA QueuesKeeps ==
  ASSUME SInv, State', Queues
  PROVE  SInv'
<1>1. /\ Stream \in Seq(Bytes) /\ Waiting \in Seq(FrameIds) /\ kinds \in Seq(Kinds)
  BY Zenon, FitSequences DEF SInv, State, Stream, Waiting
<1>2. NewFrame \in FrameIds /\ NewFrame = Len(kinds) + 1 /\ "data" \in Kinds
  BY Zenon, NewFrameId DEF SInv, Queues, NewFrame, Kinds
<1>3. OrderedIn(Stream, Append(Waiting, NewFrame), Append(kinds, "data"))
  BY Zenon, <1>1, <1>2, OrderedQueued DEF SInv
<1>4. ~client.closed /\ ~asyncio.discarded => CompleteIn(Stream, Append(Waiting, NewFrame), Append(kinds, "data"))
  BY Zenon, <1>1, <1>2, CompleteQueued DEF SInv
<1> QED BY Zenon, <1>3, <1>4 DEF SInv, Queues

(* A step of resume_writing(): the first waiting frame is written. *)
LEMMA PassesKeeps ==
  ASSUME SInv, State', Passes
  PROVE  SInv'
<1>1. /\ Stream \in Seq(Bytes) /\ Waiting \in Seq(FrameIds) /\ kinds \in Seq(Kinds)
  BY Zenon, FitSequences DEF SInv, State, Stream, Waiting
<1>2. /\ Stream' \in Seq(Bytes) /\ Waiting' \in Seq(FrameIds)
  BY Zenon, FitSequences DEF State, Stream, Waiting
<1>3. PICK m \in 0..FrameLen :
        /\ Extends(Stream, Stream', Head(Waiting), m)
        /\ ~asyncio'.discarded => ~asyncio.discarded /\ m = FrameLen
  BY Zenon DEF Passes, Grows
<1>4. PICK w \in Seq(FrameIds) : w = Waiting
  BY Zenon, <1>1
<1>5. PICK v \in Seq(FrameIds) : v = Waiting'
  BY Zenon, <1>2
<1> DEFINE n == Head(w)
<1>6. w # <<>> /\ v = Tail(w) /\ OrderedIn(Stream, w, kinds)
  BY Zenon, <1>4, <1>5 DEF Passes, SInv
<1>7. /\ 1 \in 1..Len(w) /\ w[1] = n
      /\ \A j \in 1..Len(v) : j + 1 \in 1..Len(w) /\ 1 < j + 1 /\ v[j] = w[j + 1]
  BY <1>6
<1> HIDE DEF n
<1>8. n \in 1..Len(kinds) /\ kinds[n] = "data"
  BY Zenon, <1>6, <1>7 DEF OrderedIn
<1>9. \A i \in 1..Len(Stream) : Stream[i][1] < n \/ (kinds[Stream[i][1]] # "data" /\ kinds[n] = "data")
  BY Zenon, <1>6, <1>7, <1>8 DEF OrderedIn
<1>10. \A j \in 1..Len(v) : n < v[j]
  BY Zenon, <1>6, <1>7 DEF OrderedIn
<1>11. OrderedIn(Stream, v, kinds)
  <2>1. Len(Stream) <= Len(Stream)
    BY <1>1, LenProperties
  <2> QED BY Zenon, <1>1, <1>6, <2>1, OrderedLess
<1>12. Extends(Stream, Stream', n, m)
  BY Zenon, <1>3, <1>4 DEF n
<1>13. OrderedIn(Stream', v, kinds)
  BY Zenon, <1>1, <1>2, <1>8, <1>9, <1>10, <1>11, <1>12, OrderedWritten
<1>14. ASSUME ~client.closed, ~asyncio'.discarded
       PROVE  CompleteIn(Stream', v, kinds)
  <2>1. Extends(Stream, Stream', Head(w), FrameLen) /\ CompleteIn(Stream, w, kinds)
    BY Zenon, <1>3, <1>4, <1>14 DEF SInv
  <2> QED BY Zenon, <1>1, <1>2, <1>6, <2>1, CompleteResumed
<1>15. ASSUME ~asyncio'.discarded
       PROVE  WholeIn(Stream')
  <2>1. Extends(Stream, Stream', n, FrameLen) /\ WholeIn(Stream)
    BY Zenon, <1>3, <1>12, <1>15 DEF SInv
  <2> QED BY Zenon, <1>1, <1>2, <2>1, WholeWritten
<1> QED BY Zenon, <1>5, <1>13, <1>14, <1>15 DEF SInv, Passes

-----------------------------------------------------------------------------
(* What the operations on client and transport do to Fit and to the stream. *)

(* The stream grows by frame n, whole unless bytes were thrown away. *)
GrowsTo(a, b, n) ==
  \E m \in 0..FrameLen :
    /\ Extends(Output(a), Output(b), n, m)
    /\ ~b.discarded => ~a.discarded /\ m = FrameLen

(* c and d hold the same frames and are both open or both closed. *)
SameQueue(c, d) == d.write_queue = c.write_queue /\ d.closed = c.closed

(* A write through the transport, with the cache cleared before it. *)
LEMMA WriteFits ==
  ASSUME NEW c, NEW a, NEW r, NEW bytes, NEW d, NEW b,
         Fit(c, a, r), ~c.buf_known_empty, WrittenTo(c, a, bytes, d, b)
  PROVE  Fit(d, b, r) /\ SameQueue(c, d)
<1>1. CASE d = c /\ b.protocol_paused = a.protocol_paused
  BY Zenon, <1>1 DEF Fit, SameQueue, WrittenTo
<1>2. CASE d = pause_writing(c) /\ b.protocol_paused
  <2>1. b.protocol_paused = TRUE
    BY Zenon, <1>2 DEF WrittenTo, Sane, AsyncioType
  <2>2. /\ d \in ClientType /\ d.paused = TRUE /\ ~d.buf_known_empty
        /\ d.write_queue = c.write_queue /\ d.closed = c.closed
    BY Zenon, <1>2 DEF Fit, ClientType, pause_writing
  <2> QED BY Zenon, <2>1, <2>2 DEF Fit, SameQueue, WrittenTo
<1> QED BY Zenon, <1>1, <1>2 DEF WrittenTo

(* Nothing, or a whole frame, behind the stream. *)
LEMMA WriteGrows ==
  ASSUME NEW c, NEW a, NEW r, NEW n \in FrameIds, NEW d, NEW b,
         Fit(c, a, r), WrittenTo(c, a, Frame(n), d, b)
  PROVE  GrowsTo(a, b, n)
<1>1. Output(a) \in Seq(Bytes) /\ 0 \in 0..FrameLen /\ FrameLen \in 0..FrameLen
  <2>1. a.wire \in Seq(Bytes) /\ a.buffer \in Seq(Bytes)
    BY Zenon DEF Fit, Sane, AsyncioType
  <2>2. Output(a) \in Seq(Bytes)
    BY Zenon, <2>1, ConcatProperties DEF Output
  <2> QED BY <2>2, SizesAssumption
<1>2. CASE Output(b) = Output(a) /\ b.discarded
  <2>1. Extends(Output(a), Output(a), n, 0)
    <3>1. \A s \in Seq(Bytes) : Extends(s, s, n, 0)
      BY DEF Extends
    <3> QED BY Zenon, <1>1, <3>1
  <2> QED BY Zenon, <1>1, <1>2, <2>1 DEF GrowsTo
<1>3. CASE Output(b) = Output(a) \o Frame(n) /\ b.discarded = a.discarded
  <2>1. Frame(n) \in Seq(Bytes) /\ Len(Frame(n)) = FrameLen
    BY Zenon, FrameBytes
  <2>2. SubSeq(Frame(n), 1, FrameLen) = Frame(n)
    BY Zenon, <2>1, SubSeqFull
  <2>3. Extends(Output(a), Output(a) \o SubSeq(Frame(n), 1, FrameLen), n, FrameLen)
    BY Zenon, <1>1, ExtendsPart
  <2> QED BY Zenon, <1>1, <1>3, <2>2, <2>3 DEF GrowsTo
<1> QED BY Zenon, <1>2, <1>3 DEF WrittenTo

(* Clearing the cache is always right. *)
LEMMA Uncached ==
  ASSUME NEW c, NEW a, NEW r, Fit(c, a, r)
  PROVE  LET d == [c EXCEPT !.buf_known_empty = FALSE]
         IN Fit(d, a, r) /\ ~d.buf_known_empty /\ SameQueue(c, d) /\ d \in ClientType
BY Zenon DEF Fit, ClientType, SameQueue

(* What a way of sending frame n from (c, a) to (d, b) does. *)
Sends(c, a, n, d, b) == Fit(d, b, FALSE) /\ SameQueue(c, d) /\ GrowsTo(a, b, n)

(* encode and write through the transport. *)
LEMMA ThroughEffect ==
  ASSUME NEW p \in PairType, NEW n \in FrameIds, Fit(p.client, p.asyncio, FALSE),
         NEW s, s = ThroughTransport(p, Frame(n))
  PROVE  Sends(p.client, p.asyncio, n, s.client, s.asyncio)
<1> DEFINE q == [p EXCEPT !.client.buf_known_empty = FALSE]
<1>1. s = Write(q, Frame(n))
  BY Zenon DEF ThroughTransport
<1> DEFINE d == [p.client EXCEPT !.buf_known_empty = FALSE]
<1>2. q.client = d /\ q.asyncio = p.asyncio
  BY Zenon DEF PairType
<1>3. /\ Fit(q.client, q.asyncio, FALSE) /\ ~q.client.buf_known_empty
      /\ SameQueue(p.client, q.client) /\ q.client \in ClientType
  <2>1. Fit(d, p.asyncio, FALSE) /\ ~d.buf_known_empty /\ SameQueue(p.client, d) /\ d \in ClientType
    BY Zenon, Uncached
  <2> HIDE DEF d, q
  <2> QED BY Zenon, <1>2, <2>1
<1>4. q \in PairType
  BY Zenon, <1>2, <1>3 DEF PairType
<1> HIDE DEF q
<1>5. WrittenTo(q.client, q.asyncio, Frame(n), s.client, s.asyncio)
  BY Zenon, <1>1, <1>3, <1>4, WriteEffect, FrameBytes DEF Fit
<1>6. Fit(s.client, s.asyncio, FALSE) /\ SameQueue(q.client, s.client)
  BY Zenon, <1>3, <1>5, WriteFits
<1>7. GrowsTo(q.asyncio, s.asyncio, n)
  BY Zenon, <1>3, <1>5, WriteGrows
<1> QED BY Zenon, <1>2, <1>3, <1>6, <1>7 DEF Sends, SameQueue

(* native_send(): the socket takes a part, the transport gets the rest. *)
LEMMA NativeEffect ==
  ASSUME NEW p \in PairType, NEW n \in FrameIds, Fit(p.client, p.asyncio, FALSE),
         p.asyncio.buffer = <<>>, NEW s, s = NativeSend(p, Frame(n))
  PROVE  Sends(p.client, p.asyncio, n, s.client, s.asyncio)
<1> DEFINE f == Frame(n)
           m == Taken(p.asyncio, f)
           h == SubSeq(f, 1, m)
           t == SubSeq(f, m + 1, Len(f))
           a == p.asyncio
           b == OnWire(a, h)
           sent == [p EXCEPT !.client.buf_known_empty = TRUE, !.asyncio = b]
           q == [sent EXCEPT !.client.buf_known_empty = FALSE]
<1>1. /\ s = IF m = Len(f) THEN sent ELSE Write(q, t)
      /\ a \in AsyncioType /\ p.client \in ClientType
  BY Zenon DEF NativeSend, PairType
<1>2. f \in Seq(Bytes) /\ Len(f) = FrameLen
  BY Zenon, FrameBytes
<1> HIDE DEF f
<1>3. m \in 0..Len(f) /\ m <= a.room
  BY Zenon, <1>1, <1>2, TakenRange
<1> HIDE DEF m
<1>4. a.wire \in Seq(Bytes) /\ <<>> \in Seq(Bytes) /\ a.wire \o <<>> = a.wire
  <2>1. a.wire \in Seq(Bytes) /\ <<>> \in Seq(Bytes)
    BY <1>1 DEF AsyncioType
  <2> QED BY Zenon, <2>1, ConcatEmptySeq
<1>5. /\ h \in Seq(Bytes) /\ t \in Seq(Bytes) /\ Len(h) = m /\ a.wire \o h \in Seq(Bytes)
      /\ (a.wire \o h) \o (<<>> \o t) = (a.wire \o <<>>) \o f
  <2>1. CutAt(Bytes, a.wire, <<>>, f, m)
    BY Zenon, <1>2, <1>3, <1>4, CutAndJoin
  <2> QED BY Zenon, <2>1 DEF CutAt
<1>6. <<>> \o t = t /\ (a.wire \o h) \o <<>> = a.wire \o h
  BY Zenon, <1>5, ConcatEmptySeq
<1>7. Extends(a.wire, a.wire \o h, n, m) /\ m \in 0..FrameLen
  BY Zenon, <1>2, <1>3, <1>4, ExtendsPart DEF f
<1> HIDE DEF h, t
<1>8. /\ b \in AsyncioType /\ b.wire = a.wire \o h /\ b.buffer = <<>>
      /\ b.lost = a.lost /\ b.discarded = a.discarded /\ b.protocol_paused = a.protocol_paused
  <2>1. Len(h) <= a.room
    BY Zenon, <1>3, <1>5
  <2> QED BY Zenon, <1>1, <1>5, <2>1, OnWireEffect
<1>9. Output(a) = a.wire /\ Output(b) = a.wire \o h
  BY Zenon, <1>4, <1>6, <1>8 DEF Output
<1> HIDE DEF b
<1>10. /\ sent \in PairType /\ sent.client \in ClientType /\ sent.asyncio = b
       /\ SameQueue(p.client, sent.client) /\ sent.client.paused = p.client.paused
  BY Zenon, <1>1, <1>8 DEF PairType, ClientType, SameQueue
<1>11. Fit(sent.client, b, FALSE)
  BY Zenon, <1>8, <1>10 DEF Fit, Sane, SameQueue
<1> HIDE DEF sent
<1>12. CASE m = Len(f)
  <2>1. GrowsTo(a, b, n)
    BY Zenon, <1>2, <1>7, <1>8, <1>9, <1>12 DEF GrowsTo
  <2> QED BY Zenon, <1>1, <1>10, <1>11, <1>12, <2>1 DEF Sends
<1>13. CASE m # Len(f)
  <2> DEFINE d == [sent.client EXCEPT !.buf_known_empty = FALSE]
  <2>1. q.client = d /\ q.asyncio = b
    BY Zenon, <1>10 DEF PairType
  <2>2. Fit(d, b, FALSE) /\ ~d.buf_known_empty /\ SameQueue(sent.client, d) /\ d \in ClientType
    BY Zenon, <1>11, Uncached
  <2>3. q \in PairType
    <3> HIDE DEF d
    <3> QED BY Zenon, <1>8, <1>10, <2>1, <2>2 DEF PairType
  <2> HIDE DEF d, q
  <2>4. WrittenTo(d, b, t, s.client, s.asyncio)
    BY Zenon, <1>1, <1>5, <1>13, <2>1, <2>2, <2>3, WriteEffect DEF Fit
  <2>5. Fit(s.client, s.asyncio, FALSE) /\ SameQueue(d, s.client)
    BY Zenon, <2>2, <2>4, WriteFits
  <2>6. GrowsTo(a, s.asyncio, n)
    <3>1. CASE Output(s.asyncio) = Output(b) /\ s.asyncio.discarded
      BY Zenon, <1>7, <1>9, <3>1 DEF GrowsTo
    <3>2. CASE Output(s.asyncio) = Output(b) \o t /\ s.asyncio.discarded = b.discarded
      <4>1. Output(s.asyncio) = a.wire \o f
        BY Zenon, <1>4, <1>5, <1>6, <1>9, <3>2
      <4>2. SubSeq(f, 1, FrameLen) = f
        BY Zenon, <1>2, SubSeqFull
      <4>3. FrameLen \in 0..FrameLen
        BY SizesAssumption
      <4>4. Extends(a.wire, a.wire \o SubSeq(Frame(n), 1, FrameLen), n, FrameLen)
        BY Zenon, <1>4, <4>3, ExtendsPart
      <4> QED BY Zenon, <1>8, <1>9, <3>2, <4>1, <4>2, <4>3, <4>4 DEF GrowsTo, f
    <3> QED BY Zenon, <2>4, <3>1, <3>2 DEF WrittenTo
  <2> QED BY Zenon, <1>10, <2>2, <2>5, <2>6 DEF Sends, SameQueue
<1> QED BY Zenon, <1>12, <1>13

(* transport.close() and the end of a closing transport keep the stream. *)
LEMMA ClosedFits ==
  ASSUME NEW c, NEW a, NEW r, Fit(c, a, r)
  PROVE  /\ Fit(c, Closed(a), r) /\ Output(Closed(a)) = Output(a)
         /\ Closed(a).discarded = a.discarded
<1>1. (a.lost \/ a.buffer = <<>>) \in BOOLEAN
  BY Zenon
<1>2. /\ Closed(a) \in AsyncioType /\ Closed(a).wire = a.wire /\ Closed(a).buffer = a.buffer
      /\ Closed(a).discarded = a.discarded /\ Closed(a).protocol_paused = a.protocol_paused
      /\ Closed(a).lost = (a.lost \/ a.buffer = <<>>)
  BY Zenon, <1>1 DEF Closed, Fit, Sane, AsyncioType
<1> QED BY Zenon, <1>2 DEF Fit, Sane, Output

(* release_references(): nothing waits any more. *)
LEMMA ReleasedFits ==
  ASSUME NEW c, NEW a, NEW r, Fit(c, a, r)
  PROVE  /\ Fit(release_references(c), a, r)
         /\ release_references(c).closed /\ release_references(c).write_queue = <<>>
<1>1. <<>> \in Seq(FrameIds)
  OBVIOUS
<1>2. /\ release_references(c) \in ClientType /\ release_references(c).closed = TRUE
      /\ release_references(c).write_queue = <<>>
      /\ release_references(c).buf_known_empty = c.buf_known_empty
  BY Zenon, <1>1 DEF release_references, Fit, ClientType
<1> QED BY Zenon, <1>2 DEF Fit

(* The write-ready callback's end: a closing transport that is empty is     *)
(* lost, and connection_lost() releases the client.                         *)
LEMMA FinishFits ==
  ASSUME NEW p \in PairType, Fit(p.client, p.asyncio, FALSE), NEW s, s = Finish(p)
  PROVE  /\ Fit(s.client, s.asyncio, FALSE) /\ Output(s.asyncio) = Output(p.asyncio)
         /\ s.asyncio.discarded = p.asyncio.discarded
         /\ \/ SameQueue(p.client, s.client)
            \/ s.client.closed /\ s.client.write_queue = <<>>
<1>1. CASE p.asyncio.closing /\ p.asyncio.buffer = <<>>
  <2> DEFINE d == release_references(p.client)
             b == [p.asyncio EXCEPT !.lost = TRUE]
  <2>1. s.client = d /\ s.asyncio = b
    <3> HIDE DEF d, b
    <3>1. s = [client |-> d, asyncio |-> b]
      BY Zenon, <1>1 DEF Finish, d, b
    <3> QED BY <3>1
  <2>2. /\ b \in AsyncioType /\ b.wire = p.asyncio.wire /\ b.buffer = p.asyncio.buffer
        /\ b.discarded = p.asyncio.discarded /\ b.protocol_paused = p.asyncio.protocol_paused
    BY Zenon DEF Fit, Sane, AsyncioType
  <2>3. Fit(d, p.asyncio, FALSE) /\ d.closed /\ d.write_queue = <<>>
    BY Zenon, ReleasedFits
  <2> HIDE DEF d, b
  <2>4. Fit(d, b, FALSE)
    BY Zenon, <1>1, <2>2, <2>3 DEF Fit, Sane
  <2> QED BY Zenon, <2>1, <2>2, <2>3, <2>4 DEF Output
<1>2. CASE ~(p.asyncio.closing /\ p.asyncio.buffer = <<>>)
  BY Zenon, <1>2 DEF Finish, SameQueue
<1> QED BY Zenon, <1>1, <1>2

(* The stream is cut at its end or, when nothing was thrown away, stays. *)
Shorter(a, b) ==
  /\ Len(Output(b)) <= Len(Output(a)) /\ \A i \in 1..Len(Output(b)) : Output(b)[i] = Output(a)[i]
  /\ ~b.discarded => ~a.discarded /\ Output(b) = Output(a)

(* The stream stays. *)
LEMMA SameOutput ==
  ASSUME NEW c, NEW a, NEW r, Fit(c, a, r), NEW b, Output(b) = Output(a), b.discarded = a.discarded
  PROVE  Shorter(a, b)
<1>1. a.wire \in Seq(Bytes) /\ a.buffer \in Seq(Bytes)
  BY Zenon DEF Fit, Sane, AsyncioType
<1>2. Output(a) \in Seq(Bytes)
  BY Zenon, <1>1, ConcatProperties DEF Output
<1>3. Len(Output(a)) <= Len(Output(a))
  BY <1>2, LenProperties
<1> QED BY Zenon, <1>3 DEF Shorter

(* _force_close(): the stream keeps what the socket has. *)
LEMMA ForceClosedFits ==
  ASSUME NEW c, NEW a, NEW r, Fit(c, a, r)
  PROVE  Fit(c, ForceClosed(a), r) /\ Shorter(a, ForceClosed(a))
<1> DEFINE b == ForceClosed(a)
<1>1. a.wire \in Seq(Bytes) /\ a.buffer \in Seq(Bytes) /\ <<>> \in Seq(Bytes)
  <2>1. a.wire \in Seq(Bytes) /\ a.buffer \in Seq(Bytes)
    BY Zenon DEF Fit, Sane, AsyncioType
  <2> QED BY <2>1
<1>2. (a.discarded \/ a.buffer # <<>>) \in BOOLEAN
  BY Zenon
<1>3. /\ b \in AsyncioType /\ b.wire = a.wire /\ b.buffer = <<>>
      /\ b.protocol_paused = a.protocol_paused /\ b.discarded = (a.discarded \/ a.buffer # <<>>)
  BY Zenon, <1>1, <1>2 DEF ForceClosed, Fit, Sane, AsyncioType
<1> HIDE DEF b
<1>4. Fit(c, b, r)
  BY Zenon, <1>3 DEF Fit, Sane
<1>5. Output(b) = a.wire
  BY Zenon, <1>1, <1>3, ConcatEmptySeq DEF Output
<1>6. \A w, x \in Seq(Bytes) : Len(w) <= Len(w \o x) /\ \A i \in 1..Len(w) : w[i] = (w \o x)[i]
  OBVIOUS
<1>7. ~b.discarded => ~a.discarded /\ Output(b) = Output(a)
  BY Zenon, <1>1, <1>3, <1>5, ConcatEmptySeq DEF Output
<1>8. Len(a.wire) <= Len(Output(a)) /\ \A i \in 1..Len(a.wire) : a.wire[i] = Output(a)[i]
  BY Zenon, <1>1, <1>6 DEF Output
<1>9. Shorter(a, b)
  BY Zenon, <1>5, <1>7, <1>8 DEF Shorter
<1> QED BY Zenon, <1>4, <1>9 DEF b

-----------------------------------------------------------------------------
(* One lemma per action.                                                    *)

(* What every action starts from. *)
LEMMA Before ==
  ASSUME SInv
  PROVE  /\ Fit(client, asyncio, resuming) /\ State
         /\ Pair \in PairType /\ Pair.client = client /\ Pair.asyncio = asyncio
<1>1. Fit(client, asyncio, resuming) /\ State
  BY Zenon DEF SInv, State
<1>2. client \in ClientType /\ asyncio \in AsyncioType
  BY Zenon, <1>1 DEF Fit, Sane
<1> QED BY Zenon, <1>1, <1>2 DEF Pair, PairType

(* A frame is submitted. *)
LEMMA SubmitKinds ==
  ASSUME State, NEW x \in Kinds
  PROVE  /\ Append(kinds, x) \in Seq(Kinds) /\ Len(Append(kinds, x)) = Len(kinds) + 1
         /\ Len(kinds) < MaxFrames => Len(Append(kinds, x)) <= MaxFrames /\ Len(Append(kinds, x)) <= MaxFrames + 1
         /\ ~client.closed => Len(Append(kinds, x)) <= MaxFrames + 1
<1>1. kinds \in Seq(Kinds) /\ (~client.closed => Len(kinds) <= MaxFrames)
  BY Zenon DEF State
<1>2. \A k \in Seq(Kinds) : Append(k, x) \in Seq(Kinds) /\ Len(Append(k, x)) = Len(k) + 1 /\ Len(k) \in Nat
  OBVIOUS
<1>3. /\ Append(kinds, x) \in Seq(Kinds) /\ Len(Append(kinds, x)) = Len(kinds) + 1 /\ Len(kinds) \in Nat
  BY Zenon, <1>1, <1>2
<1> QED BY <1>1, <1>3, SizesAssumption

(* A handler that submits a frame and sends it. *)
LEMMA SendsKeeps ==
  ASSUME SInv, ~resuming, UNCHANGED <<resuming, queue>>, ~client.closed,
         NEW x \in Kinds, Submit(x), x = "data" => client.write_queue = <<>>,
         Sends(client, asyncio, NewFrame, client', asyncio')
  PROVE  SInv'
<1>1. State /\ queue = <<>> /\ kinds' = Append(kinds, x) /\ Len(kinds) < MaxFrames
  BY Zenon, Before DEF State, Submit
<1>2. Fit(client', asyncio', FALSE) /\ SameQueue(client, client') /\ GrowsTo(asyncio, asyncio', NewFrame)
  BY Zenon DEF Sends
<1>3. Fit(client', asyncio', resuming')
  BY Zenon, <1>2 DEF Fit
<1>4. State'
  BY Zenon, <1>1, <1>3, SubmitKinds DEF State
<1>5. Waiting' = Waiting /\ (x = "data" => Waiting = <<>>)
  <2>1. Waiting' = Waiting
    BY Zenon, <1>2 DEF Waiting, SameQueue
  <2>2. <<>> \o <<>> = <<>>
    OBVIOUS
  <2> QED BY Zenon, <1>1, <2>1, <2>2 DEF Waiting
<1>6. Grows(NewFrame)
  BY Zenon, <1>2 DEF Grows, GrowsTo, Stream, Output
<1>7. Adds(x)
  BY Zenon, <1>1, <1>5, <1>6 DEF Adds, Kept
<1> QED BY Zenon, <1>4, <1>7, AddsKeeps

(* send(). *)
LEMMA SendStep ==
  ASSUME SInv, ~resuming, UNCHANGED <<resuming, queue>>, Send
  PROVE  SInv'
<1>1. /\ Fit(client, asyncio, FALSE) /\ State /\ queue = <<>> /\ ~client.closed
      /\ Pair \in PairType /\ Pair.client = client /\ Pair.asyncio = asyncio
      /\ NewFrame \in FrameIds /\ "data" \in Kinds
  BY Zenon, Before, NewFrameId DEF State, Fit, Send, Kinds
<1>2. CASE client.paused
  <2>1. /\ client' = [client EXCEPT !.write_queue = Append(@, NewFrame)] /\ asyncio' = asyncio
        /\ kinds' = Append(kinds, "data") /\ Len(kinds) < MaxFrames
    BY Zenon, <1>2 DEF Send, Submit
  <2>2. Append(client.write_queue, NewFrame) \in Seq(FrameIds)
    BY Zenon, <1>1, AppendProperties DEF Fit, ClientType
  <2>3. /\ client' \in ClientType /\ client'.closed = client.closed
        /\ client'.paused = client.paused /\ client'.buf_known_empty = client.buf_known_empty
        /\ client'.write_queue = Append(client.write_queue, NewFrame)
    BY Zenon, <1>1, <2>1, <2>2 DEF Fit, ClientType
  <2>4. Fit(client', asyncio', resuming')
    BY Zenon, <1>1, <1>2, <2>1, <2>3 DEF Fit
  <2>5. State'
    BY Zenon, <1>1, <2>1, <2>4, SubmitKinds DEF State
  <2>6. Waiting' = Append(Waiting, NewFrame)
    <3>1. client.write_queue \in Seq(FrameIds)
      BY Zenon, <1>1 DEF Fit, ClientType
    <3>2. <<>> \o client.write_queue = client.write_queue
      BY Zenon, <3>1, ConcatEmptySeq
    <3>3. <<>> \o Append(client.write_queue, NewFrame) = Append(client.write_queue, NewFrame)
      BY Zenon, <2>2, ConcatEmptySeq
    <3> QED BY Zenon, <1>1, <2>3, <3>2, <3>3 DEF Waiting
  <2>7. Queues
    BY Zenon, <1>1, <2>1, <2>3, <2>6 DEF Queues, Stream
  <2> QED BY Zenon, <2>5, <2>7, QueuesKeeps
<1>3. CASE ~client.paused
  <2>1. Submit("data") /\ client.write_queue = <<>>
    BY Zenon, <1>1, <1>3 DEF Send, Fit
  <2>2. Sends(client, asyncio, NewFrame, client', asyncio')
    <3>1. CASE client.raw_fd /\ Drained(Pair)
      <4> DEFINE s == NativeSend(Pair, Frame(NewFrame))
      <4>1. client' = s.client /\ asyncio' = s.asyncio
        BY Zenon, <1>3, <3>1 DEF Send, Becomes
      <4>2. asyncio.buffer = <<>>
        BY Zenon, <1>1, <3>1 DEF Drained, Fit
      <4>3. Sends(client, asyncio, NewFrame, s.client, s.asyncio)
        BY Zenon, <1>1, <4>2, NativeEffect
      <4> QED BY Zenon, <4>1, <4>3
    <3>2. CASE ~(client.raw_fd /\ Drained(Pair))
      <4> DEFINE s == ThroughTransport(Pair, Frame(NewFrame))
      <4>1. client' = s.client /\ asyncio' = s.asyncio
        BY Zenon, <1>3, <3>2 DEF Send, Becomes
      <4>2. Sends(client, asyncio, NewFrame, s.client, s.asyncio)
        BY Zenon, <1>1, ThroughEffect
      <4> QED BY Zenon, <4>1, <4>2
    <3> QED BY Zenon, <3>1, <3>2
  <2> QED BY Zenon, <1>1, <2>1, <2>2, SendsKeeps
<1> QED BY Zenon, <1>2, <1>3

(* ping(), pong() and the automatic Pong. *)
LEMMA SendControlStep ==
  ASSUME SInv, ~resuming, UNCHANGED <<resuming, queue>>, SendControl
  PROVE  SInv'
<1>1. /\ Fit(client, asyncio, FALSE) /\ State /\ ~client.closed
      /\ Pair \in PairType /\ Pair.client = client /\ Pair.asyncio = asyncio
      /\ NewFrame \in FrameIds /\ "control" \in Kinds
  BY Zenon, Before, NewFrameId DEF Fit, SendControl, Kinds
<1> DEFINE s == ThroughTransport(Pair, Frame(NewFrame))
<1>2. client' = s.client /\ asyncio' = s.asyncio /\ Submit("control")
  BY Zenon DEF SendControl, Becomes
<1>3. Sends(client, asyncio, NewFrame, s.client, s.asyncio)
  BY Zenon, <1>1, ThroughEffect
<1> HIDE DEF s
<1>4. "control" # "data"
  OBVIOUS
<1> QED BY Zenon, <1>1, <1>2, <1>3, <1>4, SendsKeeps

(* A step that adds nothing to the stream. *)
LEMMA ShorterKeeps ==
  ASSUME SInv, kinds' = kinds, Fit(client', asyncio', resuming'), Shorter(asyncio, asyncio'),
         resuming' \in BOOLEAN, queue' \in Seq(FrameIds), ~resuming' => queue' = <<>>,
         client.closed => client'.closed, Kept
  PROVE  SInv'
<1>1. State'
  BY Zenon DEF SInv, State
<1>2. Rests
  BY Zenon DEF Rests, Shorter, Stream, Output
<1> QED BY Zenon, <1>1, <1>2, RestsKeeps

(* A step of the transport or the peer: the client stays as it is. *)
LEMMA TransportKeeps ==
  ASSUME SInv, UNCHANGED <<client, kinds, resuming, queue>>,
         Fit(client, asyncio', resuming), Shorter(asyncio, asyncio')
  PROVE  SInv'
<1>1. Kept
  BY Zenon DEF Kept, Waiting
<1>2. State
  BY Zenon DEF SInv
<1> QED BY Zenon, <1>1, <1>2, ShorterKeeps DEF State

(* A step that releases the client while resume_writing() is not active. *)
LEMMA ReleaseKeeps ==
  ASSUME SInv, ~resuming, UNCHANGED <<kinds, resuming, queue>>,
         Fit(client', asyncio', FALSE), Shorter(asyncio, asyncio'),
         client'.closed, client'.write_queue = <<>>
  PROVE  SInv'
<1>1. State /\ queue = <<>>
  BY Zenon DEF SInv, State
<1>2. Waiting' = <<>>
  <2>1. <<>> \o <<>> = <<>>
    OBVIOUS
  <2> QED BY Zenon, <1>1, <2>1 DEF Waiting
<1>3. Fit(client', asyncio', resuming')
  BY Zenon DEF Fit
<1> QED BY Zenon, <1>1, <1>2, <1>3, ShorterKeeps DEF State, Kept

(* close(). *)
LEMMA CloseStep ==
  ASSUME SInv, ~resuming, UNCHANGED <<resuming, queue>>, Close
  PROVE  SInv'
<1> DEFINE p == [Pair EXCEPT !.client = release_references(@)]
           s == Write(p, Frame(NewFrame))
           t == [s EXCEPT !.asyncio = Closed(@)]
           e == release_references(client)
<1>1. /\ Fit(client, asyncio, FALSE) /\ State /\ queue = <<>> /\ ~client.closed
      /\ Pair \in PairType /\ Pair.client = client /\ Pair.asyncio = asyncio
      /\ NewFrame \in FrameIds /\ "close" \in Kinds
  BY Zenon, Before, NewFrameId DEF State, Fit, Close, Kinds
<1>2. client' = t.client /\ asyncio' = t.asyncio /\ kinds' = Append(kinds, "close")
  BY Zenon DEF Close, Becomes
<1>3. Fit(e, asyncio, FALSE) /\ e.closed /\ e.write_queue = <<>> /\ e \in ClientType
  BY Zenon, <1>1, ReleasedFits DEF Fit
<1> HIDE DEF e
<1>4. p \in PairType /\ p.client = e /\ p.asyncio = asyncio
  BY Zenon, <1>1, <1>3 DEF PairType, e
<1> HIDE DEF p
<1>5. s \in PairType /\ WrittenTo(e, asyncio, Frame(NewFrame), s.client, s.asyncio)
  BY Zenon, <1>1, <1>4, WriteEffect, FrameBytes DEF Fit
<1> HIDE DEF s
<1>6. /\ Fit(s.client, s.asyncio, FALSE) /\ SameQueue(e, s.client)
  <2>1. CASE s.client = e
    BY Zenon, <1>3, <1>5, <2>1 DEF Fit, SameQueue, WrittenTo
  <2>2. CASE s.client = pause_writing(e)
    <3>1. /\ s.client \in ClientType /\ s.client.write_queue = e.write_queue
          /\ s.client.closed = e.closed
      BY Zenon, <1>3, <2>2 DEF pause_writing, ClientType
    <3> QED BY Zenon, <1>3, <1>5, <3>1 DEF Fit, SameQueue, WrittenTo
  <2> QED BY Zenon, <1>5, <2>1, <2>2 DEF WrittenTo
<1>7. GrowsTo(asyncio, s.asyncio, NewFrame)
  BY Zenon, <1>1, <1>3, <1>5, WriteGrows
<1>8. t.client = s.client /\ t.asyncio = Closed(s.asyncio)
  BY Zenon, <1>5 DEF PairType
<1> HIDE DEF t
<1>9. /\ Fit(s.client, Closed(s.asyncio), FALSE) /\ Output(Closed(s.asyncio)) = Output(s.asyncio)
      /\ Closed(s.asyncio).discarded = s.asyncio.discarded
  BY Zenon, <1>6, ClosedFits
<1>10. Fit(client', asyncio', resuming') /\ client'.closed /\ client'.write_queue = <<>>
  BY Zenon, <1>2, <1>3, <1>6, <1>8, <1>9 DEF Fit, SameQueue
<1>11. State'
  BY Zenon, <1>1, <1>2, <1>10, SubmitKinds DEF State
<1>12. Waiting' = <<>>
  <2>1. <<>> \o <<>> = <<>>
    OBVIOUS
  <2> QED BY Zenon, <1>1, <1>10, <2>1 DEF Waiting
<1>13. GrowsTo(asyncio, asyncio', NewFrame)
  BY Zenon, <1>2, <1>7, <1>8, <1>9 DEF GrowsTo
<1>14. Grows(NewFrame)
  BY Zenon, <1>13 DEF Grows, GrowsTo, Stream, Output
<1>15. "close" # "data"
  OBVIOUS
<1>16. Adds("close")
  BY Zenon, <1>1, <1>2, <1>10, <1>12, <1>14, <1>15 DEF Adds, Kept
<1> QED BY Zenon, <1>1, <1>11, <1>16, AddsKeeps

(* The peer's Close frame, and connection_lost(). *)
LEMMA ReleaseStep ==
  ASSUME SInv, ~resuming, UNCHANGED <<resuming, queue>>, PeerClose \/ connection_lost
  PROVE  SInv'
<1>1. Fit(client, asyncio, FALSE)
  BY Zenon, Before DEF Fit
<1>2. /\ Fit(release_references(client), asyncio, FALSE)
      /\ release_references(client).closed /\ release_references(client).write_queue = <<>>
  BY Zenon, <1>1, ReleasedFits
<1>3. client' = release_references(client) /\ kinds' = kinds
  BY Zenon DEF PeerClose, connection_lost
<1>4. /\ Fit(release_references(client), asyncio', FALSE) /\ Output(asyncio') = Output(asyncio)
      /\ asyncio'.discarded = asyncio.discarded
  BY Zenon, <1>2, ClosedFits DEF PeerClose, connection_lost
<1>5. Shorter(asyncio, asyncio')
  BY Zenon, <1>1, <1>4, SameOutput
<1> QED BY Zenon, <1>2, <1>3, <1>4, <1>5, ReleaseKeeps

(* The transport closes or fails. *)
LEMMA TransportStep ==
  ASSUME SInv, ~resuming, UNCHANGED <<resuming, queue>>, WriteReadyFails \/ PeerEof \/ FatalError
  PROVE  SInv'
<1>1. Fit(client, asyncio, resuming)
  BY Zenon, Before
<1>2. Fit(client, ForceClosed(asyncio), resuming) /\ Shorter(asyncio, ForceClosed(asyncio))
  BY Zenon, <1>1, ForceClosedFits
<1>3. Fit(client, Closed(asyncio), resuming) /\ Shorter(asyncio, Closed(asyncio))
  BY Zenon, <1>1, ClosedFits, SameOutput
<1>4. UNCHANGED <<client, kinds>> /\ asyncio' \in {ForceClosed(asyncio), Closed(asyncio)}
  BY Zenon DEF WriteReadyFails, PeerEof, FatalError
<1> QED BY Zenon, <1>2, <1>3, <1>4, TransportKeeps

(* The peer reads or resets the connection. *)
LEMMA PeerStep ==
  ASSUME SInv, UNCHANGED <<resuming, queue>>, PeerReads \/ PeerReset
  PROVE  SInv'
<1>1. Fit(client, asyncio, resuming) /\ asyncio \in AsyncioType
  BY Zenon, Before DEF Fit, Sane
<1>2. asyncio.room < MaxRoom => asyncio.room + 1 \in 0..MaxRoom
  <2>1. asyncio.room \in 0..MaxRoom
    BY Zenon, <1>1 DEF AsyncioType
  <2> QED BY <2>1, SizesAssumption
<1>3. /\ asyncio' \in AsyncioType /\ UNCHANGED <<client, kinds>>
      /\ asyncio'.wire = asyncio.wire /\ asyncio'.buffer = asyncio.buffer
      /\ asyncio'.lost = asyncio.lost /\ asyncio'.discarded = asyncio.discarded
      /\ asyncio'.protocol_paused = asyncio.protocol_paused
  BY Zenon, <1>1, <1>2 DEF PeerReads, PeerReset, AsyncioType
<1>4. Fit(client, asyncio', resuming)
  BY Zenon, <1>1, <1>3 DEF Fit, Sane
<1>5. Shorter(asyncio, asyncio')
  BY Zenon, <1>1, <1>3, SameOutput DEF Output
<1> QED BY Zenon, <1>3, <1>4, <1>5, TransportKeeps

(* resume_writing(): unpaused, the cache cleared, nothing in write_queue. *)
LEMMA ResumedClient ==
  ASSUME NEW c \in ClientType, c.closed => c.write_queue = <<>>
  PROVE  LET d == resume_writing(c)
         IN /\ d \in ClientType /\ d.closed = c.closed /\ d.paused = FALSE
            /\ ~d.buf_known_empty /\ d.write_queue = <<>>
<1>1. <<>> \in Seq(FrameIds)
  OBVIOUS
<1> DEFINE u == [c EXCEPT !.paused = FALSE, !.buf_known_empty = FALSE]
<1>2. /\ u \in ClientType /\ u.closed = c.closed /\ u.paused = FALSE
      /\ ~u.buf_known_empty /\ u.write_queue = c.write_queue
  BY Zenon DEF ClientType
<1> HIDE DEF u
<1>3. CASE c.closed
  BY Zenon, <1>2, <1>3 DEF resume_writing, u
<1>4. CASE ~c.closed
  <2>1. resume_writing(c) = [u EXCEPT !.write_queue = <<>>]
    BY Zenon, <1>4 DEF resume_writing, u
  <2> QED BY Zenon, <1>1, <1>2, <2>1 DEF ClientType
<1> QED BY Zenon, <1>3, <1>4

(* The socket takes n bytes of the transport's buffer. *)
Drain(a, n) == [OnWire(a, SubSeq(a.buffer, 1, n)) EXCEPT !.buffer = SubSeq(@, n + 1, Len(@))]

(* The stream stays. *)
LEMMA DrainEffect ==
  ASSUME NEW a \in AsyncioType, NEW n \in 1..Min({a.room, Len(a.buffer)})
  PROVE  /\ Drain(a, n) \in AsyncioType /\ Output(Drain(a, n)) = Output(a)
         /\ Drain(a, n).lost = a.lost /\ Drain(a, n).discarded = a.discarded
         /\ Drain(a, n).protocol_paused = a.protocol_paused
<1> DEFINE h == SubSeq(a.buffer, 1, n)
           t == SubSeq(a.buffer, n + 1, Len(a.buffer))
           b == [OnWire(a, h) EXCEPT !.buffer = SubSeq(@, n + 1, Len(@))]
<1>1. a.wire \in Seq(Bytes) /\ a.buffer \in Seq(Bytes) /\ a.room \in Int
  BY SizesAssumption DEF AsyncioType
<1>2. Len(a.buffer) \in Nat /\ Len(a.buffer) \in Int /\ <<>> \in Seq(Bytes)
  BY <1>1, LenProperties
<1>3. n \in 0..Len(a.buffer) /\ n <= a.room
  <2>1. /\ Min({a.room, Len(a.buffer)}) \in {a.room, Len(a.buffer)}
        /\ Min({a.room, Len(a.buffer)}) <= a.room /\ Min({a.room, Len(a.buffer)}) <= Len(a.buffer)
    BY Zenon, <1>1, <1>2, MinPair
  <2>2. PICK m : m = Min({a.room, Len(a.buffer)})
    BY Zenon
  <2>3. m \in Int /\ m <= a.room /\ m <= Len(a.buffer) /\ n \in 1..m
    BY Zenon, <1>1, <1>2, <2>1, <2>2
  <2> QED BY <1>1, <1>2, <2>3
<1>4. /\ h \in Seq(Bytes) /\ t \in Seq(Bytes) /\ Len(h) = n
      /\ (a.wire \o h) \o (<<>> \o t) = (a.wire \o <<>>) \o a.buffer
  <2>1. CutAt(Bytes, a.wire, <<>>, a.buffer, n)
    BY Zenon, <1>1, <1>2, <1>3, CutAndJoin
  <2> QED BY Zenon, <2>1 DEF CutAt
<1>5. <<>> \o t = t /\ a.wire \o <<>> = a.wire
  BY Zenon, <1>1, <1>4, ConcatEmptySeq
<1> HIDE DEF h
<1>6. /\ OnWire(a, h) \in AsyncioType
      /\ OnWire(a, h).wire = a.wire \o h /\ OnWire(a, h).buffer = a.buffer
      /\ OnWire(a, h).lost = a.lost /\ OnWire(a, h).discarded = a.discarded
      /\ OnWire(a, h).protocol_paused = a.protocol_paused
  <2>1. Len(h) <= a.room
    BY Zenon, <1>3, <1>4
  <2> QED BY Zenon, <1>4, <2>1, OnWireEffect
<1>7. b = [OnWire(a, h) EXCEPT !.buffer = t]
  BY Zenon, <1>6
<1> HIDE DEF t
<1>8. /\ b \in AsyncioType /\ b.wire = a.wire \o h /\ b.buffer = t
      /\ b.lost = a.lost /\ b.discarded = a.discarded /\ b.protocol_paused = a.protocol_paused
  <2> HIDE DEF b
  <2> QED BY Zenon, <1>4, <1>6, <1>7 DEF AsyncioType
<1>9. Output(b) = Output(a)
  <2> HIDE DEF b
  <2> QED BY Zenon, <1>4, <1>5, <1>8 DEF Output
<1> QED BY Zenon, <1>8, <1>9 DEF h, Drain

(* The write-ready callback. *)
LEMMA WriteReadyStep ==
  ASSUME SInv, ~resuming, NEW n, WriteReady(n)
  PROVE  SInv'
<1> DEFINE a == Drain(asyncio, n)
           p == [Pair EXCEPT !.asyncio = a]
<1>1. /\ Fit(client, asyncio, FALSE) /\ State /\ queue = <<>>
      /\ Pair \in PairType /\ Pair.client = client /\ Pair.asyncio = asyncio
      /\ client \in ClientType /\ asyncio \in AsyncioType
  BY Zenon, Before DEF State, Fit, Sane
<1>2. /\ n \in 1..Min({asyncio.room, Len(asyncio.buffer)}) /\ kinds' = kinds
      /\ asyncio.buffer # <<>> /\ ~asyncio.lost
  BY Zenon DEF WriteReady
<1>3. /\ Resumes(a) => /\ asyncio' = [a EXCEPT !.protocol_paused = FALSE]
                       /\ client' = resume_writing(client)
                       /\ queue' = client.write_queue /\ resuming' = TRUE
      /\ ~Resumes(a) => Becomes(Finish(p)) /\ UNCHANGED <<queue, resuming>>
  BY Zenon DEF WriteReady, Drain
<1>4. /\ a \in AsyncioType /\ Output(a) = Output(asyncio) /\ a.lost = asyncio.lost
      /\ a.discarded = asyncio.discarded /\ a.protocol_paused = asyncio.protocol_paused
  BY Zenon, <1>1, <1>2, DrainEffect
<1> HIDE DEF a
<1>5. Fit(client, a, FALSE)
  BY Zenon, <1>1, <1>2, <1>4 DEF Fit, Sane
<1>6. CASE Resumes(a)
  <2> DEFINE d == resume_writing(client)
  <2>1. /\ d \in ClientType /\ d.closed = client.closed /\ d.paused = FALSE
        /\ ~d.buf_known_empty /\ d.write_queue = <<>>
    BY Zenon, <1>1, ResumedClient DEF Fit
  <2> HIDE DEF d
  <2>2. /\ asyncio' \in AsyncioType /\ asyncio'.wire = a.wire /\ asyncio'.buffer = a.buffer
        /\ asyncio'.lost = a.lost /\ asyncio'.discarded = a.discarded
        /\ asyncio'.protocol_paused = FALSE /\ client' = d
        /\ queue' = client.write_queue /\ resuming' = TRUE
    BY Zenon, <1>3, <1>4, <1>6 DEF AsyncioType, d
  <2>3. Fit(client', asyncio', resuming')
    BY Zenon, <1>2, <1>4, <2>1, <2>2 DEF Fit, Sane
  <2>4. Shorter(asyncio, asyncio')
    BY Zenon, <1>1, <1>4, <2>2, SameOutput DEF Output
  <2>5. Kept
    <3>1. client.write_queue \in Seq(FrameIds)
      BY Zenon, <1>1 DEF ClientType
    <3>2. <<>> \o client.write_queue = client.write_queue /\ client.write_queue \o <<>> = client.write_queue
      BY Zenon, <3>1, ConcatEmptySeq
    <3> QED BY Zenon, <1>1, <2>1, <2>2, <3>2 DEF Kept, Waiting
  <2>6. queue' \in Seq(FrameIds)
    BY Zenon, <1>1, <2>2 DEF ClientType
  <2> QED BY Zenon, <1>2, <2>1, <2>2, <2>3, <2>4, <2>5, <2>6, ShorterKeeps
<1>7. CASE ~Resumes(a)
  <2>1. p \in PairType /\ p.client = client /\ p.asyncio = a
    BY Zenon, <1>1, <1>4 DEF PairType
  <2> HIDE DEF p
  <2>2. client' = Finish(p).client /\ asyncio' = Finish(p).asyncio /\ UNCHANGED <<queue, resuming>>
    BY Zenon, <1>3, <1>7 DEF Becomes
  <2>3. /\ Fit(client', asyncio', FALSE) /\ Output(asyncio') = Output(a)
        /\ asyncio'.discarded = a.discarded
        /\ \/ SameQueue(client, client')
           \/ client'.closed /\ client'.write_queue = <<>>
    BY Zenon, <1>5, <2>1, <2>2, FinishFits
  <2>4. Shorter(asyncio, asyncio')
    BY Zenon, <1>1, <1>4, <2>3, SameOutput
  <2>5. CASE SameQueue(client, client')
    <3>1. Kept
      BY Zenon, <2>2, <2>5 DEF Kept, Waiting, SameQueue
    <3>2. Fit(client', asyncio', resuming')
      BY Zenon, <2>2, <2>3 DEF Fit
    <3> QED BY Zenon, <1>1, <1>2, <2>2, <2>4, <2>5, <3>1, <3>2, ShorterKeeps DEF SameQueue, State
  <2>6. CASE client'.closed /\ client'.write_queue = <<>>
    BY Zenon, <1>2, <2>2, <2>3, <2>4, <2>6, ReleaseKeeps
  <2> QED BY Zenon, <2>3, <2>5, <2>6
<1> QED BY Zenon, <1>6, <1>7

(* One frame of resume_writing()'s loop. *)
LEMMA ResumeWriteStep ==
  ASSUME SInv, ResumeWrite
  PROVE  SInv'
<1>1. /\ Fit(client, asyncio, TRUE) /\ State /\ resuming = TRUE
      /\ Pair \in PairType /\ Pair.client = client /\ Pair.asyncio = asyncio
  BY Zenon, Before DEF State, ResumeWrite
<1>2. /\ ~client.buf_known_empty /\ client.write_queue = <<>> /\ queue \in Seq(FrameIds) /\ queue # <<>>
      /\ queue' = Tail(queue) /\ resuming' = TRUE /\ kinds' = kinds
  BY Zenon, <1>1 DEF Fit, State, ResumeWrite
<1>3. Head(queue) \in FrameIds /\ Tail(queue) \in Seq(FrameIds)
  BY Zenon, <1>2, HeadTailProperties
<1> DEFINE s == Write(Pair, Frame(Head(queue)))
<1>4. client' = s.client /\ asyncio' = s.asyncio
  BY Zenon DEF ResumeWrite, Becomes
<1>5. WrittenTo(client, asyncio, Frame(Head(queue)), s.client, s.asyncio)
  BY Zenon, <1>1, <1>3, WriteEffect, FrameBytes DEF Fit
<1> HIDE DEF s
<1>6. Fit(client', asyncio', TRUE) /\ SameQueue(client, client')
  BY Zenon, <1>1, <1>2, <1>4, <1>5, WriteFits
<1>7. GrowsTo(asyncio, asyncio', Head(queue))
  BY Zenon, <1>1, <1>3, <1>4, <1>5, WriteGrows
<1>8. State'
  BY Zenon, <1>1, <1>2, <1>3, <1>6 DEF State, SameQueue
<1>9. Waiting = queue /\ Waiting' = Tail(queue)
  <2>1. queue \o <<>> = queue /\ Tail(queue) \o <<>> = Tail(queue)
    BY Zenon, <1>2, <1>3, ConcatEmptySeq
  <2> QED BY Zenon, <1>2, <1>6, <2>1 DEF Waiting, SameQueue
<1>10. Grows(Head(Waiting))
  BY Zenon, <1>7, <1>9 DEF Grows, GrowsTo, Stream, Output
<1>11. Passes
  BY Zenon, <1>2, <1>6, <1>9, <1>10 DEF Passes, SameQueue
<1> QED BY Zenon, <1>8, <1>11, PassesKeeps

(* resume_writing() returns to the write-ready callback. *)
LEMMA ResumeReturnsStep ==
  ASSUME SInv, ResumeReturns
  PROVE  SInv'
<1>1. /\ Fit(client, asyncio, FALSE) /\ State
      /\ Pair \in PairType /\ Pair.client = client /\ Pair.asyncio = asyncio
  BY Zenon, Before DEF Fit
<1>2. /\ queue = <<>> /\ queue' = queue /\ resuming' = FALSE /\ kinds' = kinds
      /\ client' = Finish(Pair).client /\ asyncio' = Finish(Pair).asyncio
  BY Zenon DEF ResumeReturns, Becomes
<1>3. /\ Fit(client', asyncio', FALSE) /\ Output(asyncio') = Output(asyncio)
      /\ asyncio'.discarded = asyncio.discarded
      /\ \/ SameQueue(client, client')
         \/ client'.closed /\ client'.write_queue = <<>>
  BY Zenon, <1>1, <1>2, FinishFits
<1>4. Shorter(asyncio, asyncio')
  BY Zenon, <1>1, <1>3, SameOutput
<1>5. Kept /\ (client.closed => client'.closed)
  <2>1. <<>> \o <<>> = <<>>
    OBVIOUS
  <2> QED BY Zenon, <1>2, <1>3, <2>1 DEF Kept, Waiting, SameQueue
<1>6. queue \in Seq(FrameIds)
  BY Zenon, <1>1 DEF State
<1> QED BY Zenon, <1>2, <1>3, <1>4, <1>5, <1>6, ShorterKeeps

-----------------------------------------------------------------------------
(* Nothing has been sent. *)
LEMMA InitInv == Init => SInv
<1> SUFFICES ASSUME Init PROVE SInv
  OBVIOUS
<1>1. /\ <<>> \in Seq(Bytes) /\ <<>> \in Seq(FrameIds) /\ <<>> \in Seq(Kinds)
      /\ <<>> \o <<>> = <<>> /\ Len(<<>>) = 0 /\ 1..Len(<<>>) = {}
      /\ MaxRoom \in 0..MaxRoom /\ 0 <= MaxFrames /\ 0 <= MaxFrames + 1
  BY SizesAssumption
<1>2. /\ client \in ClientType /\ ~client.closed /\ client.paused = FALSE
      /\ ~client.buf_known_empty /\ client.write_queue = <<>>
  BY Zenon, <1>1 DEF Init, ClientType
<1>3. /\ asyncio \in AsyncioType /\ asyncio.buffer = <<>> /\ asyncio.wire = <<>>
      /\ asyncio.protocol_paused = FALSE
  BY Zenon, <1>1 DEF Init, AsyncioType
<1>4. resuming = FALSE /\ queue = <<>> /\ kinds = <<>>
  BY Zenon DEF Init
<1>5. State
  BY Zenon, <1>1, <1>2, <1>3, <1>4 DEF State, Fit, Sane
<1>6. Stream = <<>> /\ Waiting = <<>>
  BY Zenon, <1>1, <1>2, <1>3, <1>4 DEF Stream, Waiting
<1>7. OrderedIn(<<>>, <<>>, <<>>) /\ CompleteIn(<<>>, <<>>, <<>>)
  BY Zenon, <1>1 DEF OrderedIn, CompleteIn
<1>8. WholeIn(<<>>)
  BY DEF WholeIn, Uncut
<1> QED BY Zenon, <1>4, <1>5, <1>6, <1>7, <1>8 DEF SInv

(* Every step keeps the invariant. *)
LEMMA StepInv == SInv /\ [Next]_vars => SInv'
<1> SUFFICES ASSUME SInv, [Next]_vars PROVE SInv'
  OBVIOUS
<1>1. CASE Handler
  <2>1. CASE (Send \/ SendControl \/ Close \/ PeerClose \/ connection_lost) /\ UNCHANGED <<resuming, queue>>
    BY Zenon, <1>1, <2>1, SendStep, SendControlStep, CloseStep, ReleaseStep DEF Handler
  <2>2. CASE (WriteReadyFails \/ PeerEof \/ FatalError) /\ UNCHANGED <<resuming, queue>>
    BY Zenon, <1>1, <2>2, TransportStep DEF Handler
  <2>3. CASE \E n \in 1..MaxRoom : WriteReady(n)
    BY Zenon, <1>1, <2>3, WriteReadyStep DEF Handler
  <2> QED BY Zenon, <1>1, <2>1, <2>2, <2>3 DEF Handler
<1>2. CASE Peer
  BY Zenon, <1>2, PeerStep DEF Peer
<1>3. CASE ResumeWrite
  BY Zenon, <1>3, ResumeWriteStep
<1>4. CASE ResumeReturns
  BY Zenon, <1>4, ResumeReturnsStep
<1>5. CASE UNCHANGED vars
  BY Zenon, <1>5 DEF vars, SInv, State, Stream, Waiting
<1> QED BY Zenon, <1>1, <1>2, <1>3, <1>4, <1>5 DEF Next

(* The send side's invariant holds in every reachable state. *)
THEOREM Invariant == Spec => []SInv
BY InitInv, StepInv, PTL DEF Spec

(* Types, room on the socket included. *)
THEOREM TypeCorrect == Spec => []TypeOK
<1>1. SInv => TypeOK
  BY Zenon DEF SInv, State, Fit, Sane, TypeOK
<1> QED BY <1>1, Invariant, PTL

(* The cache never claims an empty buffer that is not empty. *)
THEOREM CacheIsSound == Spec => []CacheSound
<1>1. SInv => CacheSound
  BY Zenon DEF SInv, State, Fit, CacheSound
<1> QED BY <1>1, Invariant, PTL

(* Client and transport agree on who is paused. *)
THEOREM PausesAgree == Spec => []PauseAgrees
<1>1. SInv => PauseAgrees
  BY Zenon DEF SInv, State, Fit, PauseAgrees
<1> QED BY <1>1, Invariant, PTL

(* The domains of the sequences, and that a byte is a pair. *)
LEMMA Positions ==
  ASSUME SInv
  PROVE  /\ Stream \in Seq(Bytes) /\ Waiting \in Seq(FrameIds)
         /\ DOMAIN Stream = 1..Len(Stream) /\ DOMAIN Waiting = 1..Len(Waiting)
         /\ DOMAIN kinds = 1..Len(kinds)
<1>1. Stream \in Seq(Bytes) /\ Waiting \in Seq(FrameIds) /\ kinds \in Seq(Kinds)
  BY Zenon, FitSequences DEF SInv, State, Stream, Waiting
<1> QED BY Zenon, <1>1, LenProperties

(* On the socket a frame is never cut. *)
THEOREM FramesWhole == Spec => []WholeFrames
<1>1. SInv => WholeFrames
  <2> SUFFICES ASSUME SInv, ~asyncio.discarded PROVE Uncut(asyncio.wire)
    BY Zenon DEF WholeFrames
  <2>1. asyncio.wire \in Seq(Bytes) /\ asyncio.buffer \in Seq(Bytes)
    BY Zenon, FitSequences DEF SInv, State
  <2>2. Uncut(asyncio.wire \o asyncio.buffer)
    BY Zenon DEF SInv, WholeIn, Stream
  <2>3. \A w, b \in Seq(Bytes) : \A i \in 1..(Len(w) - 1) :
          i \in 1..(Len(w \o b) - 1) /\ (w \o b)[i] = w[i] /\ (w \o b)[i + 1] = w[i + 1]
    OBVIOUS
  <2> QED BY Zenon, <2>1, <2>2, <2>3 DEF Uncut
<1> QED BY <1>1, Invariant, PTL

(* Control frames pass data frames, and nothing else passes anything. *)
THEOREM ControlInOrder == Spec => []ControlNotBypassed
<1>1. SInv => ControlNotBypassed
  <2> SUFFICES ASSUME SInv, NEW i \in DOMAIN Stream, NEW j \in DOMAIN Stream,
                      i < j, Stream[j][1] < Stream[i][1]
               PROVE  Kind(Stream[i]) # "data" /\ Kind(Stream[j]) = "data"
    BY Zenon DEF ControlNotBypassed
  <2>1. i \in 1..Len(Stream) /\ j \in 1..Len(Stream)
    BY Zenon, Positions
  <2>2. InOrder(kinds, Stream[i], Stream[j])
    BY Zenon, <2>1 DEF SInv, OrderedIn
  <2>3. Stream[i][1] \in 1..Len(kinds) /\ Stream[j][1] \in 1..Len(kinds)
    BY Zenon, <2>1 DEF SInv, OrderedIn
  <2>4. \A x, y \in 1..Len(kinds) : y < x => ~(x < y) /\ x # y
    OBVIOUS
  <2>5. ~Precedes(Stream[i], Stream[j])
    BY Zenon, <2>3, <2>4 DEF Precedes
  <2> QED BY Zenon, <2>2, <2>5 DEF InOrder, Kind
<1> QED BY <1>1, Invariant, PTL

(* Nothing is lost, repeated or reordered while the connection is up. *)
THEOREM FramesInOrder == Spec => []SendOrder
<1>1. SInv => SendOrder
  <2> SUFFICES ASSUME SInv, ~client.closed, ~asyncio.discarded
               PROVE  /\ Range(Stream) \cup (Range(Waiting) \X (1..FrameLen)) = (DOMAIN kinds) \X (1..FrameLen)
                      /\ \A n \in Range(Waiting) : kinds[n] = "data"
                      /\ \A i, j \in DOMAIN Stream :
                           i < j /\ Kind(Stream[i]) = Kind(Stream[j]) => Precedes(Stream[i], Stream[j])
                      /\ \A i \in DOMAIN Stream, j \in DOMAIN Waiting :
                           Kind(Stream[i]) = "data" => Stream[i][1] < Waiting[j]
                      /\ \A i, j \in DOMAIN Waiting : i < j => Waiting[i] < Waiting[j]
    BY Zenon DEF SendOrder
  <2>1. /\ DOMAIN Stream = 1..Len(Stream) /\ DOMAIN Waiting = 1..Len(Waiting)
        /\ DOMAIN kinds = 1..Len(kinds)
    BY Zenon, Positions
  <2>2. /\ Range(Stream) = {Stream[i] : i \in 1..Len(Stream)}
        /\ Range(Waiting) = {Waiting[j] : j \in 1..Len(Waiting)}
    BY Zenon, <2>1 DEF Range
  <2>3. OrderedIn(Stream, Waiting, kinds) /\ CompleteIn(Stream, Waiting, kinds)
    BY Zenon DEF SInv
  <2>4. \A b \in Range(Stream) : b \in (1..Len(kinds)) \X (1..FrameLen)
    BY Zenon, <2>2, <2>3 DEF OrderedIn
  <2>5. \A n \in Range(Waiting) : n \in 1..Len(kinds) /\ kinds[n] = "data"
    BY Zenon, <2>2, <2>3 DEF OrderedIn
  <2>6. \A n \in 1..Len(kinds), p \in 1..FrameLen : <<n, p>> \in Range(Stream) \/ n \in Range(Waiting)
    BY Zenon, <2>2, <2>3 DEF CompleteIn, Has
  <2>7. Range(Stream) \cup (Range(Waiting) \X (1..FrameLen)) = (1..Len(kinds)) \X (1..FrameLen)
    <3> DEFINE K == 1..Len(kinds)
               F == 1..FrameLen
               R == Range(Stream)
               W == Range(Waiting)
    <3> HIDE DEF K, F, R, W
    <3>1. R \subseteq K \X F /\ W \subseteq K /\ \A n \in K, p \in F : <<n, p>> \in R \/ n \in W
      BY Zenon, <2>4, <2>5, <2>6 DEF K, F, R, W
    <3>2. R \cup (W \X F) = K \X F
      BY <3>1
    <3> QED BY Zenon, <3>2 DEF K, F, R, W
  <2>8. ASSUME NEW i \in 1..Len(Stream), NEW j \in 1..Len(Stream), i < j, Kind(Stream[i]) = Kind(Stream[j])
        PROVE  Precedes(Stream[i], Stream[j])
    BY Zenon, <2>3, <2>8 DEF OrderedIn, InOrder, Kind
  <2> QED BY Zenon, <2>1, <2>3, <2>5, <2>7, <2>8 DEF OrderedIn, Kind
<1> QED BY <1>1, Invariant, PTL
=============================================================================

-------------------------- MODULE RustlsShimProofs --------------------------
(***************************************************************************)
(* The safety properties of RustlsShim, and that it implements              *)
(* PlaintextPipe, for all streams, bounds and depths of nested calls.       *)
(***************************************************************************)
EXTENDS RustlsShim, SequenceTheorems, TLAPS

Delivered == Len(client.bytes)

(* The buffer is the end of what has arrived, and NativeClient has the      *)
(* rest.                                                                    *)
InOrder ==
  /\ \A i \in 1..Len(client.bytes) : client.bytes[i] = i
  /\ \A i \in 1..Len(shim.plaintext) : shim.plaintext[i] = peer.arrived - Len(shim.plaintext) + i
  /\ raw.life # "lost" => Delivered + Pending = peer.arrived
  /\ Delivered <= peer.arrived /\ peer.arrived <= peer.stream.len

(* What each state of the raw transport says about the rest.                *)
LifeOK ==
  /\ raw.life = "new" =>
       /\ client.handshake = "pending" /\ peer.arrived = 0 /\ calls = <<>>
       /\ shim.plaintext = <<>> /\ ~shim.read_paused /\ ~shim.closing /\ ~tls.up
  /\ shim.closing => raw.life \in {"closing", "lost"}
  /\ ended # "no" => raw.life \in {"closing", "lost"}
  /\ raw.life = "lost" => shim.closing /\ shim.plaintext = <<>> /\ shim.used = 0
  /\ client.handshake = "lost" => raw.life = "lost"

(* Only the outermost call can be a data_received().                        *)
StackOK == \A i \in 2..Len(calls) : calls[i].op = "resume_reading"

(* What is held does not complete the unit it begins.                       *)
Waits ==
  IF shim.websocket_mode
  THEN /\ shim.frame_remaining = None
       /\ \A f \in peer.stream.frames : f.first = Delivered + 1 => Pending < f.need
  ELSE peer.arrived < peer.stream.hs

Resuming == \E i \in 1..Len(calls) : calls[i].op = "resume_reading"

(* A transport that does not read has been paused, or a resume_reading() on *)
(* the stack will make it read.  One that reads holds no complete unit,     *)
(* unless a data_received() is still delivering.                            *)
ReadOK ==
  /\ raw.reading => raw.life = "open" /\ ~shim.read_paused
  /\ raw.life = "open" /\ ~shim.closing /\ ~threw /\ ~shim.read_paused /\ ~raw.reading => Resuming
  /\ raw.reading /\ (calls # <<>> => calls[1].op # "data_received") => Pending = 0 \/ Waits

(* The cause of a failure is kept until connection_lost() passes it on.     *)
FailOK ==
  ended = "failed" =>
    /\ client.handshake \notin {"pending", "lost"}
    /\ IF raw.life = "lost" THEN client.lost \in {"capacity", "tls"}
       ELSE shim.closing /\ shim.terminal_error \in {"capacity", "tls"}

(* close_notify is written when closing begins, and nothing after it.       *)
WriteOK ==
  /\ tls.up => tls.held = <<>>
  /\ ~shim.closing => \A i \in 1..Len(raw.written) : raw.written[i] # "close_notify"
  /\ \A i \in 1..Len(raw.written) : raw.written[i] = "close_notify" => i = Len(raw.written)

RInv ==
  /\ TypeOK /\ InOrder /\ RemainingAgrees /\ HeldBounded /\ LifeOK
  /\ StackOK /\ ReadOK /\ FailOK /\ WriteOK /\ PeerEndKeepsFrames

-----------------------------------------------------------------------------
(* Types, taken apart.                                                      *)

(* What TypeOK and the assumption on streams say of each field.             *)
LEMMA Typed ==
  ASSUME TypeOK
  PROVE  /\ peer.stream \in Streams /\ peer.arrived \in Nat
         /\ peer.stream.hs \in Nat /\ peer.stream.hs > 0 /\ peer.stream.len \in Nat
         /\ shim.plaintext \in Seq(Nat) /\ shim.used \in Nat /\ shim.used <= Len(shim.plaintext)
         /\ Len(shim.plaintext) \in Nat
         /\ client.bytes \in Seq(Nat) /\ Delivered \in Nat
         /\ Pending \in Nat /\ Len(calls) \in Nat
<1>1. peer.stream \in Streams /\ peer.arrived \in Nat
  BY Zenon DEF TypeOK
<1>2. peer.stream.hs \in Nat /\ peer.stream.hs > 0 /\ peer.stream.len \in Nat
  BY <1>1, StreamsAssumption, SMT
<1>3. /\ shim.plaintext \in Seq(Nat) /\ shim.used \in Nat /\ shim.used <= Len(shim.plaintext)
      /\ client.bytes \in Seq(Nat)
  BY Zenon DEF TypeOK
<1>4. calls \in Seq([op : {"data_received", "resume_reading"}, at : {"drain", "inner", "app"}])
  BY DEF TypeOK
<1>5. Len(shim.plaintext) \in Nat /\ Delivered \in Nat /\ Len(calls) \in Nat
  BY <1>3, <1>4, LenProperties DEF Delivered
<1>6. Pending \in Nat
  BY <1>3, <1>5, SMT DEF Pending
<1> QED BY <1>1, <1>2, <1>3, <1>5, <1>6

(* The quantities of the buffer are natural numbers.                        *)
LEMMA Numbers ==
  ASSUME TypeOK
  PROVE  /\ peer.arrived \in Nat /\ peer.stream.hs \in Nat /\ peer.stream.len \in Nat
         /\ shim.used \in Nat /\ Len(shim.plaintext) \in Nat /\ Delivered \in Nat
         /\ Pending \in Nat /\ Pending = Len(shim.plaintext) - shim.used
  BY Typed, Zenon DEF Pending

(* The frames of the peer's stream.                                         *)
LEMMA FramesOK ==
  ASSUME TypeOK
  PROVE  /\ \A f \in peer.stream.frames :
              /\ f.first \in Nat /\ f.need \in Nat /\ f.last \in Nat
              /\ peer.stream.hs < f.first /\ f.first < f.last /\ f.last <= peer.stream.len
              /\ f.first + f.need <= f.last + 1
              /\ f.last < peer.stream.len => \E g \in peer.stream.frames : g.first = f.last + 1
              /\ \A g \in peer.stream.frames : g = f \/ g.last < f.first \/ f.last < g.first
         /\ peer.stream.hs < peer.stream.len
              => \E f \in peer.stream.frames : f.first = peer.stream.hs + 1
<1>1. peer.stream \in Streams
  BY Typed
<1>2. /\ peer.stream.frames \subseteq Frame
      /\ \A f \in peer.stream.frames :
           /\ peer.stream.hs < f.first /\ 2 <= f.need /\ f.last <= peer.stream.len
           /\ f.first + f.need <= f.last + 1
           /\ f.last < peer.stream.len => \E g \in peer.stream.frames : g.first = f.last + 1
           /\ \A g \in peer.stream.frames : g = f \/ g.last < f.first \/ f.last < g.first
      /\ peer.stream.hs < peer.stream.len
           => \E f \in peer.stream.frames : f.first = peer.stream.hs + 1
  BY <1>1, StreamsAssumption, Zenon
<1>3. \A f \in peer.stream.frames : f.first \in Nat /\ f.need \in Nat /\ f.last \in Nat
  BY <1>2, Zenon DEF Frame
<1>4. \A f \in peer.stream.frames : f.first < f.last
  BY <1>2, <1>3, SMT
<1> QED BY <1>2, <1>3, <1>4, Zenon

(* The next byte of the buffer is the first one NativeClient does not have. *)
LEMMA NextByte ==
  ASSUME TypeOK, InOrder, LifeOK, Pending > 0
  PROVE  raw.life # "lost" /\ Next1 = Delivered + 1 /\ Delivered < peer.arrived
         /\ Delivered + Pending = peer.arrived
<1>1. raw.life # "lost"
  <2> SUFFICES ASSUME raw.life = "lost" PROVE FALSE
    OBVIOUS
  <2>1. shim.plaintext = <<>> /\ shim.used = 0
    BY Zenon DEF LifeOK
  <2> QED BY <2>1, SMT DEF Pending
<1>2. Delivered + Pending = peer.arrived
  BY <1>1 DEF InOrder
<1>3. shim.used + 1 \in 1..Len(shim.plaintext)
  BY Numbers, SMT DEF Pending
<1>4. Next1 = peer.arrived - Len(shim.plaintext) + (shim.used + 1)
  BY <1>3, Zenon DEF InOrder, Next1
<1>5. Next1 = Delivered + 1 /\ Delivered < peer.arrived
  <2>1. PICK n \in Nat, u \in Nat, d \in Nat, p \in Nat, a \in Nat :
          /\ n = Len(shim.plaintext) /\ u = shim.used /\ d = Delivered
          /\ p = Pending /\ a = peer.arrived
    BY Numbers, Zenon
  <2>2. d + p = a /\ p = n - u /\ p > 0
    BY <1>2, <2>1, Numbers, Zenon
  <2>3. a - n + (u + 1) = d + 1 /\ d < a
    BY <2>2, SMT
  <2> QED BY <1>4, <2>1, <2>3, Zenon
<1> QED BY <1>1, <1>2, <1>5

(* At a frame boundary the next byte starts a frame.                        *)
LEMMA HereOK ==
  ASSUME TypeOK, InOrder, LifeOK, RemainingAgrees, Pending > 0,
         shim.websocket_mode, shim.frame_remaining = None
  PROVE  Here \in peer.stream.frames /\ Here.first = Delivered + 1
<1>1. Next1 = Delivered + 1 /\ Delivered < peer.stream.len
  BY NextByte, Typed, SMT DEF InOrder
<1>2. Delivered = peer.stream.hs \/ \E f \in peer.stream.frames : f.last = Delivered
  BY Zenon DEF RemainingAgrees, Delivered
<1>3. \E f \in peer.stream.frames : f.first = Next1
  <2>1. CASE Delivered = peer.stream.hs
    BY <1>1, <2>1, FramesOK, Zenon
  <2>2. CASE \E f \in peer.stream.frames : f.last = Delivered
    BY <1>1, <2>2, FramesOK, Zenon
  <2> QED BY <1>2, <2>1, <2>2
<1> QED BY <1>1, <1>3, Zenon DEF Here

(* What one pass of drain_plaintext() hands over lies in one unit.          *)
LEMMA TakeOK ==
  ASSUME TypeOK, InOrder, LifeOK, RemainingAgrees, ~DrainStops, ~DrainFails
  PROVE  /\ Pending > 0 /\ ~shim.closing /\ ~shim.read_paused
         /\ Remaining \in Nat /\ Take \in Nat /\ 0 < Take /\ Take <= Remaining /\ Take <= Pending
         /\ Take < Remaining => Take = Pending
         /\ IF shim.websocket_mode
            THEN \E f \in peer.stream.frames :
                   f.first <= Delivered + 1 /\ Delivered + Remaining = f.last
            ELSE /\ Delivered = 0 /\ Take = Remaining /\ Remaining = peer.stream.hs
                 /\ shim.frame_remaining = None
<1>1. Pending > 0 /\ ~shim.closing /\ ~shim.read_paused /\ ~Incomplete
  <2>1. Pending # 0 /\ ~shim.closing /\ ~shim.read_paused /\ ~Incomplete
    BY Zenon DEF DrainStops
  <2> QED BY <2>1, Typed, SMT
<1>2. /\ raw.life # "lost" /\ Next1 = Delivered + 1 /\ Delivered < peer.arrived
      /\ Delivered + Pending = peer.arrived
  BY <1>1, NextByte
<1>3. CASE ~shim.websocket_mode
  <2>1. Delivered < peer.stream.hs
    BY <1>3, Typed, SMT DEF RemainingAgrees, Delivered
  <2>2. Delivered = 0 /\ shim.frame_remaining = None
    BY <2>1, Zenon DEF RemainingAgrees, Delivered
  <2>3. HeaderEnds
    BY <1>3, Zenon DEF DrainFails
  <2>4. PICK i \in shim.used + 1 .. Len(shim.plaintext) : shim.plaintext[i] = peer.stream.hs
    BY <2>3 DEF HeaderEnds
  <2>5. i \in 1..Len(shim.plaintext)
    BY <2>4, Typed, SMT
  <2>6. peer.stream.hs = peer.arrived - Len(shim.plaintext) + i
    BY <2>4, <2>5, Zenon DEF InOrder
  <2>7. peer.stream.hs <= Pending
    BY <1>2, <2>2, <2>4, <2>5, <2>6, Typed, SMT DEF Pending
  <2>8. Remaining = peer.stream.hs
    BY <1>2, <1>3, <2>2, Numbers, SMT DEF Remaining
  <2>9. Take = peer.stream.hs
    BY <2>7, <2>8, Numbers, SMT DEF Take, Min2
  <2> QED BY <1>1, <1>3, <2>2, <2>7, <2>8, <2>9, Typed, SMT
<1>4. CASE shim.websocket_mode
  <2>1. /\ Remaining \in Nat /\ Remaining > 0
        /\ \E f \in peer.stream.frames :
             f.first <= Delivered + 1 /\ Delivered + Remaining = f.last
    <3>1. CASE shim.frame_remaining = None
      <4>1. Here \in peer.stream.frames /\ Here.first = Delivered + 1
        BY <1>1, <1>4, <3>1, HereOK
      <4>2. Remaining = Here.last - Here.first + 1
        BY <1>4, <3>1, Zenon DEF Remaining
      <4>3. Here.first \in Nat /\ Here.last \in Nat /\ Here.first < Here.last
        BY <4>1, FramesOK
      <4>4. Remaining \in Nat /\ Remaining > 0 /\ Delivered + Remaining = Here.last
            /\ Here.first <= Delivered + 1
        <5>1. Delivered \in Nat
          BY Numbers
        <5> QED BY <4>1, <4>2, <4>3, <5>1, SMT
      <4> QED BY <4>1, <4>4
    <3>2. CASE shim.frame_remaining # None
      <4>1. PICK f \in peer.stream.frames :
              /\ f.first <= Delivered /\ Delivered < f.last
              /\ shim.frame_remaining = f.last - Delivered
        BY <3>2, Zenon DEF RemainingAgrees, Delivered
      <4>2. Remaining = f.last - Delivered
        BY <1>4, <3>2, <4>1, Zenon DEF Remaining
      <4>3. f.first \in Nat /\ f.last \in Nat
        BY FramesOK
      <4>4. /\ Remaining \in Nat /\ Remaining > 0 /\ Delivered + Remaining = f.last
            /\ f.first <= Delivered + 1
        <5>1. Delivered \in Nat
          BY Numbers
        <5> QED BY <4>1, <4>2, <4>3, <5>1, SMT
      <4> QED BY <4>4
    <3> QED BY <3>1, <3>2
  <2>2. /\ Take \in Nat /\ 0 < Take /\ Take <= Remaining /\ Take <= Pending
        /\ Take < Remaining => Take = Pending
    BY <1>1, <2>1, Numbers, SMT DEF Take, Min2
  <2> QED BY <1>1, <1>4, <2>1, <2>2
<1> QED BY <1>3, <1>4

(* A drain that stops at an incomplete unit waits, and one that waits stops.*)
LEMMA IncompleteWaits ==
  ASSUME TypeOK, InOrder, LifeOK, RemainingAgrees, Incomplete
  PROVE  Waits
<1>1. Pending > 0
  BY DEF Incomplete
<1>2. Delivered + Pending = peer.arrived
  BY <1>1, NextByte
<1>3. CASE shim.websocket_mode
  <2>1. shim.frame_remaining = None /\ ~(Pending >= Here.need)
    BY <1>3, Zenon DEF Incomplete, LengthKnown
  <2>2. Here \in peer.stream.frames /\ Here.first = Delivered + 1
    BY <1>1, <1>3, <2>1, HereOK
  <2>3. Here.need \in Nat /\ Pending < Here.need
    <3>1. Here.need \in Nat /\ Pending \in Nat
      BY <2>2, FramesOK, Numbers
    <3> QED BY <2>1, <3>1, SMT
  <2>4. \A f \in peer.stream.frames : f.first = Delivered + 1 => f = Here
    <3>1. SUFFICES ASSUME NEW f \in peer.stream.frames, f.first = Delivered + 1, f # Here
                   PROVE  FALSE
      OBVIOUS
    <3>2. /\ f.first \in Nat /\ f.last \in Nat /\ f.first < f.last
          /\ Here.last \in Nat /\ Here.first < Here.last
          /\ f.last < Here.first \/ Here.last < f.first
      BY <2>2, <3>1, FramesOK, Zenon
    <3> QED BY <2>2, <3>1, <3>2, SMT
  <2> QED BY <1>3, <2>1, <2>3, <2>4, Zenon DEF Waits
<1>4. CASE ~shim.websocket_mode
  <2>1. ~HeaderEnds
    BY <1>4, Zenon DEF Incomplete
  <2>2. Delivered < peer.stream.hs
    BY <1>4, Typed, SMT DEF RemainingAgrees, Delivered
  <2>3. Delivered = 0
    BY <2>2, Zenon DEF RemainingAgrees, Delivered
  <2>4. PICK n \in Nat, u \in Nat, h \in Nat, a \in Nat :
          n = Len(shim.plaintext) /\ u = shim.used /\ h = peer.stream.hs /\ a = peer.arrived
    BY Numbers, Zenon
  <2>5. a = n - u /\ h > 0 /\ u <= n
    <3>1. 0 + Pending = a /\ Pending = n - u /\ h > 0 /\ u <= n
      BY <1>2, <2>3, <2>4, Numbers, Typed, Zenon
    <3> QED BY <3>1, SMT
  <2>6. SUFFICES ASSUME ~(a < h) PROVE FALSE
    BY <1>4, <2>4, Zenon DEF Waits
  <2>7. u + h \in 1..n /\ u + h \in u + 1 .. n /\ a - n + (u + h) = h
    BY <2>5, <2>6, SMT
  <2>8. shim.plaintext[u + h] = a - n + (u + h)
    BY <2>4, <2>7, Zenon DEF InOrder
  <2> QED BY <2>1, <2>4, <2>7, <2>8, Zenon DEF HeaderEnds
<1> QED BY <1>3, <1>4

(* Conversely drain_plaintext() delivers nothing from a buffer that waits.  *)
LEMMA WaitsStops ==
  ASSUME TypeOK, InOrder, LifeOK, RemainingAgrees, Waits, Pending > 0
  PROVE  DrainStops \/ DrainFails
<1> SUFFICES ASSUME ~DrainStops, ~DrainFails PROVE FALSE
  OBVIOUS
<1>1. CASE shim.websocket_mode
  <2>1. shim.frame_remaining = None
    BY <1>1, Zenon DEF Waits
  <2>2. Here \in peer.stream.frames /\ Here.first = Delivered + 1
    BY <1>1, <2>1, HereOK
  <2>3. Pending < Here.need /\ Here.need \in Nat /\ Pending \in Nat
    BY <1>1, <2>2, FramesOK, Numbers, Zenon DEF Waits
  <2>4. ~(Pending >= Here.need)
    BY <2>3, SMT
  <2> QED BY <1>1, <2>1, <2>4, Zenon DEF DrainStops, Incomplete, LengthKnown
<1>2. CASE ~shim.websocket_mode
  <2>1. Delivered = 0 /\ peer.stream.hs <= Pending /\ Delivered + Pending = peer.arrived
    BY <1>2, TakeOK, NextByte, Zenon
  <2>2. peer.arrived < peer.stream.hs
    BY <1>2, Zenon DEF Waits
  <2> QED BY <2>1, <2>2, Numbers, SMT
<1> QED BY <1>1, <1>2

(* A buffer that is empty or waits holds no complete frame.                 *)
LEMMA NothingComplete ==
  ASSUME TypeOK, InOrder, RemainingAgrees, raw.life # "lost", Pending = 0 \/ Waits,
         NEW f \in peer.stream.frames, f.last <= peer.arrived
  PROVE  f.last <= Delivered
<1>1. PICK d \in Nat, p \in Nat, a \in Nat, h \in Nat :
        d = Delivered /\ p = Pending /\ a = peer.arrived /\ h = peer.stream.hs
  BY Numbers, Zenon
<1>2. d + p = a
  BY <1>1, Zenon DEF InOrder
<1>3. /\ f.first \in Nat /\ f.last \in Nat /\ h < f.first /\ f.first < f.last
      /\ f.need \in Nat /\ f.first + f.need <= f.last + 1 /\ f.last <= a
  BY <1>1, FramesOK, Zenon
<1>4. CASE Pending = 0
  BY <1>1, <1>2, <1>3, <1>4, SMT
<1>5. CASE Waits /\ ~shim.websocket_mode
  <2>1. a < h
    BY <1>1, <1>5, Zenon DEF Waits
  <2> QED BY <1>3, <2>1, SMT
<1>6. CASE Waits /\ shim.websocket_mode /\ Pending # 0
  <2>1. /\ shim.frame_remaining = None
        /\ \A g \in peer.stream.frames : g.first = d + 1 => p < g.need
    BY <1>1, <1>6, Zenon DEF Waits
  <2>2. d = h \/ \E g \in peer.stream.frames : g.last = d
    BY <1>1, <1>6, <2>1, Zenon DEF RemainingAgrees, Delivered
  <2>3. d < peer.stream.len /\ d < a
    <3>1. p > 0
      BY <1>1, <1>6, SMT
    <3>2. a <= peer.stream.len /\ peer.stream.len \in Nat
      BY <1>1, Numbers, Zenon DEF InOrder
    <3> QED BY <1>2, <3>1, <3>2, SMT
  <2>4. PICK g \in peer.stream.frames : g.first = d + 1
    <3>1. CASE d = h
      BY <1>1, <2>3, <3>1, FramesOK, Zenon
    <3>2. CASE \E g \in peer.stream.frames : g.last = d
      BY <2>3, <3>2, FramesOK, Zenon
    <3> QED BY <2>2, <3>1, <3>2
  <2>5. /\ g.first \in Nat /\ g.last \in Nat /\ g.need \in Nat /\ p < g.need
        /\ g.first + g.need <= g.last + 1 /\ g.first < g.last
        /\ f = g \/ f.last < g.first \/ g.last < f.first
    BY <2>1, <2>4, FramesOK, Zenon
  <2>6. f.last <= d
    <3>1. ~(g.last <= a)
      BY <1>2, <2>4, <2>5, SMT
    <3>2. CASE f = g
      BY <1>3, <3>1, <3>2, Zenon
    <3>3. CASE f.last < g.first
      BY <1>3, <2>4, <2>5, <3>3, SMT
    <3>4. CASE g.last < f.first
      BY <1>3, <2>5, <3>1, <3>4, SMT
    <3> QED BY <2>5, <3>2, <3>3, <3>4
  <2> QED BY <1>1, <2>6
<1> QED BY <1>4, <1>5, <1>6

-----------------------------------------------------------------------------
(* Sequences.                                                               *)

CallSet == [op : {"data_received", "resume_reading"}, at : {"drain", "inner", "app"}]
ItemSet == {"hello", "request", "frame", "close_notify"}

(* A slice of a sequence of bytes.                                          *)
LEMMA Slice ==
  ASSUME NEW s \in Seq(Nat), NEW k \in Nat, NEW n \in Nat, k <= n, n <= Len(s)
  PROVE  /\ SubSeq(s, k + 1, n) \in Seq(Nat)
         /\ Len(SubSeq(s, k + 1, n)) = n - k
         /\ \A i \in 1..(n - k) : SubSeq(s, k + 1, n)[i] = s[k + i]
<1>1. Len(s) \in Nat
  BY LenProperties
<1>2. k + 1 \in Int /\ n \in Int /\ n - (k + 1) + 1 = n - k
  BY SMT
<1>3. \A i \in k + 1 .. n : s[i] \in Nat
  <2> SUFFICES ASSUME NEW i \in k + 1 .. n PROVE s[i] \in Nat
    OBVIOUS
  <2>1. i \in 1..Len(s)
    BY <1>1, SMT
  <2> QED BY <2>1, ElementOfSeq
<1> DEFINE l == IF k + 1 <= n THEN n - (k + 1) + 1 ELSE 0
<1>4. /\ SubSeq(s, k + 1, n) \in Seq(Nat)
      /\ Len(SubSeq(s, k + 1, n)) = l
      /\ \A i \in 1 .. n - (k + 1) + 1 : SubSeq(s, k + 1, n)[i] = s[k + 1 + i - 1]
  BY <1>2, <1>3, SubSeqProperties
<1>5. l = n - k
  BY SMT
<1> HIDE DEF l
<1>6. \A i \in 1..(n - k) : k + 1 + i - 1 = k + i
  BY SMT
<1>7. \A i \in 1..(n - k) : SubSeq(s, k + 1, n)[i] = s[k + i]
  <2> SUFFICES ASSUME NEW i \in 1..(n - k) PROVE SubSeq(s, k + 1, n)[i] = s[k + i]
    OBVIOUS
  <2>1. SubSeq(s, k + 1, n)[i] = s[k + 1 + i - 1]
    BY <1>2, <1>4, Zenon
  <2> QED BY <1>6, <2>1, Zenon
<1> QED BY <1>4, <1>5, <1>7, Zenon

(* The bytes of an append, one by one.                                      *)
LEMMA BytesOK ==
  ASSUME NEW a \in Nat, NEW n \in Nat
  PROVE  /\ Bytes(a, n) \in Seq(Nat) /\ Len(Bytes(a, n)) = n
         /\ \A i \in 1..n : Bytes(a, n)[i] = a + i
  BY SMT DEF Bytes

(* The stack without its innermost call.                                    *)
LEMMA PopOK ==
  ASSUME calls \in Seq(CallSet), calls # <<>>
  PROVE  /\ Len(calls) \in Nat \ {0} /\ Pop \in Seq(CallSet) /\ Len(Pop) = Len(calls) - 1
         /\ \A i \in 1..(Len(calls) - 1) : Pop[i] = calls[i]
         /\ Top \in CallSet
<1>1. Len(calls) \in Nat \ {0}
  BY EmptySeq
<1>2. PICK n \in Nat \ {0} : n = Len(calls)
  BY <1>1
<1>3. 1 \in Int /\ n - 1 \in Int /\ n \in 1..n /\ (n - 1) - 1 + 1 = n - 1
  BY SMT
<1>4. \A i \in 1 .. n - 1 : calls[i] \in CallSet
  <2> SUFFICES ASSUME NEW i \in 1 .. n - 1 PROVE calls[i] \in CallSet
    OBVIOUS
  <2>1. i \in 1..n
    BY SMT
  <2> QED BY <1>2, <2>1, ElementOfSeq, Zenon
<1>5. /\ SubSeq(calls, 1, n - 1) \in Seq(CallSet)
      /\ Len(SubSeq(calls, 1, n - 1)) = IF 1 <= n - 1 THEN (n - 1) - 1 + 1 ELSE 0
      /\ \A i \in 1 .. (n - 1) - 1 + 1 : SubSeq(calls, 1, n - 1)[i] = calls[1 + i - 1]
  BY <1>3, <1>4, SubSeqProperties
<1>6. (IF 1 <= n - 1 THEN (n - 1) - 1 + 1 ELSE 0) = n - 1
  BY SMT
<1>7. \A i \in 1..(n - 1) : 1 + i - 1 = i
  BY SMT
<1>8. \A i \in 1..(n - 1) : SubSeq(calls, 1, n - 1)[i] = calls[i]
  <2> SUFFICES ASSUME NEW i \in 1..(n - 1) PROVE SubSeq(calls, 1, n - 1)[i] = calls[i]
    OBVIOUS
  <2>1. SubSeq(calls, 1, n - 1)[i] = calls[1 + i - 1]
    BY <1>3, <1>5, Zenon
  <2> QED BY <1>7, <2>1, Zenon
<1>9. Top \in CallSet
  BY <1>2, <1>3, ElementOfSeq, Zenon DEF Top
<1> QED BY <1>1, <1>2, <1>5, <1>6, <1>8, <1>9, Zenon DEF Pop

(* The stack with another place for its innermost call.                     *)
LEMMA AtOK ==
  ASSUME calls \in Seq(CallSet), calls # <<>>, NEW x \in {"drain", "inner", "app"}
  PROVE  LET c == [calls EXCEPT ![Len(calls)].at = x] IN
         /\ c \in Seq(CallSet) /\ Len(c) = Len(calls)
         /\ \A i \in 1..Len(calls) : c[i].op = calls[i].op
<1> DEFINE e == [calls[Len(calls)] EXCEPT !.at = x]
           c == [calls EXCEPT ![Len(calls)] = e]
<1>1. Len(calls) \in Nat \ {0} /\ calls[Len(calls)] \in CallSet
  BY PopOK DEF Top
<1>2. e \in CallSet /\ e.op = calls[Len(calls)].op
  BY <1>1, Zenon DEF CallSet
<1>3. Len(calls) \in 1..Len(calls)
  BY <1>1, SMT
<1> HIDE DEF e
<1>4. /\ c \in Seq(CallSet) /\ Len(c) = Len(calls)
      /\ \A j \in 1..Len(calls) : c[j] = IF j = Len(calls) THEN e ELSE calls[j]
  BY <1>2, <1>3, ExceptSeq
<1>5. \A i \in 1..Len(calls) : c[i].op = calls[i].op
  BY <1>2, <1>4, Zenon
<1> QED BY <1>4, <1>5, Zenon DEF e

-----------------------------------------------------------------------------
(* Steps that deliver nothing and take nothing in.  At most the buffer is   *)
(* compacted when it is used up.                                            *)
Settled ==
  /\ peer' = peer /\ client'.bytes = client.bytes
  /\ shim'.websocket_mode = shim.websocket_mode
  /\ shim'.frame_remaining = shim.frame_remaining
  /\ \/ shim'.plaintext = shim.plaintext /\ shim'.used = shim.used
     \/ Pending = 0 /\ shim'.plaintext = <<>> /\ shim'.used = 0
  /\ raw.life = "lost" => raw'.life = "lost"

(* Such a step keeps the order of the bytes and the place in the frame.     *)
LEMMA SettledOK ==
  ASSUME TypeOK, InOrder, RemainingAgrees, HeldBounded, Settled
  PROVE  /\ InOrder' /\ RemainingAgrees' /\ HeldBounded'
         /\ Pending' = Pending /\ Delivered' = Delivered /\ (Waits => Waits')
<1>1. Delivered' = Delivered
  BY Zenon DEF Settled, Delivered
<1>2. Len(<<>>) = 0
  BY EmptySeq
<1>3. Pending' = Pending
  <2>1. CASE shim'.plaintext = shim.plaintext /\ shim'.used = shim.used
    BY <2>1, Zenon DEF Pending
  <2>2. CASE Pending = 0 /\ shim'.plaintext = <<>> /\ shim'.used = 0
    <3>1. Pending' = 0 - 0
      BY <1>2, <2>2, Zenon DEF Pending
    <3> QED BY <2>2, <3>1, SMT
  <2> QED BY <2>1, <2>2 DEF Settled
<1>4. \A i \in 1..Len(shim'.plaintext) :
        shim'.plaintext[i] = peer.arrived - Len(shim'.plaintext) + i
  <2>1. CASE shim'.plaintext = shim.plaintext
    BY <2>1, Zenon DEF InOrder
  <2>2. CASE shim'.plaintext = <<>>
    <3>1. 1..0 = {}
      BY SMT
    <3> QED BY <1>2, <2>2, <3>1, Zenon
  <2> QED BY <2>1, <2>2 DEF Settled
<1>5. InOrder'
  BY <1>1, <1>3, <1>4, Zenon DEF InOrder, Settled
<1>6. RemainingAgrees'
  BY Zenon DEF RemainingAgrees, Settled
<1>7. HeldBounded'
  <2>1. CASE shim'.plaintext = shim.plaintext
    BY <2>1, Zenon DEF HeldBounded
  <2>2. CASE shim'.plaintext = <<>>
    <3>1. 0 <= MaxPending
      BY BoundsAssumption, SMT
    <3> QED BY <1>2, <2>2, <3>1, Zenon DEF HeldBounded
  <2> QED BY <2>1, <2>2 DEF Settled
<1>8. Waits => Waits'
  BY <1>1, <1>3, Zenon DEF Waits, Settled
<1> QED BY <1>1, <1>3, <1>5, <1>6, <1>7, <1>8

-----------------------------------------------------------------------------
(* TypeOK, with its sets named.                                             *)

TlsSet == [up : BOOLEAN, held : Seq({"request", "frame"})]
RawSet == [life : {"new", "open", "closing", "lost"}, reading : BOOLEAN, written : Seq(ItemSet)]
ShimSet ==
  [plaintext : Seq(Nat), used : Nat, websocket_mode : BOOLEAN,
   frame_remaining : Nat \cup {None}, closing : BOOLEAN,
   read_paused : BOOLEAN, peer_closed : BOOLEAN,
   terminal_error : Causes \cup {NoError}, inner : BOOLEAN]
ClientSet ==
  [bytes : Seq(Nat), handshake : Causes \cup {"pending", "answered", "lost"},
   lost : Causes \cup {NoError, "clean", "reset"}]
EndSet == {"no", "application", "peer", "eof", "failed", "raised", "reset"}

Parts ==
  /\ peer \in [stream : Streams, arrived : Nat] /\ tls \in TlsSet /\ raw \in RawSet
  /\ shim \in ShimSet /\ shim.used <= Len(shim.plaintext) /\ client \in ClientSet
  /\ calls \in Seq(CallSet) /\ pauses \in Nat /\ threw \in BOOLEAN /\ ended \in EndSet

(* TypeOK gives the named sets.                                             *)
LEMMA PartsOK == TypeOK => Parts
  BY Zenon DEF TypeOK, Parts, TlsSet, RawSet, ItemSet, ShimSet, ClientSet, CallSet, EndSet

(* And in the next state the named sets give TypeOK.                        *)
LEMMA PartsPrime == Parts' => TypeOK'
  BY Zenon DEF TypeOK, Parts, TlsSet, RawSet, ItemSet, ShimSet, ClientSet, CallSet, EndSet

(* Stopping the raw transport changes its life and its reading only.        *)
LEMMA StoppedOK ==
  ASSUME raw \in RawSet
  PROVE  /\ Stopped(raw) \in RawSet /\ Stopped(raw).reading = FALSE
         /\ Stopped(raw).written = raw.written
         /\ Stopped(raw).life = IF raw.life = "open" THEN "closing" ELSE raw.life
  BY Zenon DEF RawSet, Stopped

NoNotify(s) == \A i \in 1..Len(s) : s[i] # "close_notify"
NotifyLast(s) == \A i \in 1..Len(s) : s[i] = "close_notify" => i = Len(s)

(* Appending to what was written.                                           *)
LEMMA WroteOK ==
  ASSUME raw \in RawSet, NoNotify(raw.written),
         NEW items \in Seq(ItemSet), NoNotify(items)
  PROVE  Wrote(items) \in Seq(ItemSet) /\ NoNotify(Wrote(items))
<1>1. raw.written \in Seq(ItemSet)
  BY Zenon DEF RawSet
<1>2. PICK w \in Seq(ItemSet) : w = raw.written
  BY <1>1
<1>3. /\ w \o items \in Seq(ItemSet) /\ Len(w \o items) = Len(w) + Len(items)
      /\ \A i \in 1 .. Len(w) + Len(items) :
           (w \o items)[i] = IF i <= Len(w) THEN w[i] ELSE items[i - Len(w)]
  BY ConcatProperties
<1>4. PICK m \in Nat, n \in Nat : m = Len(w) /\ n = Len(items)
  BY LenProperties
<1>5. NoNotify(w \o items)
  <2> SUFFICES ASSUME NEW i \in 1..(m + n) PROVE (w \o items)[i] # "close_notify"
    BY <1>3, <1>4, Zenon DEF NoNotify
  <2>1. CASE i <= m
    <3>1. i \in 1..m
      BY <2>1, SMT
    <3> QED BY <1>2, <1>3, <1>4, <2>1, <3>1, Zenon DEF NoNotify
  <2>2. CASE ~(i <= m)
    <3>1. i - m \in 1..n
      BY <2>2, SMT
    <3> QED BY <1>3, <1>4, <2>2, <3>1, Zenon DEF NoNotify
  <2> QED BY <2>1, <2>2, Zenon
<1> QED BY <1>1, <1>2, <1>3, <1>5, Zenon DEF Wrote

(* close_notify is last when nothing before it was one.                     *)
LEMMA WroteNotify ==
  ASSUME raw \in RawSet, NoNotify(raw.written)
  PROVE  Wrote(<<"close_notify">>) \in Seq(ItemSet) /\ NotifyLast(Wrote(<<"close_notify">>))
<1>1. raw.written \in Seq(ItemSet)
  BY Zenon DEF RawSet
<1>2. PICK w \in Seq(ItemSet) : w = raw.written
  BY <1>1
<1> DEFINE c == <<"close_notify">>
<1>3. c \in Seq(ItemSet) /\ Len(c) = 1
  BY SMT DEF ItemSet
<1> HIDE DEF c
<1>4. /\ w \o c \in Seq(ItemSet) /\ Len(w \o c) = Len(w) + Len(c)
      /\ \A i \in 1 .. Len(w) + Len(c) :
           (w \o c)[i] = IF i <= Len(w) THEN w[i] ELSE c[i - Len(w)]
  BY <1>3, ConcatProperties, Zenon
<1>5. PICK m \in Nat : m = Len(w)
  BY LenProperties
<1>6. NotifyLast(w \o c)
  <2> SUFFICES ASSUME NEW i \in 1..(m + 1), (w \o c)[i] = "close_notify" PROVE i = m + 1
    BY <1>3, <1>4, <1>5, Zenon DEF NotifyLast
  <2>1. ASSUME i <= m PROVE FALSE
    <3>1. i \in 1..m
      BY <2>1, SMT
    <3> QED BY <1>2, <1>3, <1>4, <1>5, <2>1, <3>1, Zenon DEF NoNotify
  <2> QED BY <2>1, SMT
<1>7. NotifyLast(w)
  BY <1>2, Zenon DEF NotifyLast, NoNotify
<1> QED BY <1>1, <1>2, <1>4, <1>6, <1>7, Zenon DEF Wrote, c

(* Frames stay delivered.                                                   *)
LEMMA EndKept ==
  ASSUME PeerEndKeepsFrames, peer' = peer, client'.bytes = client.bytes,
         ended' = ended \/ ended' \notin {"peer", "eof"}
  PROVE  PeerEndKeepsFrames'
  BY Zenon DEF PeerEndKeepsFrames

-----------------------------------------------------------------------------
(* Each action keeps RInv.                                                  *)

(* connection_made() keeps RInv: the buffer is still empty.                 *)
LEMMA MadeStep ==
  ASSUME RInv, connection_made
  PROVE  RInv'
<1>1. /\ raw.life = "new"
      /\ tls' = [tls EXCEPT !.held = <<"request">>]
      /\ raw' = [life |-> "open", reading |-> TRUE, written |-> <<"hello">>]
      /\ peer' = peer /\ shim' = shim /\ client' = client /\ calls' = calls
      /\ pauses' = pauses /\ ended' = ended /\ threw' = threw
  BY Zenon DEF connection_made
<1>2. Parts /\ LifeOK /\ TypeOK /\ InOrder /\ RemainingAgrees /\ HeldBounded
  BY PartsOK, Zenon DEF RInv
<1>3. raw'.life = "open" /\ raw'.reading = TRUE /\ raw'.written = <<"hello">>
  BY <1>1, Zenon
<1>4. tls' \in TlsSet /\ tls'.up = tls.up
  <2>1. <<"request">> \in Seq({"request", "frame"})
    BY SMT
  <2> QED BY <1>1, <1>2, <2>1, Zenon DEF Parts, TlsSet
<1>5. <<"hello">> \in Seq(ItemSet) /\ NoNotify(<<"hello">>)
  BY SMT DEF ItemSet, NoNotify
<1>6. TypeOK'
  <2>1. raw' \in RawSet
    BY <1>1, <1>5, Zenon DEF RawSet
  <2> QED BY <1>1, <1>2, <1>4, <2>1, PartsPrime, Zenon DEF Parts
<1>7. Settled
  BY <1>1, Zenon DEF Settled
<1>8. InOrder' /\ RemainingAgrees' /\ HeldBounded' /\ Pending' = Pending
  BY <1>2, <1>7, SettledOK
<1>9. /\ ~shim.closing /\ ~shim.read_paused /\ ~tls.up /\ ended = "no" /\ Pending = 0
      /\ client.handshake = "pending"
  <2>1. shim.plaintext = <<>> /\ Len(<<>>) = 0 /\ shim.used \in Nat /\ shim.used <= Len(shim.plaintext)
    BY <1>1, <1>2, Typed, EmptySeq, Zenon DEF LifeOK
  <2>2. Len(shim.plaintext) - shim.used = 0
    BY <2>1, SMT
  <2> QED BY <1>1, <1>2, <2>2, Zenon DEF LifeOK, Pending
<1>10. LifeOK'
  BY <1>1, <1>3, <1>9, Zenon DEF LifeOK
<1>11. StackOK'
  BY <1>1, Zenon DEF RInv, StackOK
<1>12. ReadOK'
  BY <1>1, <1>3, <1>8, <1>9, Zenon DEF ReadOK
<1>13. FailOK'
  BY <1>1, <1>9, Zenon DEF FailOK
<1>14. WriteOK'
  BY <1>3, <1>4, <1>5, <1>9, Zenon DEF WriteOK, NoNotify
<1>15. PeerEndKeepsFrames'
  BY <1>1, EndKept, Zenon DEF RInv
<1> QED BY <1>6, <1>8, <1>10, <1>11, <1>12, <1>13, <1>14, <1>15 DEF RInv

(* A step that changes no control state but what was written.               *)
LEMMA FlushStep ==
  ASSUME RInv, NEW up \in BOOLEAN, NEW held \in Seq({"request", "frame"}), flush(up, held),
         raw.life # "new", ~shim.closing, shim' = shim, client' = client,
         peer' = peer, pauses' = pauses, ended' = ended, threw' = threw,
         calls' \in Seq(CallSet), StackOK',
         calls' = calls \/ (calls = <<>> /\ calls' # <<>> /\ calls'[1].op = "data_received")
  PROVE  RInv'
<1>1. Parts /\ LifeOK /\ TypeOK /\ InOrder /\ RemainingAgrees /\ HeldBounded
  BY PartsOK, Zenon DEF RInv
<1> DEFINE h == IF up THEN held ELSE <<>>
<1>2. h \in Seq(ItemSet) /\ NoNotify(h) /\ (IF up THEN <<>> ELSE held) \in Seq({"request", "frame"})
  <2>1. held \in Seq(ItemSet) /\ NoNotify(held)
    BY SMT DEF ItemSet, NoNotify
  <2>2. <<>> \in Seq(ItemSet) /\ NoNotify(<<>>) /\ <<>> \in Seq({"request", "frame"})
    BY SMT DEF NoNotify
  <2> QED BY <2>1, <2>2, Zenon
<1>3. /\ tls' = [up |-> up, held |-> IF up THEN <<>> ELSE held]
      /\ raw' = [raw EXCEPT !.written = Wrote(h)]
  BY Zenon DEF flush
<1> HIDE DEF h
<1>4. NoNotify(raw.written) /\ raw \in RawSet
  BY <1>1, Zenon DEF RInv, WriteOK, NoNotify, Parts
<1>5. Wrote(h) \in Seq(ItemSet) /\ NoNotify(Wrote(h))
  BY <1>2, <1>4, WroteOK
<1>6. /\ raw' \in RawSet /\ raw'.life = raw.life /\ raw'.reading = raw.reading
      /\ raw'.written = Wrote(h)
  BY <1>3, <1>4, <1>5, Zenon DEF RawSet
<1>7. tls' \in TlsSet /\ (tls'.up => tls'.held = <<>>)
  BY <1>2, <1>3, Zenon DEF TlsSet
<1>8. TypeOK'
  BY <1>1, <1>6, <1>7, PartsPrime, Zenon DEF Parts
<1>9. Settled
  BY <1>6, Zenon DEF Settled
<1>10. InOrder' /\ RemainingAgrees' /\ HeldBounded' /\ Pending' = Pending /\ (Waits => Waits')
  BY <1>1, <1>9, SettledOK
<1>11. LifeOK'
  BY <1>1, <1>6, Zenon DEF LifeOK
<1>12. ReadOK'
  <2>1. CASE calls' = calls
    BY <1>6, <1>10, <2>1, Zenon DEF RInv, ReadOK, Resuming
  <2>2. CASE calls = <<>> /\ calls' # <<>> /\ calls'[1].op = "data_received"
    <3>1. ~Resuming
      <4>1. Len(<<>>) = 0 /\ 1..0 = {}
        BY EmptySeq, SMT
      <4> QED BY <2>2, <4>1, Zenon DEF Resuming
    <3> QED BY <1>6, <2>2, <3>1, Zenon DEF RInv, ReadOK
  <2> QED BY <2>1, <2>2
<1>13. FailOK'
  BY <1>6, Zenon DEF RInv, FailOK
<1>14. WriteOK'
  BY <1>5, <1>6, <1>7, Zenon DEF WriteOK, NoNotify
<1>15. PeerEndKeepsFrames'
  BY EndKept, Zenon DEF RInv
<1> QED BY <1>8, <1>10, <1>11, <1>12, <1>13, <1>14, <1>15 DEF RInv

(* write() keeps RInv: it flushes before closing has begun.                 *)
LEMMA WriteStep ==
  ASSUME RInv, write
  PROVE  RInv'
<1>1. Parts /\ LifeOK
  BY PartsOK, Zenon DEF RInv
<1>2. /\ Application /\ ~shim.closing /\ flush(tls.up, Append(tls.held, "frame"))
      /\ shim' = shim /\ client' = client /\ peer' = peer /\ pauses' = pauses
      /\ ended' = ended /\ threw' = threw /\ calls' = calls
  BY Zenon DEF write
<1>3. raw.life # "new"
  BY <1>1, <1>2, Zenon DEF Application, LifeOK
<1>4. tls.up \in BOOLEAN /\ tls.held \in Seq({"request", "frame"})
  BY <1>1, Zenon DEF Parts, TlsSet
<1>5. Append(tls.held, "frame") \in Seq({"request", "frame"})
  BY <1>4, AppendProperties
<1>6. calls' \in Seq(CallSet) /\ StackOK'
  BY <1>1, <1>2, Zenon DEF Parts, RInv, StackOK
<1> QED BY <1>2, <1>3, <1>4, <1>5, <1>6, FlushStep, Zenon

(* The end of the TLS handshake keeps RInv.                                 *)
LEMMA HandshakeStep ==
  ASSUME RInv, TlsHandshake
  PROVE  RInv'
<1>1. Parts /\ LifeOK
  BY PartsOK, Zenon DEF RInv
<1>2. /\ calls = <<>> /\ raw.life = "open" /\ ~shim.closing /\ flush(TRUE, tls.held)
      /\ shim' = shim /\ client' = client /\ peer' = peer /\ pauses' = pauses
      /\ ended' = ended /\ threw' = threw /\ calls' = <<Call("data_received")>>
  BY Zenon DEF TlsHandshake, Readable, Quiet
<1>3. /\ calls' \in Seq(CallSet) /\ Len(calls') = 1 /\ calls' # <<>>
      /\ calls'[1].op = "data_received"
  BY <1>2, SMT DEF CallSet, Call
<1>4. StackOK'
  <2>1. 2..1 = {}
    BY SMT
  <2> QED BY <1>3, <2>1, Zenon DEF StackOK
<1>5. tls.held \in Seq({"request", "frame"})
  BY <1>1, Zenon DEF Parts, TlsSet
<1>6. raw.life # "new"
  BY <1>2
<1> QED BY <1>2, <1>3, <1>4, <1>5, <1>6, FlushStep, Zenon

(* A step that stops the raw transport.                                     *)
LEMMA StopStep ==
  ASSUME RInv, raw.life # "new", Settled, tls' = tls, pauses' = pauses, threw' = threw,
         raw' \in RawSet, ~raw'.reading, NotifyLast(raw'.written),
         raw'.life = IF raw.life = "open" THEN "closing" ELSE raw.life,
         ~shim'.closing => NoNotify(raw'.written),
         shim' \in ShimSet, shim.closing => shim'.closing,
         client' \in ClientSet,
         client'.handshake = client.handshake \/ client'.handshake # "lost",
         calls' \in Seq(CallSet), StackOK', ended' \in EndSet, FailOK', PeerEndKeepsFrames'
  PROVE  RInv'
<1>1. /\ Parts /\ TypeOK /\ LifeOK /\ WriteOK /\ InOrder /\ RemainingAgrees /\ HeldBounded
      /\ peer' = peer
  BY PartsOK, Zenon DEF RInv, Settled
<1>2. InOrder' /\ RemainingAgrees' /\ HeldBounded'
  BY <1>1, SettledOK
<1>3. shim'.used <= Len(shim'.plaintext)
  <2>1. 0 <= Len(<<>>)
    BY EmptySeq, SMT
  <2> QED BY <1>1, <2>1, Zenon DEF Settled, Parts
<1>4. TypeOK'
  BY <1>1, <1>3, PartsPrime, Zenon DEF Parts
<1>5. raw'.life \in {"closing", "lost"} /\ (raw'.life = "lost" <=> raw.life = "lost")
  BY <1>1, Zenon DEF Parts, RawSet
<1>6. LifeOK'
  BY <1>1, <1>5, Zenon DEF LifeOK, Settled
<1>7. ReadOK'
  BY <1>5, Zenon DEF ReadOK
<1>8. WriteOK'
  BY <1>1, Zenon DEF WriteOK, NoNotify, NotifyLast
<1> QED BY <1>2, <1>4, <1>6, <1>7, <1>8 DEF RInv

(* What an ending connection looked like before.                            *)
LEMMA NotFailed ==
  ASSUME RInv, ~shim.closing
  PROVE  /\ raw.life # "lost" /\ ended # "failed"
         /\ NoNotify(raw.written) /\ raw \in RawSet
<1>1. Parts /\ LifeOK /\ FailOK /\ WriteOK
  BY PartsOK, Zenon DEF RInv
<1> QED BY <1>1, Zenon DEF LifeOK, FailOK, WriteOK, NoNotify, Parts

(* CloseNow() and Stopped().                                                *)
LEMMA CloseNowOK ==
  ASSUME RInv, ~shim.closing, NEW state \in ShimSet, CloseNow(state)
  PROVE  /\ raw' \in RawSet /\ ~raw'.reading /\ NotifyLast(raw'.written)
         /\ raw'.life = IF raw.life = "open" THEN "closing" ELSE raw.life
         /\ shim' \in ShimSet /\ shim'.closing = TRUE
         /\ shim'.plaintext = state.plaintext /\ shim'.used = state.used
         /\ shim'.websocket_mode = state.websocket_mode
         /\ shim'.frame_remaining = state.frame_remaining
         /\ raw.life = "lost" => raw'.life = "lost"
<1>1. raw \in RawSet /\ NoNotify(raw.written)
  BY NotFailed
<1>2. Wrote(<<"close_notify">>) \in Seq(ItemSet) /\ NotifyLast(Wrote(<<"close_notify">>))
  BY <1>1, WroteNotify
<1>3. /\ shim' = [state EXCEPT !.closing = TRUE]
      /\ raw' = [Stopped(raw) EXCEPT !.written = Wrote(<<"close_notify">>)]
  BY DEF CloseNow
<1>4. /\ Stopped(raw) \in RawSet /\ Stopped(raw).reading = FALSE
      /\ Stopped(raw).life = IF raw.life = "open" THEN "closing" ELSE raw.life
  BY <1>1, StoppedOK, Zenon
<1>5. /\ raw' \in RawSet /\ ~raw'.reading /\ raw'.written = Wrote(<<"close_notify">>)
      /\ raw'.life = Stopped(raw).life
  BY <1>2, <1>3, <1>4, Zenon DEF RawSet
<1>6. /\ shim' \in ShimSet /\ shim'.closing = TRUE
      /\ shim'.plaintext = state.plaintext /\ shim'.used = state.used
      /\ shim'.websocket_mode = state.websocket_mode
      /\ shim'.frame_remaining = state.frame_remaining
  BY <1>3, Zenon DEF ShimSet
<1> QED BY <1>2, <1>4, <1>5, <1>6, Zenon

(* close() keeps RInv: it writes the only close_notify.                     *)
LEMMA CloseStep ==
  ASSUME RInv, close
  PROVE  RInv'
<1>1. /\ raw.life # "new" /\ ~shim.closing /\ CloseNow(shim) /\ Ends("application")
      /\ peer' = peer /\ tls' = tls /\ client' = client /\ calls' = calls
      /\ pauses' = pauses /\ threw' = threw
  BY Zenon DEF close
<1>2. Parts /\ StackOK /\ PeerEndKeepsFrames
  BY PartsOK, Zenon DEF RInv
<1>3. shim \in ShimSet /\ client \in ClientSet /\ calls \in Seq(CallSet) /\ ended \in EndSet
  BY <1>2, Zenon DEF Parts
<1>4. /\ raw' \in RawSet /\ ~raw'.reading /\ NotifyLast(raw'.written)
      /\ raw'.life = IF raw.life = "open" THEN "closing" ELSE raw.life
      /\ shim' \in ShimSet /\ shim'.closing = TRUE
      /\ shim'.plaintext = shim.plaintext /\ shim'.used = shim.used
      /\ shim'.websocket_mode = shim.websocket_mode
      /\ shim'.frame_remaining = shim.frame_remaining
      /\ raw.life = "lost" => raw'.life = "lost"
  BY <1>1, <1>3, CloseNowOK, Zenon
<1>5. Settled
  BY <1>1, <1>4, Zenon DEF Settled
<1>6. ended' \in EndSet /\ ended' # "failed" /\ (ended' = ended \/ ended' \notin {"peer", "eof"})
  BY <1>1, <1>3, NotFailed, Zenon DEF Ends, EndSet
<1>7. FailOK' /\ PeerEndKeepsFrames' /\ StackOK'
  BY <1>1, <1>2, <1>6, EndKept, Zenon DEF FailOK, StackOK
<1>8. /\ calls' \in Seq(CallSet) /\ client' \in ClientSet
      /\ client'.handshake = client.handshake \/ client'.handshake # "lost"
      /\ shim.closing => shim'.closing
      /\ ~shim'.closing => NoNotify(raw'.written)
  BY <1>1, <1>3, <1>4, Zenon
<1> QED BY <1>1, <1>4, <1>5, <1>6, <1>7, <1>8, StopStep, Zenon

(* fail().                                                                  *)
LEMMA FailEffect ==
  ASSUME RInv, ~shim.closing, NEW err \in Causes, fail(err), peer' = peer
  PROVE  /\ Settled
         /\ raw' \in RawSet /\ ~raw'.reading /\ NotifyLast(raw'.written)
         /\ raw'.life = IF raw.life = "open" THEN "closing" ELSE raw.life
         /\ shim' \in ShimSet /\ shim'.closing = TRUE /\ shim'.terminal_error = err
         /\ client' \in ClientSet
         /\ client'.handshake = IF client.handshake = "pending" THEN err ELSE client.handshake
         /\ client'.bytes = client.bytes
<1>1. /\ shim' = [shim EXCEPT !.closing = TRUE, !.terminal_error = err]
      /\ raw' = Stopped(raw)
      /\ client' = [client EXCEPT !.handshake =
                      IF client.handshake = "pending" THEN err ELSE client.handshake]
  BY Zenon DEF fail
<1>2. Parts /\ NoNotify(raw.written)
  BY PartsOK, NotFailed, Zenon DEF RInv
<1>3. shim \in ShimSet /\ client \in ClientSet /\ raw \in RawSet
  BY <1>2, Zenon DEF Parts
<1>4. /\ raw' \in RawSet /\ ~raw'.reading /\ raw'.written = raw.written
      /\ raw'.life = IF raw.life = "open" THEN "closing" ELSE raw.life
  BY <1>1, <1>3, StoppedOK, Zenon
<1>5. NotifyLast(raw'.written)
  BY <1>2, <1>4, Zenon DEF NoNotify, NotifyLast
<1>6. /\ shim' \in ShimSet /\ shim'.closing = TRUE /\ shim'.terminal_error = err
      /\ shim'.plaintext = shim.plaintext /\ shim'.used = shim.used
      /\ shim'.websocket_mode = shim.websocket_mode
      /\ shim'.frame_remaining = shim.frame_remaining
  BY <1>1, <1>3, Zenon DEF ShimSet
<1>7. /\ client' \in ClientSet /\ client'.bytes = client.bytes
      /\ client'.handshake = IF client.handshake = "pending" THEN err ELSE client.handshake
  BY <1>1, <1>3, Zenon DEF ClientSet
<1>8. Settled
  BY <1>4, <1>6, <1>7, Zenon DEF Settled
<1> QED BY <1>4, <1>5, <1>6, <1>7, <1>8, Zenon

(* Overflows and TlsError.                                                  *)
LEMMA FailStep ==
  ASSUME RInv, Readable, NEW err \in {"capacity", "tls"}, fail(err), Ends("failed"),
         peer' = peer, tls' = tls, calls' = calls, pauses' = pauses, threw' = threw
  PROVE  RInv'
<1>1. Parts /\ StackOK /\ PeerEndKeepsFrames /\ LifeOK
  BY PartsOK, Zenon DEF RInv
<1>2. raw.life = "open" /\ ~shim.closing /\ err \in Causes
  BY Zenon DEF Readable, Causes
<1>3. /\ Settled
      /\ raw' \in RawSet /\ ~raw'.reading /\ NotifyLast(raw'.written)
      /\ raw'.life = IF raw.life = "open" THEN "closing" ELSE raw.life
      /\ shim' \in ShimSet /\ shim'.closing = TRUE /\ shim'.terminal_error = err
      /\ client' \in ClientSet
      /\ client'.handshake = IF client.handshake = "pending" THEN err ELSE client.handshake
      /\ client'.bytes = client.bytes
  BY <1>2, FailEffect, Zenon
<1>4. ended' = "failed" /\ ended' \in EndSet
  BY <1>1, <1>2, Zenon DEF LifeOK, Ends, EndSet
<1>5. client'.handshake # "pending" /\ client'.handshake # "lost"
  BY <1>1, <1>2, <1>3, Zenon DEF LifeOK
<1>6. FailOK'
  BY <1>2, <1>3, <1>4, <1>5, Zenon DEF FailOK
<1>7. PeerEndKeepsFrames' /\ StackOK' /\ calls' \in Seq(CallSet)
  BY <1>1, <1>3, <1>4, EndKept, Zenon DEF StackOK, Parts
<1>8. /\ raw.life # "new" /\ (shim.closing => shim'.closing)
      /\ ~shim'.closing => NoNotify(raw'.written)
      /\ client'.handshake = client.handshake \/ client'.handshake # "lost"
  BY <1>2, <1>3, <1>5, Zenon
<1> QED BY <1>3, <1>4, <1>6, <1>7, <1>8, StopStep, Zenon

(* A read over the limit keeps RInv.                                        *)
LEMMA OverflowStep ==
  ASSUME RInv, Overflows
  PROVE  RInv'
<1>1. /\ Readable /\ fail("capacity") /\ Ends("failed") /\ peer' = peer /\ tls' = tls
      /\ calls' = calls /\ pauses' = pauses /\ threw' = threw
  BY Zenon DEF Overflows
<1> QED BY <1>1, FailStep, Zenon

(* A TLS error keeps RInv.                                                  *)
LEMMA TlsErrorStep ==
  ASSUME RInv, TlsError
  PROVE  RInv'
<1>1. /\ Readable /\ fail("tls") /\ Ends("failed") /\ peer' = peer /\ tls' = tls
      /\ calls' = calls /\ pauses' = pauses /\ threw' = threw
  BY Zenon DEF TlsError
<1> QED BY <1>1, FailStep, Zenon

(* Ending with nothing complete in the buffer.                              *)
LEMMA EndComplete ==
  ASSUME TypeOK, InOrder, RemainingAgrees, raw.life # "lost", Pending = 0 \/ Waits,
         peer' = peer, client'.bytes = client.bytes
  PROVE  PeerEndKeepsFrames'
<1>1. \A f \in peer.stream.frames : f.last <= peer.arrived => f.last <= Len(client.bytes)
  BY NothingComplete DEF Delivered
<1> QED BY <1>1, Zenon DEF PeerEndKeepsFrames

(* eof_received() keeps RInv: one that reads holds no complete unit.        *)
LEMMA EofStep ==
  ASSUME RInv, eof_received
  PROVE  RInv'
<1>1. /\ calls = <<>> /\ raw.life = "open" /\ raw.reading /\ raw' = Stopped(raw) /\ Ends("eof")
      /\ peer' = peer /\ tls' = tls /\ shim' = shim /\ client' = client /\ calls' = calls
      /\ pauses' = pauses /\ threw' = threw
  BY Zenon DEF eof_received, Quiet
<1>2. /\ Parts /\ TypeOK /\ InOrder /\ RemainingAgrees /\ StackOK /\ LifeOK /\ ReadOK
      /\ WriteOK
  BY PartsOK, Zenon DEF RInv
<1>3. /\ raw \in RawSet /\ shim \in ShimSet /\ client \in ClientSet /\ calls \in Seq(CallSet)
      /\ ~shim.closing /\ ended = "no"
  BY <1>1, <1>2, Zenon DEF Parts, LifeOK
<1>4. /\ raw' \in RawSet /\ ~raw'.reading /\ raw'.written = raw.written
      /\ raw'.life = IF raw.life = "open" THEN "closing" ELSE raw.life
  BY <1>1, <1>3, StoppedOK, Zenon
<1>5. Settled
  BY <1>1, <1>4, Zenon DEF Settled
<1>6. NoNotify(raw'.written) /\ NotifyLast(raw'.written)
  BY <1>3, <1>4, NotFailed, Zenon DEF NoNotify, NotifyLast
<1>7. ended' = "eof" /\ ended' \in EndSet
  BY <1>1, <1>3, Zenon DEF Ends, EndSet
<1>8. Pending = 0 \/ Waits
  BY <1>1, <1>2, Zenon DEF ReadOK
<1>9. PeerEndKeepsFrames'
  BY <1>1, <1>2, <1>8, EndComplete, Zenon
<1>10. FailOK' /\ StackOK'
  BY <1>1, <1>2, <1>7, Zenon DEF FailOK, StackOK
<1>11. /\ raw.life # "new" /\ (shim.closing => shim'.closing)
       /\ ~shim'.closing => NoNotify(raw'.written)
       /\ client'.handshake = client.handshake \/ client'.handshake # "lost"
       /\ calls' \in Seq(CallSet) /\ client' \in ClientSet /\ shim' \in ShimSet
  BY <1>1, <1>3, <1>6, Zenon
<1> QED BY <1>1, <1>4, <1>5, <1>6, <1>7, <1>9, <1>10, <1>11, StopStep, Zenon

(* The stack after a call has gone.                                         *)
LEMMA PopStack ==
  ASSUME RInv, calls # <<>>, calls' = Pop
  PROVE  /\ calls' \in Seq(CallSet) /\ StackOK' /\ raw.life # "new" /\ Top \in CallSet
         /\ Top.op = "data_received" => calls' = <<>> /\ calls[1] = Top /\ ~Resuming
         /\ calls' # <<>> => calls'[1] = calls[1]
         /\ calls' = <<>> => calls[1] = Top
<1>1. calls \in Seq(CallSet) /\ StackOK /\ raw.life # "new"
  BY PartsOK, Zenon DEF RInv, Parts, LifeOK
<1>2. /\ Len(calls) \in Nat \ {0} /\ Pop \in Seq(CallSet) /\ Len(Pop) = Len(calls) - 1
      /\ \A i \in 1..(Len(calls) - 1) : Pop[i] = calls[i]
      /\ Top \in CallSet
  BY <1>1, PopOK
<1>3. PICK n \in Nat \ {0} : n = Len(calls)
  BY <1>2
<1>4. StackOK'
  <2> SUFFICES ASSUME NEW i \in 2..(n - 1) PROVE Pop[i].op = "resume_reading"
    BY <1>2, <1>3, Zenon DEF StackOK
  <2>1. i \in 1..(n - 1) /\ i \in 2..n
    BY SMT
  <2> QED BY <1>1, <1>2, <1>3, <2>1, Zenon DEF StackOK
<1>5. calls' # <<>> => calls'[1] = calls[1]
  <2> SUFFICES ASSUME Pop # <<>> PROVE Pop[1] = calls[1]
    OBVIOUS
  <2>1. n - 1 \in Nat \ {0}
    BY <1>2, <1>3, EmptySeq, Zenon
  <2>2. 1 \in 1..(n - 1)
    BY <2>1, SMT
  <2> QED BY <1>2, <1>3, <2>2, Zenon
<1>6. calls' = <<>> => calls[1] = Top
  <2> SUFFICES ASSUME Pop = <<>> PROVE calls[1] = Top
    OBVIOUS
  <2>1. n - 1 = 0
    BY <1>2, <1>3, EmptySeq, Zenon
  <2>2. n = 1
    BY <2>1, SMT
  <2> QED BY <1>3, <2>2, Zenon DEF Top
<1>7. Top.op = "data_received" => calls' = <<>> /\ calls[1] = Top /\ ~Resuming
  <2> SUFFICES ASSUME Top.op = "data_received"
               PROVE  Pop = <<>> /\ calls[1] = Top /\ ~Resuming
    OBVIOUS
  <2>1. n \notin 2..n
    BY <1>1, <1>3, Zenon DEF StackOK, Top
  <2>2. n = 1
    BY <2>1, SMT
  <2>3. calls[1] = Top
    BY <1>3, <2>2, Zenon DEF Top
  <2>4. \A i \in 1..1 : i = 1
    BY SMT
  <2>5. ~Resuming
    BY <1>3, <2>2, <2>3, <2>4, Zenon DEF Resuming
  <2>6. ~(n - 1 \in Nat \ {0})
    BY <2>2, SMT
  <2>7. Pop = <<>>
    BY <1>2, <1>3, <2>6, EmptySeq, Zenon
  <2> QED BY <2>3, <2>5, <2>7
<1> QED BY <1>1, <1>2, <1>4, <1>5, <1>6, <1>7

(* finish_peer_close() with an empty buffer keeps RInv.                     *)
LEMMA PeerClosesStep ==
  ASSUME RInv, PeerCloses
  PROVE  RInv'
<1>1. /\ calls # <<>> /\ ~shim.closing /\ Pending = 0 /\ CloseNow(Emptied)
      /\ calls' = Pop /\ Ends("peer")
      /\ peer' = peer /\ tls' = tls /\ client' = client /\ pauses' = pauses /\ threw' = threw
  BY Zenon DEF PeerCloses, Returns, PeerCloseDue
<1>2. Parts /\ TypeOK /\ InOrder /\ RemainingAgrees
  BY PartsOK, Zenon DEF RInv
<1>3. shim \in ShimSet /\ client \in ClientSet /\ ended \in EndSet
  BY <1>2, Zenon DEF Parts
<1>4. /\ Emptied \in ShimSet /\ Emptied.plaintext = <<>> /\ Emptied.used = 0
      /\ Emptied.websocket_mode = shim.websocket_mode
      /\ Emptied.frame_remaining = shim.frame_remaining
  <2>1. <<>> \in Seq(Nat) /\ 0 \in Nat
    BY EmptySeq, SMT
  <2> QED BY <1>1, <1>3, <2>1, Zenon DEF ShimSet, Emptied
<1>5. /\ raw' \in RawSet /\ ~raw'.reading /\ NotifyLast(raw'.written)
      /\ raw'.life = IF raw.life = "open" THEN "closing" ELSE raw.life
      /\ shim' \in ShimSet /\ shim'.closing = TRUE
      /\ shim'.plaintext = <<>> /\ shim'.used = 0
      /\ shim'.websocket_mode = shim.websocket_mode
      /\ shim'.frame_remaining = shim.frame_remaining
      /\ raw.life = "lost" => raw'.life = "lost"
  BY <1>1, <1>4, CloseNowOK, Zenon
<1>6. Settled
  BY <1>1, <1>5, Zenon DEF Settled
<1>7. calls' \in Seq(CallSet) /\ StackOK' /\ raw.life # "new"
  BY <1>1, PopStack
<1>8. ended' \in EndSet /\ ended' # "failed" /\ raw.life # "lost"
  BY <1>1, <1>3, NotFailed, Zenon DEF Ends, EndSet
<1>9. PeerEndKeepsFrames'
  BY <1>1, <1>2, <1>8, EndComplete, Zenon
<1>10. /\ FailOK' /\ (shim.closing => shim'.closing)
       /\ ~shim'.closing => NoNotify(raw'.written)
       /\ client'.handshake = client.handshake \/ client'.handshake # "lost"
       /\ client' \in ClientSet
  BY <1>1, <1>3, <1>5, <1>8, Zenon DEF FailOK
<1> QED BY <1>1, <1>5, <1>6, <1>7, <1>8, <1>9, <1>10, StopStep, Zenon

(* finish_peer_close() with a rest keeps RInv: the rest is incomplete.      *)
LEMMA PeerTruncatesStep ==
  ASSUME RInv, PeerTruncates
  PROVE  RInv'
<1>1. /\ calls # <<>> /\ DrainStops /\ ~shim.closing /\ ~shim.read_paused /\ Pending > 0
      /\ fail("truncated") /\ calls' = Pop /\ Ends("peer")
      /\ peer' = peer /\ tls' = tls /\ pauses' = pauses /\ threw' = threw
  BY Zenon DEF PeerTruncates, Returns, PeerCloseDue
<1>2. Parts /\ TypeOK /\ InOrder /\ RemainingAgrees /\ LifeOK
  BY PartsOK, Zenon DEF RInv
<1>3. ended \in EndSet /\ "truncated" \in Causes
  BY <1>2, Zenon DEF Parts, Causes
<1>4. /\ Settled
      /\ raw' \in RawSet /\ ~raw'.reading /\ NotifyLast(raw'.written)
      /\ raw'.life = IF raw.life = "open" THEN "closing" ELSE raw.life
      /\ shim' \in ShimSet /\ shim'.closing = TRUE
      /\ client' \in ClientSet
      /\ client'.handshake = IF client.handshake = "pending" THEN "truncated" ELSE client.handshake
      /\ client'.bytes = client.bytes
  BY <1>1, <1>3, FailEffect, Zenon
<1>5. calls' \in Seq(CallSet) /\ StackOK' /\ raw.life # "new"
  BY <1>1, PopStack
<1>6. ended' \in EndSet /\ ended' # "failed" /\ raw.life # "lost"
  BY <1>1, <1>3, NotFailed, Zenon DEF Ends, EndSet
<1>7. Waits
  <2>1. Pending # 0
    BY <1>1, SMT
  <2>2. Incomplete
    BY <1>1, <2>1, Zenon DEF DrainStops
  <2> QED BY <1>2, <2>2, IncompleteWaits
<1>8. PeerEndKeepsFrames'
  BY <1>1, <1>2, <1>4, <1>6, <1>7, EndComplete, Zenon
<1>9. /\ FailOK' /\ (shim.closing => shim'.closing)
      /\ ~shim'.closing => NoNotify(raw'.written)
      /\ client'.handshake = client.handshake \/ client'.handshake # "lost"
  BY <1>1, <1>4, <1>6, Zenon DEF FailOK
<1> QED BY <1>1, <1>4, <1>5, <1>6, <1>8, <1>9, StopStep, Zenon

(* A step that leaves the connection as alive as it was.                    *)
LEMMA OpenStep ==
  ASSUME RInv, raw.life # "new", Settled, tls' = tls, client' = client, ended' = ended,
         raw' \in RawSet, raw'.life = raw.life, raw'.written = raw.written,
         shim' \in ShimSet, shim'.closing = shim.closing,
         shim'.terminal_error = shim.terminal_error,
         pauses' \in Nat, threw' \in BOOLEAN, calls' \in Seq(CallSet), StackOK', ReadOK'
  PROVE  RInv'
<1>1. /\ Parts /\ TypeOK /\ LifeOK /\ WriteOK /\ InOrder /\ RemainingAgrees /\ HeldBounded
      /\ FailOK /\ PeerEndKeepsFrames /\ peer' = peer
  BY PartsOK, Zenon DEF RInv, Settled
<1>2. InOrder' /\ RemainingAgrees' /\ HeldBounded'
  BY <1>1, SettledOK
<1>3. shim'.used <= Len(shim'.plaintext)
  <2>1. 0 <= Len(<<>>)
    BY EmptySeq, SMT
  <2> QED BY <1>1, <2>1, Zenon DEF Settled, Parts
<1>4. TypeOK'
  BY <1>1, <1>3, PartsPrime, Zenon DEF Parts
<1>5. LifeOK'
  BY <1>1, Zenon DEF LifeOK, Settled
<1>6. FailOK'
  BY <1>1, Zenon DEF FailOK
<1>7. WriteOK'
  BY <1>1, Zenon DEF WriteOK
<1>8. PeerEndKeepsFrames'
  BY <1>1, EndKept, Zenon
<1> QED BY <1>2, <1>4, <1>5, <1>6, <1>7, <1>8 DEF RInv

(* An exception leaves the innermost call.                                  *)
LEMMA UnwindStep ==
  ASSUME RInv, calls # <<>>, Unwind, peer' = peer, tls' = tls, shim' = shim,
         client' = client, pauses' = pauses
  PROVE  RInv'
<1>1. /\ Parts /\ TypeOK /\ LifeOK /\ FailOK /\ WriteOK /\ ReadOK /\ PeerEndKeepsFrames
      /\ InOrder /\ RemainingAgrees /\ HeldBounded
  BY PartsOK, Zenon DEF RInv
<1>2. /\ calls' = Pop
      /\ IF Top.op = "data_received"
         THEN raw' = Stopped(raw) /\ Ends("raised") /\ threw' = threw
         ELSE threw' = TRUE /\ raw' = raw /\ ended' = ended
  BY Zenon DEF Unwind
<1>3. /\ calls' \in Seq(CallSet) /\ StackOK' /\ raw.life # "new"
      /\ calls' # <<>> => calls'[1] = calls[1]
      /\ calls' = <<>> => calls[1] = Top
  BY <1>2, PopStack
<1>4. /\ raw \in RawSet /\ shim \in ShimSet /\ client \in ClientSet /\ pauses \in Nat
      /\ ended \in EndSet
  BY <1>1, Zenon DEF Parts
<1>5. CASE Top.op = "data_received"
  <2>1. /\ raw' \in RawSet /\ ~raw'.reading /\ raw'.written = raw.written
        /\ raw'.life = IF raw.life = "open" THEN "closing" ELSE raw.life
    BY <1>2, <1>4, <1>5, StoppedOK, Zenon
  <2>2. Settled
    BY <2>1, Zenon DEF Settled
  <2>3. NotifyLast(raw'.written) /\ (~shim'.closing => NoNotify(raw'.written))
    BY <1>1, <2>1, Zenon DEF WriteOK, NotifyLast, NoNotify
  <2>4. ended' = "raised" \/ ended' = ended
    BY <1>2, <1>5, Zenon DEF Ends
  <2>5. ended' \in EndSet
    BY <1>4, <2>4, Zenon DEF EndSet
  <2>6. PeerEndKeepsFrames'
    BY <1>1, <2>4, EndKept, Zenon
  <2>7. FailOK'
    BY <1>1, <2>1, <2>4, Zenon DEF FailOK
  <2>8. /\ (shim.closing => shim'.closing)
        /\ client'.handshake = client.handshake \/ client'.handshake # "lost"
        /\ shim' \in ShimSet /\ client' \in ClientSet /\ threw' = threw
    BY <1>2, <1>4, <1>5, Zenon
  <2> QED BY <1>3, <2>1, <2>2, <2>3, <2>5, <2>6, <2>7, <2>8, StopStep, Zenon
<1>6. CASE Top.op # "data_received"
  <2>1. Settled /\ raw' = raw /\ threw' = TRUE /\ ended' = ended
    BY <1>2, <1>6, Zenon DEF Settled
  <2>2. Pending' = Pending /\ (Waits => Waits')
    BY <1>1, <2>1, SettledOK
  <2>3. (calls' # <<>> => calls'[1].op # "data_received")
          => (calls # <<>> => calls[1].op # "data_received")
    BY <1>3, <1>6, Zenon
  <2>4. ReadOK'
    BY <1>1, <2>1, <2>2, <2>3, Zenon DEF ReadOK
  <2>5. /\ raw' \in RawSet /\ raw'.life = raw.life /\ raw'.written = raw.written
        /\ shim' \in ShimSet /\ shim'.closing = shim.closing
        /\ shim'.terminal_error = shim.terminal_error
        /\ pauses' \in Nat /\ threw' \in BOOLEAN
    BY <1>4, <2>1, Zenon
  <2> QED BY <1>3, <2>1, <2>4, <2>5, OpenStep, Zenon
<1> QED BY <1>5, <1>6

(* Exceptions of the drain and of the application keep RInv.                *)
LEMMA RaisesStep ==
  ASSUME RInv, DrainRaises \/ AppRaises
  PROVE  RInv'
<1>1. /\ calls # <<>> /\ Unwind /\ peer' = peer /\ tls' = tls /\ shim' = shim
      /\ client' = client /\ pauses' = pauses
  BY Zenon DEF DrainRaises, AppRaises, Quiet
<1> QED BY <1>1, UnwindStep

(* The return of a call keeps RInv: a resume makes the transport read.      *)
LEMMA ReturnsStep ==
  ASSUME RInv, CallReturns
  PROVE  RInv'
<1>1. /\ calls # <<>> /\ DrainStops /\ shim' = Emptied /\ raw' = RawAfter /\ calls' = Pop
      /\ peer' = peer /\ tls' = tls /\ client' = client /\ pauses' = pauses
      /\ ended' = ended /\ threw' = threw
  BY Zenon DEF CallReturns, Returns
<1>2. /\ Parts /\ TypeOK /\ LifeOK /\ ReadOK /\ InOrder /\ RemainingAgrees /\ HeldBounded
  BY PartsOK, Zenon DEF RInv
<1>3. /\ raw \in RawSet /\ shim \in ShimSet /\ pauses \in Nat /\ threw \in BOOLEAN
  BY <1>2, Zenon DEF Parts
<1>4. /\ shim' \in ShimSet /\ shim'.closing = shim.closing
      /\ shim'.terminal_error = shim.terminal_error /\ shim'.read_paused = shim.read_paused
      /\ shim'.websocket_mode = shim.websocket_mode
      /\ shim'.frame_remaining = shim.frame_remaining
      /\ \/ shim'.plaintext = shim.plaintext /\ shim'.used = shim.used
         \/ Pending = 0 /\ shim'.plaintext = <<>> /\ shim'.used = 0
  <2>1. <<>> \in Seq(Nat) /\ 0 \in Nat
    BY EmptySeq, SMT
  <2> QED BY <1>1, <1>3, <2>1, Zenon DEF ShimSet, Emptied
<1>5. /\ raw' \in RawSet /\ raw'.life = raw.life /\ raw'.written = raw.written
      /\ raw'.reading =
           (raw.reading \/ (/\ Top.op = "resume_reading" /\ ~shim.closing
                            /\ ~shim.read_paused /\ raw.life = "open"))
  BY <1>1, <1>3, Zenon DEF RawSet, RawAfter
<1>6. Settled
  BY <1>1, <1>4, <1>5, Zenon DEF Settled
<1>7. Pending' = Pending /\ (Waits => Waits')
  BY <1>2, <1>6, SettledOK
<1>8. /\ calls' \in Seq(CallSet) /\ StackOK' /\ raw.life # "new" /\ Top \in CallSet
      /\ Top.op = "data_received" => calls' = <<>> /\ calls[1] = Top /\ ~Resuming
  BY <1>1, PopStack
<1>9. ReadOK'
  <2>1. raw'.reading => raw'.life = "open" /\ ~shim'.read_paused
    BY <1>2, <1>4, <1>5, Zenon DEF ReadOK
  <2>2. Top.op = "data_received" \/ Top.op = "resume_reading"
    BY <1>8, Zenon DEF CallSet
  <2>3. raw'.life = "open" /\ ~shim'.closing /\ ~threw' /\ ~shim'.read_paused => raw'.reading
    BY <1>1, <1>2, <1>4, <1>5, <1>8, <2>2, Zenon DEF ReadOK
  <2>4. raw'.reading => Pending' = 0 \/ Waits'
    <3> SUFFICES ASSUME raw'.reading PROVE Pending = 0 \/ Waits
      BY <1>7, Zenon
    <3>1. ~shim.closing /\ ~shim.read_paused
      BY <1>2, <1>4, <1>5, <2>1, Zenon DEF LifeOK
    <3>2. Pending = 0 \/ Incomplete
      BY <1>1, <3>1, Zenon DEF DrainStops
    <3> QED BY <1>2, <3>2, IncompleteWaits
  <2> QED BY <2>1, <2>3, <2>4, Zenon DEF ReadOK
<1>10. pauses' \in Nat /\ threw' \in BOOLEAN
  BY <1>1, <1>3
<1> QED BY <1>1, <1>4, <1>5, <1>6, <1>8, <1>9, <1>10, OpenStep, Zenon

(* pause_reading() keeps RInv.                                              *)
LEMMA PauseStep ==
  ASSUME RInv, pause_reading
  PROVE  RInv'
<1>1. /\ Application /\ ~shim.read_paused /\ pauses' = pauses + 1
      /\ shim' = [shim EXCEPT !.read_paused = TRUE] /\ raw' = [raw EXCEPT !.reading = FALSE]
      /\ peer' = peer /\ tls' = tls /\ client' = client /\ calls' = calls
      /\ ended' = ended /\ threw' = threw
  BY Zenon DEF pause_reading
<1>2. Parts /\ LifeOK /\ StackOK
  BY PartsOK, Zenon DEF RInv
<1>3. /\ raw \in RawSet /\ shim \in ShimSet /\ pauses \in Nat /\ threw \in BOOLEAN
      /\ calls \in Seq(CallSet)
  BY <1>2, Zenon DEF Parts
<1>4. /\ raw' \in RawSet /\ raw'.life = raw.life /\ raw'.written = raw.written /\ ~raw'.reading
  BY <1>1, <1>3, Zenon DEF RawSet
<1>5. /\ shim' \in ShimSet /\ shim'.closing = shim.closing
      /\ shim'.terminal_error = shim.terminal_error /\ shim'.read_paused = TRUE
      /\ shim'.websocket_mode = shim.websocket_mode
      /\ shim'.frame_remaining = shim.frame_remaining
      /\ shim'.plaintext = shim.plaintext /\ shim'.used = shim.used
  BY <1>1, <1>3, Zenon DEF ShimSet
<1>6. Settled
  BY <1>1, <1>4, <1>5, Zenon DEF Settled
<1>7. ReadOK'
  BY <1>4, <1>5, Zenon DEF ReadOK
<1>8. raw.life # "new"
  BY <1>1, <1>2, Zenon DEF Application, LifeOK
<1>9. pauses' \in Nat
  BY <1>1, <1>3, SMT
<1>10. threw' \in BOOLEAN /\ calls' \in Seq(CallSet) /\ StackOK'
  BY <1>1, <1>2, <1>3, Zenon DEF StackOK
<1> QED BY <1>1, <1>4, <1>5, <1>6, <1>7, <1>8, <1>9, <1>10, OpenStep, Zenon

(* resume_reading() keeps RInv: the new call is on the stack.               *)
LEMMA ResumeStep ==
  ASSUME RInv, resume_reading
  PROVE  RInv'
<1>1. /\ Application /\ shim.read_paused
      /\ shim' = [shim EXCEPT !.read_paused = FALSE]
      /\ calls' = Append(calls, Call("resume_reading"))
      /\ peer' = peer /\ tls' = tls /\ raw' = raw /\ client' = client /\ pauses' = pauses
      /\ ended' = ended /\ threw' = threw
  BY Zenon DEF resume_reading
<1>2. Parts /\ LifeOK /\ StackOK /\ ReadOK
  BY PartsOK, Zenon DEF RInv
<1>3. /\ raw \in RawSet /\ shim \in ShimSet /\ pauses \in Nat /\ threw \in BOOLEAN
      /\ calls \in Seq(CallSet)
  BY <1>2, Zenon DEF Parts
<1>4. /\ shim' \in ShimSet /\ shim'.closing = shim.closing
      /\ shim'.terminal_error = shim.terminal_error
      /\ shim'.websocket_mode = shim.websocket_mode
      /\ shim'.frame_remaining = shim.frame_remaining
      /\ shim'.plaintext = shim.plaintext /\ shim'.used = shim.used
  BY <1>1, <1>3, Zenon DEF ShimSet
<1>5. Settled
  BY <1>1, <1>4, Zenon DEF Settled
<1>6. Call("resume_reading") \in CallSet /\ Call("resume_reading").op = "resume_reading"
  BY Zenon DEF CallSet, Call
<1>7. PICK n \in Nat : n = Len(calls)
  BY <1>3, LenProperties
<1>8. /\ calls' \in Seq(CallSet) /\ Len(calls') = n + 1
      /\ \A i \in 1..n : calls'[i] = calls[i]
      /\ calls'[n + 1] = Call("resume_reading")
  BY <1>1, <1>3, <1>6, <1>7, AppendProperties
<1>9. StackOK'
  <2> SUFFICES ASSUME NEW i \in 2..(n + 1) PROVE calls'[i].op = "resume_reading"
    BY <1>8, Zenon DEF StackOK
  <2>1. CASE i = n + 1
    BY <1>6, <1>8, <2>1, Zenon
  <2>2. CASE i # n + 1
    <3>1. i \in 1..n /\ i \in 2..n
      BY <2>2, SMT
    <3> QED BY <1>2, <1>7, <1>8, <3>1, Zenon DEF StackOK
  <2> QED BY <2>1, <2>2
<1>10. Resuming'
  <2>1. n + 1 \in 1..(n + 1)
    BY SMT
  <2> QED BY <1>6, <1>8, <2>1, Zenon DEF Resuming
<1>11. ReadOK'
  BY <1>1, <1>2, <1>10, Zenon DEF ReadOK
<1>12. raw.life # "new"
  BY <1>1, <1>2, Zenon DEF Application, LifeOK
<1>13. /\ raw' \in RawSet /\ raw'.life = raw.life /\ raw'.written = raw.written
       /\ threw' \in BOOLEAN /\ pauses' \in Nat
  BY <1>1, <1>3, Zenon
<1> QED BY <1>1, <1>4, <1>5, <1>8, <1>9, <1>11, <1>12, <1>13, OpenStep, Zenon

(* The calls on the stack stay, wherever they are.                          *)
SameCalls == /\ Len(calls') = Len(calls) /\ Len(calls) \in Nat \ {0}
             /\ \A i \in 1..Len(calls) : calls'[i].op = calls[i].op

(* Moving the innermost call to another place keeps the calls.              *)
LEMMA SameCallsOK ==
  ASSUME calls \in Seq(CallSet), calls # <<>>, NEW x \in {"drain", "inner", "app"},
         calls' = [calls EXCEPT ![Len(calls)].at = x]
  PROVE  calls' \in Seq(CallSet) /\ SameCalls
  BY AtOK, PopOK, Zenon DEF SameCalls

(* And what is known of their order.                                        *)
LEMMA SameCallsStack ==
  ASSUME StackOK, SameCalls
  PROVE  /\ StackOK' /\ (Resuming => Resuming')
         /\ calls' # <<>> /\ calls'[1].op = calls[1].op
<1>1. PICK n \in Nat \ {0} : n = Len(calls)
  BY DEF SameCalls
<1>2. 1 \in 1..n /\ \A i \in 2..n : i \in 1..n
  BY SMT
<1>3. Len(<<>>) = 0 /\ n # 0
  BY EmptySeq, SMT
<1> QED BY <1>1, <1>2, <1>3, Zenon DEF SameCalls, StackOK, Resuming

(* The return of application code keeps RInv.                               *)
LEMMA AppReturnsStep ==
  ASSUME RInv, AppReturns
  PROVE  RInv'
<1>1. /\ calls # <<>> /\ calls' = [calls EXCEPT ![Len(calls)].at = "drain"]
      /\ peer' = peer /\ tls' = tls /\ raw' = raw /\ shim' = shim /\ client' = client
      /\ pauses' = pauses /\ ended' = ended /\ threw' = threw
  BY Zenon DEF AppReturns
<1>2. /\ Parts /\ TypeOK /\ LifeOK /\ ReadOK /\ StackOK
      /\ InOrder /\ RemainingAgrees /\ HeldBounded
  BY PartsOK, Zenon DEF RInv
<1>3. /\ raw \in RawSet /\ shim \in ShimSet /\ pauses \in Nat /\ threw \in BOOLEAN
      /\ calls \in Seq(CallSet) /\ raw.life # "new"
  BY <1>1, <1>2, Zenon DEF Parts, LifeOK
<1>4. calls' \in Seq(CallSet) /\ SameCalls
  BY <1>1, <1>3, SameCallsOK, Zenon
<1>5. Settled
  BY <1>1, Zenon DEF Settled
<1>6. Pending' = Pending /\ (Waits => Waits')
  BY <1>2, <1>5, SettledOK
<1>7. /\ StackOK' /\ (Resuming => Resuming')
      /\ calls' # <<>> /\ calls'[1].op = calls[1].op
  BY <1>2, <1>4, SameCallsStack
<1>8. ReadOK'
  BY <1>1, <1>2, <1>6, <1>7, Zenon DEF ReadOK
<1>9. /\ raw' \in RawSet /\ raw'.life = raw.life /\ raw'.written = raw.written
      /\ shim' \in ShimSet /\ shim'.closing = shim.closing
      /\ shim'.terminal_error = shim.terminal_error
      /\ pauses' \in Nat /\ threw' \in BOOLEAN
  BY <1>1, <1>3, Zenon
<1> QED BY <1>1, <1>3, <1>4, <1>5, <1>7, <1>8, <1>9, OpenStep, Zenon

(* connection_lost() keeps RInv: the noted cause is passed on.              *)
LEMMA LostStep ==
  ASSUME RInv, NEW exc \in {"clean", "reset"}, connection_lost(exc)
  PROVE  RInv'
<1>1. /\ calls = <<>> /\ raw.life \in {"open", "closing"}
      /\ raw' = [raw EXCEPT !.life = "lost", !.reading = FALSE]
      /\ shim' = [shim EXCEPT !.closing = TRUE, !.plaintext = <<>>, !.used = 0,
                              !.inner = FALSE, !.terminal_error = NoError]
      /\ client' = [client EXCEPT !.lost = LostCause(exc),
                      !.handshake = IF client.handshake = "pending" THEN "lost"
                                    ELSE client.handshake]
      /\ Ends("reset") /\ peer' = peer /\ tls' = tls /\ calls' = calls
      /\ pauses' = pauses /\ threw' = threw
  BY Zenon DEF connection_lost, Quiet
<1>2. /\ Parts /\ TypeOK /\ LifeOK /\ InOrder /\ RemainingAgrees /\ HeldBounded
      /\ FailOK /\ StackOK /\ WriteOK /\ PeerEndKeepsFrames
  BY PartsOK, Zenon DEF RInv
<1>3. /\ raw \in RawSet /\ shim \in ShimSet /\ client \in ClientSet /\ ended \in EndSet
  BY <1>2, Zenon DEF Parts
<1>4. /\ raw' \in RawSet /\ raw'.life = "lost" /\ raw'.reading = FALSE
      /\ raw'.written = raw.written
  BY <1>1, <1>3, Zenon DEF RawSet
<1>5. /\ shim' \in ShimSet /\ shim'.closing = TRUE /\ shim'.plaintext = <<>> /\ shim'.used = 0
      /\ shim'.websocket_mode = shim.websocket_mode
      /\ shim'.frame_remaining = shim.frame_remaining
      /\ shim'.used <= Len(shim'.plaintext)
  <2>1. <<>> \in Seq(Nat) /\ 0 \in Nat /\ 0 <= Len(<<>>)
    BY EmptySeq, SMT
  <2> QED BY <1>1, <1>3, <2>1, Zenon DEF ShimSet
<1>6. LostCause(exc) \in Causes \cup {NoError, "clean", "reset"}
  BY <1>3, Zenon DEF LostCause, ShimSet
<1>7. /\ client' \in ClientSet /\ client'.bytes = client.bytes
      /\ client'.lost = LostCause(exc)
      /\ client'.handshake = IF client.handshake = "pending" THEN "lost" ELSE client.handshake
  BY <1>1, <1>3, <1>6, Zenon DEF ClientSet
<1>8. /\ ended' \in EndSet
      /\ ended' = ended \/ ended' \notin {"peer", "eof", "failed"}
  BY <1>1, <1>3, Zenon DEF Ends, EndSet
<1>9. TypeOK'
  BY <1>1, <1>2, <1>4, <1>5, <1>7, <1>8, PartsPrime, Zenon DEF Parts
<1>10. InOrder' /\ RemainingAgrees' /\ HeldBounded'
  <2>1. Len(<<>>) = 0 /\ 1..0 = {} /\ 0 <= MaxPending
    BY EmptySeq, BoundsAssumption, SMT
  <2>2. InOrder'
    BY <1>1, <1>2, <1>4, <1>5, <1>7, <2>1, Zenon DEF InOrder, Delivered
  <2>3. RemainingAgrees'
    BY <1>1, <1>2, <1>5, <1>7, Zenon DEF RemainingAgrees
  <2>4. HeldBounded'
    BY <1>5, <2>1, Zenon DEF HeldBounded
  <2> QED BY <2>2, <2>3, <2>4
<1>11. LifeOK'
  BY <1>4, <1>5, Zenon DEF LifeOK
<1>12. StackOK' /\ ReadOK'
  BY <1>1, <1>2, <1>4, Zenon DEF StackOK, ReadOK
<1>13. FailOK'
  <2> SUFFICES ASSUME ended' = "failed"
               PROVE  client'.handshake \notin {"pending", "lost"}
                      /\ client'.lost \in {"capacity", "tls"}
    BY <1>4, Zenon DEF FailOK
  <2>1. ended = "failed" /\ raw.life # "lost"
    BY <1>1, <1>8, Zenon
  <2>2. client.handshake \notin {"pending", "lost"} /\ shim.terminal_error \in {"capacity", "tls"}
    BY <1>2, <2>1, Zenon DEF FailOK
  <2>3. LostCause(exc) \in {"capacity", "tls"}
    BY <2>2, Zenon DEF LostCause, NoError
  <2> QED BY <1>7, <2>2, <2>3, Zenon
<1>14. WriteOK'
  BY <1>1, <1>2, <1>4, <1>5, Zenon DEF WriteOK
<1>15. PeerEndKeepsFrames'
  BY <1>1, <1>2, <1>7, <1>8, EndKept, Zenon
<1> QED BY <1>9, <1>10, <1>11, <1>12, <1>13, <1>14, <1>15 DEF RInv

(* The bytes up to position a.                                              *)
RunTo(s, a) == \A i \in 1..Len(s) : s[i] = a - Len(s) + i

(* The end of a buffer of consecutive bytes, and the bytes that follow it.  *)
LEMMA Appended ==
  ASSUME NEW t \in Seq(Nat), NEW u \in Nat, NEW a \in Nat, NEW n \in Nat, u <= Len(t),
         RunTo(t, a)
  PROVE  /\ SubSeq(t, u + 1, Len(t)) \in Seq(Nat)
         /\ Len(SubSeq(t, u + 1, Len(t))) = Len(t) - u
         /\ SubSeq(t, u + 1, Len(t)) \o Bytes(a, n) \in Seq(Nat)
         /\ Len(SubSeq(t, u + 1, Len(t)) \o Bytes(a, n)) = Len(t) - u + n
         /\ RunTo(SubSeq(t, u + 1, Len(t)) \o Bytes(a, n), a + n)
<1>1. PICK m \in Nat : m = Len(t)
  BY LenProperties
<1>2. u <= m /\ m <= Len(t)
  BY <1>1, SMT
<1> DEFINE h == SubSeq(t, u + 1, m)
           b == Bytes(a, n)
<1>3. h \in Seq(Nat) /\ Len(h) = m - u /\ \A i \in 1..(m - u) : h[i] = t[u + i]
  BY <1>2, Slice, Zenon
<1>4. b \in Seq(Nat) /\ Len(b) = n /\ \A i \in 1..n : b[i] = a + i
  BY BytesOK, Zenon
<1> HIDE DEF h, b
<1>5. /\ h \o b \in Seq(Nat) /\ Len(h \o b) = (m - u) + n
      /\ \A i \in 1..((m - u) + n) :
           (h \o b)[i] = IF i <= m - u THEN h[i] ELSE b[i - (m - u)]
  <2>1. /\ h \o b \in Seq(Nat) /\ Len(h \o b) = Len(h) + Len(b)
        /\ \A i \in 1 .. Len(h) + Len(b) :
             (h \o b)[i] = IF i <= Len(h) THEN h[i] ELSE b[i - Len(h)]
    BY <1>3, <1>4, ConcatProperties, Zenon
  <2> QED BY <1>3, <1>4, <2>1, Zenon
<1>6. \A i \in 1..(m - u + n) : (h \o b)[i] = (a + n) - (m - u + n) + i
  <2> SUFFICES ASSUME NEW i \in 1..(m - u + n)
               PROVE  (h \o b)[i] = (a + n) - (m - u + n) + i
    BY Zenon
  <2>1. CASE i <= m - u
    <3>1. u + i \in 1..m /\ i \in 1..(m - u) /\ a - m + (u + i) = (a + n) - (m - u + n) + i
      BY <1>2, <2>1, SMT
    <3>2. t[u + i] = a - m + (u + i)
      BY <1>1, <3>1, Zenon DEF RunTo
    <3> QED BY <1>3, <1>5, <2>1, <3>1, <3>2, Zenon
  <2>2. CASE ~(i <= m - u)
    <3>1. i - (m - u) \in 1..n /\ a + (i - (m - u)) = (a + n) - (m - u + n) + i
      BY <1>2, <2>2, SMT
    <3> QED BY <1>4, <1>5, <2>2, <3>1, Zenon
  <2> QED BY <2>1, <2>2, Zenon
<1>7. RunTo(h \o b, a + n)
  BY <1>5, <1>6, Zenon DEF RunTo
<1> QED BY <1>1, <1>3, <1>5, <1>7, Zenon DEF h, b

(* The buffer after an append: what was held, then what arrived.            *)
LEMMA CompactedOK ==
  ASSUME RInv, NEW n \in Nat, n > 0, Fits(n), raw.life # "lost",
         peer.arrived + n <= peer.stream.len
  PROVE  LET s == Compacted(n).plaintext IN
         /\ s = Held \o Bytes(peer.arrived, n)
         /\ s \in Seq(Nat) /\ Len(s) = Pending + n /\ Pending + n <= MaxPending
         /\ Held \in Seq(Nat) /\ Len(Held) = Pending
         /\ RunTo(s, peer.arrived + n)
         /\ Compacted(n) \in ShimSet /\ Compacted(n).used = 0
         /\ Compacted(n).websocket_mode = shim.websocket_mode
         /\ Compacted(n).frame_remaining = shim.frame_remaining
         /\ Compacted(n).closing = shim.closing
         /\ Compacted(n).read_paused = shim.read_paused
         /\ Compacted(n).terminal_error = shim.terminal_error
         /\ Compacted(n).inner = shim.inner
<1>1. Parts /\ TypeOK /\ InOrder
  BY PartsOK, Zenon DEF RInv
<1>2. shim \in ShimSet /\ 0 \in Nat
  BY <1>1, Zenon DEF Parts
<1> DEFINE t == shim.plaintext
           s == Held \o Bytes(peer.arrived, n)
<1>3. /\ t \in Seq(Nat) /\ shim.used \in Nat /\ peer.arrived \in Nat /\ shim.used <= Len(t)
      /\ RunTo(t, peer.arrived) /\ Pending = Len(t) - shim.used
  BY <1>1, Typed, Zenon DEF InOrder, Pending, RunTo
<1>4. Held = SubSeq(t, shim.used + 1, Len(t))
  BY Zenon DEF Held
<1> HIDE DEF t
<1>5. /\ Held \in Seq(Nat) /\ Len(Held) = Pending
      /\ s \in Seq(Nat) /\ Len(s) = Pending + n
      /\ RunTo(s, peer.arrived + n)
  <2>1. PICK u \in Nat, a \in Nat : u = shim.used /\ a = peer.arrived
    BY <1>3
  <2>2. u <= Len(t) /\ RunTo(t, a)
    BY <1>3, <2>1, Zenon
  <2>3. /\ SubSeq(t, u + 1, Len(t)) \in Seq(Nat)
        /\ Len(SubSeq(t, u + 1, Len(t))) = Len(t) - u
        /\ SubSeq(t, u + 1, Len(t)) \o Bytes(a, n) \in Seq(Nat)
        /\ Len(SubSeq(t, u + 1, Len(t)) \o Bytes(a, n)) = Len(t) - u + n
        /\ RunTo(SubSeq(t, u + 1, Len(t)) \o Bytes(a, n), a + n)
    BY <1>3, <2>2, Appended, Zenon
  <2> QED BY <1>3, <1>4, <2>1, <2>3, Zenon
<1> HIDE DEF s
<1>7. Compacted(n) = [shim EXCEPT !.plaintext = s, !.used = 0]
  BY <1>4, Zenon DEF Compacted, s, t
<1>9. /\ Compacted(n).plaintext = s
      /\ Compacted(n) \in ShimSet /\ Compacted(n).used = 0
      /\ Compacted(n).websocket_mode = shim.websocket_mode
      /\ Compacted(n).frame_remaining = shim.frame_remaining
      /\ Compacted(n).closing = shim.closing
      /\ Compacted(n).read_paused = shim.read_paused
      /\ Compacted(n).terminal_error = shim.terminal_error
      /\ Compacted(n).inner = shim.inner
  BY <1>2, <1>5, <1>7, Zenon DEF ShimSet
<1>10. Pending + n <= MaxPending
  BY DEF Fits
<1>11. s = Held \o Bytes(peer.arrived, n)
  BY DEF s
<1> QED BY <1>5, <1>9, <1>10, <1>11, Zenon

(* data_received() keeps RInv: the append continues the buffer.             *)
LEMMA DataStep ==
  ASSUME RInv, NEW n \in 0..MaxRead, NEW closes \in BOOLEAN, data_received(n, closes)
  PROVE  RInv'
<1>1. /\ calls = <<>> /\ raw.life = "open" /\ ~shim.closing /\ Fits(n)
      /\ peer.arrived + n <= peer.stream.len
      /\ peer' = [peer EXCEPT !.arrived = peer.arrived + n]
      /\ shim' = [IF n > 0 THEN Compacted(n) ELSE shim EXCEPT !.peer_closed = @ \/ closes]
      /\ calls' = <<Call("data_received")>>
      /\ tls' = tls /\ raw' = raw /\ client' = client /\ pauses' = pauses
      /\ ended' = ended /\ threw' = threw
  BY Zenon DEF data_received, Readable, Quiet
<1>2. /\ Parts /\ TypeOK /\ LifeOK /\ InOrder /\ RemainingAgrees /\ HeldBounded
      /\ FailOK /\ StackOK /\ WriteOK /\ ReadOK
  BY PartsOK, Zenon DEF RInv
<1>3. n \in Nat
  BY BoundsAssumption, SMT
<1>4. PICK a \in Nat, d \in Nat, p \in Nat :
        a = peer.arrived /\ d = Delivered /\ p = Pending
  BY <1>2, Numbers
<1>5. d + p = a
  BY <1>1, <1>2, <1>4, Zenon DEF InOrder
<1>6. a + n \in Nat /\ d + (p + n) = a + n /\ d <= a + n
  BY <1>3, <1>5, SMT
<1>7. /\ peer' \in [stream : Streams, arrived : Nat]
      /\ peer'.stream = peer.stream /\ peer'.arrived = a + n
  BY <1>1, <1>2, <1>4, <1>6, Zenon DEF Parts
<1>8. /\ shim' \in ShimSet /\ shim'.used <= Len(shim'.plaintext)
      /\ Len(shim'.plaintext) - shim'.used = p + n
      /\ RunTo(shim'.plaintext, a + n) /\ Len(shim'.plaintext) <= MaxPending
      /\ shim'.websocket_mode = shim.websocket_mode
      /\ shim'.frame_remaining = shim.frame_remaining
      /\ shim'.closing = shim.closing /\ shim'.read_paused = shim.read_paused
      /\ shim'.terminal_error = shim.terminal_error
  <2>1. CASE n > 0
    <3>1. raw.life # "lost"
      BY <1>1
    <3> DEFINE c == Compacted(n)
    <3>2. /\ Len(c.plaintext) = p + n /\ p + n <= MaxPending
          /\ RunTo(c.plaintext, a + n)
          /\ c \in ShimSet /\ c.used = 0
          /\ c.websocket_mode = shim.websocket_mode
          /\ c.frame_remaining = shim.frame_remaining
          /\ c.closing = shim.closing /\ c.read_paused = shim.read_paused
          /\ c.terminal_error = shim.terminal_error
      BY <1>1, <1>3, <1>4, <2>1, <3>1, CompactedOK, Zenon
    <3>3. shim' = [c EXCEPT !.peer_closed = @ \/ closes]
      BY <1>1, <2>1, Zenon
    <3> HIDE DEF c
    <3>4. /\ shim' \in ShimSet /\ shim'.plaintext = c.plaintext /\ shim'.used = c.used
          /\ shim'.websocket_mode = c.websocket_mode
          /\ shim'.frame_remaining = c.frame_remaining
          /\ shim'.closing = c.closing /\ shim'.read_paused = c.read_paused
          /\ shim'.terminal_error = c.terminal_error
      BY <3>2, <3>3, Zenon DEF ShimSet
    <3>5. 0 <= p + n /\ (p + n) - 0 = p + n
      BY <1>3, SMT
    <3> QED BY <3>2, <3>4, <3>5, Zenon
  <2>2. CASE ~(n > 0)
    <3>1. n = 0
      BY <1>3, <2>2, SMT
    <3>2. p + n = p /\ a + n = a
      BY <3>1, SMT
    <3>3. shim' = [shim EXCEPT !.peer_closed = @ \/ closes] /\ shim \in ShimSet
      BY <1>1, <1>2, <2>2, Zenon DEF Parts
    <3>4. /\ shim' \in ShimSet /\ shim'.plaintext = shim.plaintext /\ shim'.used = shim.used
          /\ shim'.websocket_mode = shim.websocket_mode
          /\ shim'.frame_remaining = shim.frame_remaining
          /\ shim'.closing = shim.closing /\ shim'.read_paused = shim.read_paused
          /\ shim'.terminal_error = shim.terminal_error
      BY <3>3, Zenon DEF ShimSet
    <3>5. RunTo(shim.plaintext, a) /\ Len(shim.plaintext) - shim.used = p
      BY <1>2, <1>4, Zenon DEF InOrder, RunTo, Pending
    <3> QED BY <1>2, <3>2, <3>4, <3>5, Zenon DEF HeldBounded, Parts
  <2> QED BY <2>1, <2>2
<1>9. /\ calls' \in Seq(CallSet) /\ Len(calls') = 1 /\ calls' # <<>>
      /\ calls'[1].op = "data_received"
  BY <1>1, SMT DEF CallSet, Call
<1>10. TypeOK'
  BY <1>1, <1>2, <1>7, <1>8, <1>9, PartsPrime, Zenon DEF Parts
<1>11. InOrder'
  <2>1. Delivered' = d /\ Pending' = p + n
    BY <1>1, <1>4, <1>8, Zenon DEF Delivered, Pending
  <2> QED BY SMTT(30), <1>1, <1>2, <1>4, <1>6, <1>7, <1>8, <2>1 DEF InOrder, RunTo
<1>12. RemainingAgrees'
  BY <1>1, <1>2, <1>7, <1>8, Zenon DEF RemainingAgrees
<1>13. HeldBounded'
  BY <1>8 DEF HeldBounded
<1>14. LifeOK'
  BY <1>1, <1>2, <1>8, Zenon DEF LifeOK
<1>15. StackOK'
  <2>1. 2..1 = {}
    BY SMT
  <2> QED BY <1>9, <2>1, Zenon DEF StackOK
<1>16. ReadOK'
  <2>1. Len(<<>>) = 0 /\ 1..0 = {}
    BY EmptySeq, SMT
  <2>2. ~Resuming
    BY <1>1, <2>1, Zenon DEF Resuming
  <2> QED BY <1>1, <1>2, <1>8, <1>9, <2>2, Zenon DEF ReadOK
<1>17. FailOK' /\ WriteOK'
  BY <1>1, <1>2, <1>8, Zenon DEF FailOK, WriteOK
<1>18. PeerEndKeepsFrames'
  BY <1>1, <1>2, Zenon DEF LifeOK, PeerEndKeepsFrames
<1> QED BY <1>10, <1>11, <1>12, <1>13, <1>14, <1>15, <1>16, <1>17, <1>18 DEF RInv

-----------------------------------------------------------------------------
(* The bytes 1, 2, 3, ...                                                   *)
Ordered(s) == \A i \in 1..Len(s) : s[i] = i

(* The k bytes of t behind its first u follow those of c.                   *)
Follow(c, t, u, k, a) ==
  Ordered(c) /\ RunTo(t, a) /\ u + k <= Len(t) /\ a - Len(t) + u = Len(c)

(* The next bytes of the buffer continue what NativeClient has.             *)
LEMMA Handed ==
  ASSUME NEW c \in Seq(Nat), NEW t \in Seq(Nat), NEW u \in Nat, NEW k \in Nat,
         NEW a \in Nat, Follow(c, t, u, k, a)
  PROVE  /\ SubSeq(t, u + 1, u + k) \in Seq(Nat)
         /\ c \o SubSeq(t, u + 1, u + k) \in Seq(Nat)
         /\ Len(c \o SubSeq(t, u + 1, u + k)) = Len(c) + k
         /\ Ordered(c \o SubSeq(t, u + 1, u + k))
<1>1. PICK m \in Nat, d \in Nat : m = Len(t) /\ d = Len(c)
  BY LenProperties
<1>2. u + k <= m /\ a - m + u = d /\ Ordered(c) /\ RunTo(t, a) /\ u + k <= Len(t)
  BY <1>1, Zenon DEF Follow
<1> DEFINE h == SubSeq(t, u + 1, u + k)
<1>3. h \in Seq(Nat) /\ Len(h) = k /\ \A i \in 1..k : h[i] = t[u + i]
  <2>1. u + k \in Nat /\ u <= u + k /\ (u + k) - u = k
    BY SMT
  <2>2. h \in Seq(Nat) /\ Len(h) = (u + k) - u /\ \A i \in 1..((u + k) - u) : h[i] = t[u + i]
    BY <1>2, <2>1, Slice, Zenon
  <2> QED BY <2>1, <2>2, Zenon
<1> HIDE DEF h
<1>4. /\ c \o h \in Seq(Nat) /\ Len(c \o h) = d + k
      /\ \A i \in 1..(d + k) : (c \o h)[i] = IF i <= d THEN c[i] ELSE h[i - d]
  <2>1. /\ c \o h \in Seq(Nat) /\ Len(c \o h) = Len(c) + Len(h)
        /\ \A i \in 1 .. Len(c) + Len(h) :
             (c \o h)[i] = IF i <= Len(c) THEN c[i] ELSE h[i - Len(c)]
    BY <1>3, ConcatProperties, Zenon
  <2> QED BY <1>1, <1>3, <2>1, Zenon
<1>5. Ordered(c \o h)
  <2> SUFFICES ASSUME NEW i \in 1..(d + k) PROVE (c \o h)[i] = i
    BY <1>4, Zenon DEF Ordered
  <2>1. CASE i <= d
    <3>1. i \in 1..d
      BY <2>1, SMT
    <3> QED BY <1>1, <1>2, <1>4, <2>1, <3>1, Zenon DEF Ordered
  <2>2. CASE ~(i <= d)
    <3>1. i - d \in 1..k /\ u + (i - d) \in 1..m /\ a - m + (u + (i - d)) = i
      <4>1. u + k <= m /\ a - m + u = d
        BY <1>2
      <4> QED BY <2>2, <4>1, SMT
    <3>2. t[u + (i - d)] = a - m + (u + (i - d))
      BY <1>1, <1>2, <3>1, Zenon DEF RunTo
    <3> QED BY <1>3, <1>4, <2>2, <3>1, <3>2, Zenon
  <2> QED BY <2>1, <2>2, Zenon
<1> QED BY <1>1, <1>3, <1>4, <1>5, Zenon DEF h

(* What a delivery changes.                                                 *)
LEMMA DeliverEffect ==
  ASSUME RInv, DrainDelivers
  PROVE  /\ calls # <<>> /\ ~DrainStops /\ ~DrainFails
         /\ shim' \in ShimSet /\ shim'.used = shim.used + Take
         /\ shim'.websocket_mode = TRUE /\ shim'.frame_remaining = RemainingAfter
         /\ shim'.plaintext = shim.plaintext
         /\ shim'.closing = shim.closing /\ shim'.read_paused = shim.read_paused
         /\ shim'.terminal_error = shim.terminal_error
         /\ client'.bytes = client.bytes \o SubSeq(shim.plaintext, shim.used + 1, shim.used + Take)
         /\ client'.bytes \in Seq(Nat) /\ client' \in ClientSet
         /\ Len(client'.bytes) = Delivered + Take /\ Ordered(client'.bytes)
         /\ client'.handshake = client.handshake \/ client'.handshake = "answered"
         /\ calls' \in Seq(CallSet) /\ SameCalls
         /\ peer' = peer /\ tls' = tls /\ raw' = raw /\ pauses' = pauses
         /\ ended' = ended /\ threw' = threw
<1>1. /\ calls # <<>> /\ ~DrainStops /\ ~DrainFails
      /\ shim' = [shim EXCEPT !.used = shim.used + Take, !.websocket_mode = TRUE,
                              !.frame_remaining = RemainingAfter]
      /\ client' = [client EXCEPT
           !.bytes = client.bytes \o SubSeq(shim.plaintext, shim.used + 1, shim.used + Take),
           !.handshake = IF ~shim.websocket_mode /\ client.handshake = "pending"
                         THEN "answered" ELSE client.handshake]
      /\ calls' = [calls EXCEPT ![Len(calls)].at = Called]
      /\ peer' = peer /\ tls' = tls /\ raw' = raw /\ pauses' = pauses
      /\ ended' = ended /\ threw' = threw
  BY Zenon DEF DrainDelivers
<1>2. Parts /\ TypeOK /\ LifeOK /\ InOrder /\ RemainingAgrees
  BY PartsOK, Zenon DEF RInv
<1>3. /\ shim \in ShimSet /\ client \in ClientSet /\ calls \in Seq(CallSet)
      /\ client.bytes \in Seq(Nat) /\ shim.plaintext \in Seq(Nat)
  BY <1>2, Typed, Zenon DEF Parts
<1>4. /\ Pending > 0 /\ Remaining \in Nat /\ Take \in Nat /\ 0 < Take /\ Take <= Remaining
      /\ Take <= Pending
  BY <1>1, <1>2, TakeOK
<1>5. PICK m \in Nat, u \in Nat, k \in Nat, a \in Nat, d \in Nat, p \in Nat, r \in Nat :
        /\ m = Len(shim.plaintext) /\ u = shim.used /\ k = Take /\ a = peer.arrived
        /\ d = Delivered /\ p = Pending /\ r = Remaining
  BY <1>2, <1>4, Numbers, Zenon
<1>6. p = m - u /\ d + p = a /\ k <= p /\ k <= r
  BY <1>2, <1>4, <1>5, Numbers, NextByte, Zenon
<1>7. u + k \in Nat /\ u + k <= m /\ a - m + u = d /\ r - k \in Nat
  BY <1>6, SMT
<1>8. /\ client'.bytes = client.bytes \o SubSeq(shim.plaintext, shim.used + 1, shim.used + Take)
      /\ client'.bytes \in Seq(Nat) /\ Len(client'.bytes) = d + k /\ Ordered(client'.bytes)
  <2> DEFINE c == client.bytes
             t == shim.plaintext
  <2>1. c \in Seq(Nat) /\ t \in Seq(Nat) /\ Ordered(c) /\ RunTo(t, a)
    BY <1>2, <1>3, <1>5, Zenon DEF InOrder, Ordered, RunTo
  <2>2. m = Len(t) /\ d = Len(c)
    BY <1>5 DEF Delivered
  <2>3. client'.bytes = client.bytes \o SubSeq(shim.plaintext, shim.used + 1, shim.used + Take)
    BY <1>1, <1>3, Zenon DEF ClientSet
  <2>4. client'.bytes = c \o SubSeq(t, u + 1, u + k)
    BY <1>5, <2>3, Zenon
  <2> HIDE DEF c, t
  <2>5. Follow(c, t, u, k, a)
    BY <1>7, <2>1, <2>2, Zenon DEF Follow
  <2>6. /\ c \o SubSeq(t, u + 1, u + k) \in Seq(Nat)
        /\ Len(c \o SubSeq(t, u + 1, u + k)) = Len(c) + k
        /\ Ordered(c \o SubSeq(t, u + 1, u + k))
    BY <2>1, <2>5, Handed, SMT
  <2> QED BY <2>2, <2>3, <2>4, <2>6, Zenon
<1>9. RemainingAfter \in Nat \cup {None}
  BY <1>5, <1>7, Zenon DEF RemainingAfter
<1>10. /\ shim' \in ShimSet /\ shim'.used = shim.used + Take
       /\ shim'.websocket_mode = TRUE /\ shim'.frame_remaining = RemainingAfter
       /\ shim'.plaintext = shim.plaintext
       /\ shim'.closing = shim.closing /\ shim'.read_paused = shim.read_paused
       /\ shim'.terminal_error = shim.terminal_error
  <2>1. shim.used + Take \in Nat
    BY <1>5, <1>7, Zenon
  <2> QED BY <1>1, <1>3, <1>9, <2>1, Zenon DEF ShimSet
<1>11. /\ client' \in ClientSet
       /\ client'.handshake = client.handshake \/ client'.handshake = "answered"
  <2> DEFINE b == client.bytes \o SubSeq(shim.plaintext, shim.used + 1, shim.used + Take)
  <2>1. b \in Seq(Nat)
    BY <1>8, Zenon
  <2> HIDE DEF b
  <2>2. client' = [client EXCEPT !.bytes = b,
                     !.handshake = IF ~shim.websocket_mode /\ client.handshake = "pending"
                                   THEN "answered" ELSE client.handshake]
    BY <1>1, Zenon DEF b
  <2> QED BY <1>3, <2>1, <2>2, Zenon DEF ClientSet
<1>12. calls' \in Seq(CallSet) /\ SameCalls
  <2>1. Called \in {"drain", "inner", "app"}
    BY Zenon DEF Called
  <2> QED BY <1>1, <1>3, <2>1, SameCallsOK, Zenon
<1>13. Len(client'.bytes) = Delivered + Take
  BY <1>5, <1>8, Zenon
<1> QED BY <1>1, <1>8, <1>10, <1>11, <1>12, <1>13, Zenon

(* A delivery keeps RInv: frame_remaining follows the bytes.                *)
LEMMA DeliverStep ==
  ASSUME RInv, DrainDelivers
  PROVE  RInv'
<1>1. /\ Parts /\ TypeOK /\ LifeOK /\ InOrder /\ RemainingAgrees /\ HeldBounded
      /\ FailOK /\ StackOK /\ WriteOK /\ ReadOK /\ PeerEndKeepsFrames
  BY PartsOK, Zenon DEF RInv
<1>2. /\ calls # <<>> /\ ~DrainStops /\ ~DrainFails
      /\ shim' \in ShimSet /\ shim'.used = shim.used + Take
      /\ shim'.websocket_mode = TRUE /\ shim'.frame_remaining = RemainingAfter
      /\ shim'.plaintext = shim.plaintext
      /\ shim'.closing = shim.closing /\ shim'.read_paused = shim.read_paused
      /\ client' \in ClientSet
      /\ Len(client'.bytes) = Delivered + Take /\ Ordered(client'.bytes)
      /\ client'.handshake = client.handshake \/ client'.handshake = "answered"
      /\ calls' \in Seq(CallSet) /\ SameCalls
      /\ peer' = peer /\ tls' = tls /\ raw' = raw /\ pauses' = pauses
      /\ ended' = ended /\ threw' = threw
  BY DeliverEffect, Zenon
<1>3. /\ Pending > 0 /\ ~shim.closing /\ ~shim.read_paused
      /\ Remaining \in Nat /\ Take \in Nat /\ 0 < Take /\ Take <= Remaining /\ Take <= Pending
      /\ IF shim.websocket_mode
         THEN \E f \in peer.stream.frames :
                f.first <= Delivered + 1 /\ Delivered + Remaining = f.last
         ELSE Delivered = 0 /\ Take = Remaining /\ Remaining = peer.stream.hs
  BY <1>1, <1>2, TakeOK, Zenon
<1>4. /\ raw.life # "lost" /\ raw.life # "new" /\ ended # "failed"
  BY <1>1, <1>2, <1>3, NotFailed, Zenon DEF LifeOK
<1>5. PICK m \in Nat, u \in Nat, k \in Nat, a \in Nat, d \in Nat, p \in Nat, r \in Nat, h \in Nat :
        /\ m = Len(shim.plaintext) /\ u = shim.used /\ k = Take /\ a = peer.arrived
        /\ d = Delivered /\ p = Pending /\ r = Remaining /\ h = peer.stream.hs
  BY <1>1, <1>3, Numbers, Zenon
<1>6. p = m - u /\ d + p = a /\ 0 < k /\ k <= p /\ k <= r
  BY <1>1, <1>3, <1>4, <1>5, Numbers, Zenon DEF InOrder
<1>7. u + k <= m /\ (d + k) + (m - (u + k)) = a /\ d + k <= a /\ d <= d + k
  BY <1>6, SMT
<1>8. TypeOK'
  <2>1. shim'.used <= Len(shim'.plaintext)
    BY <1>2, <1>5, <1>7, Zenon
  <2> QED BY <1>1, <1>2, <2>1, PartsPrime, Zenon DEF Parts
<1>9. Delivered' = d + k /\ Pending' = m - (u + k)
  BY <1>2, <1>5, Zenon DEF Delivered, Pending
<1>10. InOrder'
  BY <1>1, <1>2, <1>5, <1>7, <1>9, Zenon DEF InOrder, Ordered
<1>11. RemainingAgrees'
  <2>1. CASE ~shim.websocket_mode
    <3>1. d = 0 /\ k = r /\ r = h /\ RemainingAfter = None
      BY <1>3, <1>5, <2>1, Zenon DEF RemainingAfter
    <3>2. d + k = h /\ d + k >= h /\ ~(d + k < h)
      BY <3>1, SMT
    <3> QED BY <1>2, <1>5, <3>1, <3>2, Zenon DEF RemainingAgrees
  <2>2. CASE shim.websocket_mode
    <3>1. PICK f \in peer.stream.frames : f.first <= d + 1 /\ d + r = f.last
      BY <1>3, <1>5, <2>2, Zenon
    <3>2. f.first \in Nat /\ f.last \in Nat /\ h < f.first
      BY <1>1, <1>5, FramesOK, Zenon
    <3>3. d + k >= h /\ ~(d + k < h) /\ f.first <= d + k
      BY <1>6, <3>1, <3>2, SMT
    <3>4. CASE r = k
      <4>1. RemainingAfter = None /\ f.last = d + k
        BY <1>5, <3>1, <3>4, Zenon DEF RemainingAfter
      <4> QED BY <1>2, <1>5, <3>3, <4>1, Zenon DEF RemainingAgrees
    <3>5. CASE r # k
      <4>1. RemainingAfter = r - k
        BY <1>5, <2>2, <3>5, Zenon DEF RemainingAfter
      <4>2. r - k = f.last - (d + k) /\ d + k < f.last /\ r - k # None
        BY <1>6, <3>1, <3>2, <3>5, SMT DEF None
      <4> QED BY <1>2, <1>5, <3>3, <4>1, <4>2, Zenon DEF RemainingAgrees
    <3> QED BY <3>4, <3>5
  <2> QED BY <2>1, <2>2
<1>12. HeldBounded' /\ LifeOK' /\ FailOK' /\ WriteOK'
  BY <1>1, <1>2, <1>4, Zenon DEF HeldBounded, LifeOK, FailOK, WriteOK
<1>13. /\ StackOK' /\ (Resuming => Resuming')
       /\ calls' # <<>> /\ calls'[1].op = calls[1].op
  BY <1>1, <1>2, SameCallsStack
<1>14. ReadOK'
  <2>1. Pending # 0
    BY <1>3, SMT
  <2>2. ~Waits
    BY <1>1, <1>2, <1>3, WaitsStops
  <2> QED BY <1>1, <1>2, <1>13, <2>1, <2>2, Zenon DEF ReadOK
<1>15. PeerEndKeepsFrames'
  <2> SUFFICES ASSUME ended \in {"peer", "eof"}, NEW f \in peer.stream.frames,
                      f.fits, f.last <= peer.arrived
               PROVE  f.last <= d + k
    BY <1>2, <1>5, Zenon DEF PeerEndKeepsFrames
  <2>1. f.last <= d /\ f.last \in Nat
    BY <1>1, <1>5, FramesOK, Zenon DEF PeerEndKeepsFrames, Delivered
  <2> QED BY <1>7, <2>1, SMT
<1> QED BY <1>8, <1>10, <1>11, <1>12, <1>13, <1>14, <1>15 DEF RInv

-----------------------------------------------------------------------------
(* RInv is inductive.                                                       *)

(* RInv holds when the connection is created.                               *)
LEMMA InitStep ==
  ASSUME Init
  PROVE  RInv
<1>1. PICK s \in Streams : peer = [stream |-> s, arrived |-> 0]
  BY Zenon DEF Init
<1>2. /\ tls = [up |-> FALSE, held |-> <<>>]
      /\ raw = [life |-> "new", reading |-> FALSE, written |-> <<>>]
      /\ shim = [plaintext |-> <<>>, used |-> 0, websocket_mode |-> FALSE,
                 frame_remaining |-> None, closing |-> FALSE, read_paused |-> FALSE,
                 peer_closed |-> FALSE, terminal_error |-> NoError, inner |-> TRUE]
      /\ client = [bytes |-> <<>>, handshake |-> "pending", lost |-> NoError]
      /\ calls = <<>> /\ pauses = 0 /\ ended = "no" /\ threw = FALSE
  BY DEF Init
<1>3. /\ peer.stream \in Streams /\ peer.arrived = 0 /\ ~tls.up
      /\ raw.life = "new" /\ raw.reading = FALSE /\ raw.written = <<>>
      /\ shim.plaintext = <<>> /\ shim.used = 0 /\ shim.websocket_mode = FALSE
      /\ shim.frame_remaining = None /\ ~shim.closing /\ ~shim.read_paused
      /\ client.bytes = <<>> /\ client.handshake = "pending"
  BY <1>1, <1>2, Zenon
<1>4. /\ Len(<<>>) = 0 /\ 0 \in Nat /\ 0 <= 0 /\ 1..0 = {} /\ 2..0 = {} /\ 0 - 0 = 0 /\ 0 + 0 = 0
      /\ 0 <= MaxPending /\ <<>> \in Seq(Nat) /\ <<>> \in Seq({"request", "frame"})
      /\ <<>> \in Seq(ItemSet) /\ <<>> \in Seq(CallSet)
  BY BoundsAssumption, EmptySeq, SMT
<1>5. peer.stream.hs \in Nat /\ peer.stream.hs > 0 /\ peer.stream.len \in Nat
  BY SMTT(30), <1>3, StreamsAssumption
<1>6. 0 < peer.stream.hs /\ ~(0 >= peer.stream.hs) /\ 0 <= peer.stream.len
  BY <1>5, SMT
<1>7. TypeOK
  <2>1. peer \in [stream : Streams, arrived : Nat]
    BY <1>1, <1>4, Zenon
  <2>2. tls \in [up : BOOLEAN, held : Seq({"request", "frame"})]
    BY <1>2, <1>4, Zenon
  <2>3. raw \in RawSet
    BY <1>2, <1>4, Zenon DEF RawSet
  <2>4. shim \in ShimSet
    BY <1>2, <1>4, Zenon DEF ShimSet
  <2>5. client \in ClientSet
    BY <1>2, <1>4, Zenon DEF ClientSet
  <2>6. shim.used <= Len(shim.plaintext)
    BY <1>3, <1>4, Zenon
  <2> QED BY <1>2, <1>4, <2>1, <2>2, <2>3, <2>4, <2>5, <2>6, Zenon
          DEF TypeOK, RawSet, ItemSet, ShimSet, ClientSet, CallSet
<1>8. InOrder
  BY <1>3, <1>4, <1>6, Zenon DEF InOrder, Delivered, Pending
<1>9. RemainingAgrees
  BY <1>3, <1>4, <1>6, Zenon DEF RemainingAgrees
<1>10. HeldBounded /\ LifeOK /\ StackOK /\ ReadOK /\ FailOK /\ PeerEndKeepsFrames
  BY <1>2, <1>3, <1>4, Zenon
     DEF HeldBounded, LifeOK, StackOK, ReadOK, FailOK, PeerEndKeepsFrames
<1>11. WriteOK
  BY <1>3, <1>4, Zenon DEF WriteOK
<1> QED BY <1>7, <1>8, <1>9, <1>10, <1>11 DEF RInv

(* Every step keeps RInv.                                                   *)
LEMMA NextStep ==
  ASSUME RInv, [Next]_vars
  PROVE  RInv'
<1>1. CASE connection_made
  BY <1>1, MadeStep
<1>2. CASE write
  BY <1>2, WriteStep
<1>3. CASE close
  BY <1>3, CloseStep
<1>4. CASE pause_reading
  BY <1>4, PauseStep
<1>5. CASE resume_reading
  BY <1>5, ResumeStep
<1>6. CASE AppRaises \/ DrainRaises
  BY <1>6, RaisesStep
<1>7. CASE TlsHandshake
  BY <1>7, HandshakeStep
<1>8. CASE TlsError
  BY <1>8, TlsErrorStep
<1>9. CASE Overflows
  BY <1>9, OverflowStep
<1>10. CASE eof_received
  BY <1>10, EofStep
<1>11. CASE \E n \in 0..MaxRead, closes \in BOOLEAN : data_received(n, closes)
  BY <1>11, DataStep
<1>12. CASE DrainDelivers
  BY <1>12, DeliverStep
<1>13. CASE PeerCloses
  BY <1>13, PeerClosesStep
<1>14. CASE PeerTruncates
  BY <1>14, PeerTruncatesStep
<1>15. CASE CallReturns
  BY <1>15, ReturnsStep
<1>16. CASE AppReturns
  BY <1>16, AppReturnsStep
<1>17. CASE Lost
  BY <1>17, LostStep DEF Lost
<1>18. CASE UNCHANGED vars
  <2>1. /\ peer' = peer /\ tls' = tls /\ raw' = raw /\ shim' = shim /\ client' = client
        /\ calls' = calls /\ pauses' = pauses /\ ended' = ended /\ threw' = threw
    BY <1>18, Zenon DEF vars
  <2>2. /\ TypeOK /\ InOrder /\ RemainingAgrees /\ HeldBounded /\ LifeOK /\ StackOK
        /\ ReadOK /\ FailOK /\ WriteOK /\ PeerEndKeepsFrames /\ Settled
    BY <2>1, Zenon DEF RInv, Settled
  <2>3. InOrder' /\ RemainingAgrees' /\ HeldBounded' /\ Pending' = Pending /\ (Waits => Waits')
    BY <2>2, SettledOK
  <2>4. TypeOK'
    BY <2>1, <2>2, PartsOK, PartsPrime, Zenon DEF Parts
  <2>5. LifeOK' /\ StackOK' /\ FailOK' /\ WriteOK'
    BY <2>1, <2>2, Zenon DEF LifeOK, StackOK, FailOK, WriteOK
  <2>6. ReadOK'
    BY <2>1, <2>2, <2>3, Zenon DEF ReadOK, Resuming
  <2>7. PeerEndKeepsFrames'
    BY <2>1, <2>2, EndKept, Zenon
  <2> QED BY <2>3, <2>4, <2>5, <2>6, <2>7 DEF RInv
<1> QED BY <1>1, <1>2, <1>3, <1>4, <1>5, <1>6, <1>7, <1>8, <1>9, <1>10, <1>11, <1>12,
           <1>13, <1>14, <1>15, <1>16, <1>17, <1>18, Zenon DEF Next, Handler

(* RInv holds in every reachable state of the shim, whatever the streams,   *)
(* the bounds and the depth of nested calls.                                *)
THEOREM ShimInductive == Spec => []RInv
<1>1. Init => RInv
  BY InitStep
<1>2. RInv /\ [Next]_vars => RInv'
  BY NextStep
<1> QED BY <1>1, <1>2, PTL DEF Spec

(* plaintext_used stays inside plaintext: the slices that drain_plaintext() *)
(* takes are in range, and every field keeps its type.                      *)
THEOREM ShimTyped == Spec => []TypeOK
<1>1. RInv => TypeOK
  BY DEF RInv
<1> QED BY <1>1, ShimInductive, PTL

(* drain_plaintext() looks for a frame header exactly where one is, after   *)
(* any nesting of drains, pauses and partial frames.                        *)
THEOREM ShimRemaining == Spec => []RemainingAgrees
<1>1. RInv => RemainingAgrees
  BY DEF RInv
<1> QED BY <1>1, ShimInductive, PTL

(* Nested pause_reading() and resume_reading() calls leave the raw          *)
(* transport reading exactly when the application has not paused.           *)
THEOREM ShimReading == Spec => []ReadingAgrees
<1>1. RInv => ReadingAgrees
  <2> SUFFICES ASSUME RInv, Quiet, raw.life = "open", ~shim.closing, ~threw
               PROVE  raw.reading = ~shim.read_paused
    BY DEF ReadingAgrees
  <2>1. raw.reading \in BOOLEAN /\ shim.read_paused \in BOOLEAN /\ ReadOK
    BY Zenon DEF RInv, TypeOK
  <2>2. ~Resuming
    <3>1. Len(<<>>) = 0 /\ 1..0 = {}
      BY EmptySeq, SMT
    <3> QED BY <3>1, Zenon DEF Resuming, Quiet
  <2>3. raw.reading => ~shim.read_paused
    BY <2>1, Zenon DEF ReadOK
  <2>4. ~shim.read_paused => raw.reading
    BY <2>1, <2>2, Zenon DEF ReadOK
  <2> QED BY <2>1, <2>3, <2>4, Zenon
<1> QED BY <1>1, ShimInductive, PTL

(* No complete frame is lost when finish_peer_close() or eof_received()     *)
(* ends the connection, however long delivery was paused.                   *)
THEOREM ShimPeerEnd == Spec => []PeerEndKeepsFrames
<1>1. RInv => PeerEndKeepsFrames
  BY DEF RInv
<1> QED BY <1>1, ShimInductive, PTL

(* The cause that fail() noted is what connection_lost() reports, whatever  *)
(* the aborted transport says.                                              *)
THEOREM ShimCause == Spec => []CauseReported
<1>1. RInv => CauseReported
  BY Zenon DEF RInv, FailOK, CauseReported
<1> QED BY <1>1, ShimInductive, PTL

(* ensure_pending_plaintext_capacity() and the compaction keep the buffer   *)
(* within MAX_PENDING_PLAINTEXT, consumed bytes included.                   *)
THEOREM ShimBounded == Spec => []HeldBounded
<1>1. RInv => HeldBounded
  BY DEF RInv
<1> QED BY <1>1, ShimInductive, PTL

(* flush() leaves nothing behind after the TLS handshake, and nothing is    *)
(* written after close_notify.                                              *)
THEOREM ShimWire == Spec => []WireOrder
<1>1. RInv => WireOrder
  <2> SUFFICES ASSUME RInv PROVE WireOrder
    OBVIOUS
  <2>1. WriteOK /\ raw.written \in Seq(ItemSet)
    BY PartsOK, Zenon DEF RInv, Parts, RawSet
  <2>2. DOMAIN raw.written = 1..Len(raw.written)
    BY <2>1, LenProperties
  <2> QED BY <2>1, <2>2, Zenon DEF WriteOK, WireOrder
<1> QED BY <1>1, ShimInductive, PTL

(* The bytes handed over and the bytes held are those that arrived: no      *)
(* compaction, nested drain or partial frame loses or repeats one.          *)
THEOREM ShimConserves == Spec => []BytesConserved
<1>1. RInv => BytesConserved
  <2> SUFFICES ASSUME RInv PROVE BytesConserved
    OBVIOUS
  <2>1. TypeOK /\ InOrder
    BY DEF RInv
  <2> DEFINE c == client.bytes
  <2>2. PICK d \in Nat, a \in Nat, p \in Nat : d = Len(c) /\ a = peer.arrived /\ p = Pending
    BY <2>1, Typed DEF Delivered
  <2>3. c \in Seq(Nat) /\ Ordered(c)
    BY <2>1, Typed, Zenon DEF InOrder, Ordered
  <2>4. c = Bytes(0, d)
    <3>1. /\ Bytes(0, d) \in Seq(Nat) /\ Len(Bytes(0, d)) = d
          /\ \A i \in 1..d : Bytes(0, d)[i] = 0 + i
      <4>1. 0 \in Nat
        OBVIOUS
      <4> QED BY <4>1, BytesOK, Zenon
    <3>2. \A i \in 1..d : 0 + i = i
      BY SMT
    <3>3. \A i \in 1..d : c[i] = Bytes(0, d)[i]
      BY <2>2, <2>3, <3>1, <3>2, Zenon DEF Ordered
    <3> HIDE DEF c
    <3> QED BY <2>2, <2>3, <3>1, <3>3, SeqEqual, Zenon
  <2>5. ASSUME raw.life # "lost" PROVE c \o Held = Bytes(0, a)
    <3>1. d + p = a
      BY <2>1, <2>2, <2>5, Zenon DEF InOrder, Delivered
    <3>2. PICK u \in Nat, m \in Nat : u = shim.used /\ m = Len(shim.plaintext)
      BY <2>1, Numbers, Zenon
    <3>3. p = m - u /\ u + p = m /\ m <= m
      <4>1. p = m - u
        BY <2>1, <2>2, <3>2, Numbers, Zenon
      <4> QED BY <4>1, SMT
    <3> DEFINE t == shim.plaintext
    <3>4. t \in Seq(Nat) /\ RunTo(t, a) /\ m = Len(t)
      BY <2>1, <2>2, <3>2, Typed, Zenon DEF InOrder, RunTo
    <3>5. Held = SubSeq(t, u + 1, u + p)
      BY <3>2, <3>3, Zenon DEF Held
    <3> HIDE DEF t, c
    <3>6. Follow(c, t, u, p, a)
      <4>1. a - m + u = d
        BY <3>1, <3>3, SMT
      <4> QED BY <2>2, <2>3, <3>3, <3>4, <4>1, Zenon DEF Follow
    <3>7. /\ c \o SubSeq(t, u + 1, u + p) \in Seq(Nat)
          /\ Len(c \o SubSeq(t, u + 1, u + p)) = Len(c) + p
          /\ Ordered(c \o SubSeq(t, u + 1, u + p))
      BY <2>3, <3>4, <3>6, Handed, SMT
    <3> DEFINE s == c \o Held
    <3>8. s \in Seq(Nat) /\ Len(s) = a /\ \A i \in 1..a : s[i] = i
      BY <2>2, <3>1, <3>5, <3>7, Zenon DEF Ordered
    <3> HIDE DEF s
    <3>9. /\ Bytes(0, a) \in Seq(Nat) /\ Len(Bytes(0, a)) = a
          /\ \A i \in 1..a : Bytes(0, a)[i] = 0 + i
      <4>1. 0 \in Nat
        OBVIOUS
      <4> QED BY <4>1, BytesOK, Zenon
    <3>10. \A i \in 1..a : 0 + i = i
      BY SMT
    <3>11. s = Bytes(0, a)
      BY <3>8, <3>9, <3>10, SeqEqual, Zenon
    <3> QED BY <3>11 DEF s
  <2> QED BY <2>2, <2>4, <2>5, Zenon DEF BytesConserved
<1> QED BY <1>1, ShimInductive, PTL

-----------------------------------------------------------------------------
(* The shim implements PlaintextPipe.                                       *)

(* The buffer's pieces.                                                     *)
LEMMA HeldOK ==
  ASSUME TypeOK
  PROVE  Held \in Seq(Nat) /\ Len(Held) = Pending
<1>1. PICK u \in Nat, m \in Nat : u = shim.used /\ m = Len(shim.plaintext)
  BY Numbers, Zenon
<1>2. shim.plaintext \in Seq(Nat) /\ u <= m /\ m <= m
  <2>1. m <= m
    BY SMT
  <2> QED BY <1>1, <2>1, Typed, Zenon
<1>3. /\ SubSeq(shim.plaintext, u + 1, m) \in Seq(Nat)
      /\ Len(SubSeq(shim.plaintext, u + 1, m)) = m - u
  BY <1>1, <1>2, Slice, Zenon
<1> QED BY <1>1, <1>3, Zenon DEF Held, Pending

(* Compacting an empty buffer changes nothing that is held.                 *)
LEMMA SettledHeld ==
  ASSUME TypeOK, Settled
  PROVE  Held' = Held
<1>1. CASE shim'.plaintext = shim.plaintext /\ shim'.used = shim.used
  BY <1>1, Zenon DEF Held
<1>2. CASE Pending = 0 /\ shim'.plaintext = <<>> /\ shim'.used = 0
  <2>1. Held = <<>>
    BY <1>2, HeldOK, EmptySeq, SMT
  <2>2. Held' = SubSeq(<<>>, 0 + 1, Len(<<>>))
    BY <1>2, Zenon DEF Held
  <2>3. SubSeq(<<>>, 0 + 1, Len(<<>>)) = <<>>
    BY SMT
  <2> QED BY <2>1, <2>2, <2>3
<1> QED BY <1>1, <1>2 DEF Settled

(* Steps of the shim that are no steps of the pipe.                         *)
LEMMA Stutters ==
  ASSUME TypeOK, Settled, shim'.read_paused = shim.read_paused, shim'.closing = shim.closing
  PROVE  UNCHANGED Pipe!pipe
<1>1. Held' = Held
  BY SettledHeld
<1> QED BY <1>1, Zenon DEF Settled, Pipe!pipe

(* Steps that end it.                                                       *)
LEMMA EndsPipe ==
  ASSUME TypeOK, Settled, shim'.read_paused = shim.read_paused, ~shim.closing,
         shim'.closing = TRUE
  PROVE  Pipe!PipeNext
<1>1. Held' = Held
  BY SettledHeld
<1>2. Pipe!End
  BY <1>1, Zenon DEF Settled, Pipe!End
<1> QED BY <1>2, Zenon DEF Pipe!PipeNext

(* data_received(): bytes enter.                                            *)
LEMMA DataPipe ==
  ASSUME RInv, NEW n \in 0..MaxRead, NEW closes \in BOOLEAN, data_received(n, closes)
  PROVE  [Pipe!PipeNext]_(Pipe!pipe)
<1>1. /\ raw.life = "open" /\ ~shim.closing /\ Fits(n)
      /\ peer.arrived + n <= peer.stream.len
      /\ peer' = [peer EXCEPT !.arrived = peer.arrived + n]
      /\ shim' = [IF n > 0 THEN Compacted(n) ELSE shim EXCEPT !.peer_closed = @ \/ closes]
      /\ client' = client
  BY Zenon DEF data_received, Readable
<1>2. Parts /\ TypeOK /\ InOrder
  BY PartsOK, Zenon DEF RInv
<1>3. n \in Nat /\ shim \in ShimSet /\ peer \in [stream : Streams, arrived : Nat]
  <2>1. n \in Nat
    BY BoundsAssumption, SMT
  <2> QED BY <1>2, <2>1, Zenon DEF Parts
<1>4. peer'.stream = peer.stream
  BY <1>1, <1>3, Zenon
<1>5. CASE n > 0
  <2> DEFINE c == Compacted(n)
             s == c.plaintext
  <2>1. raw.life # "lost"
    BY <1>1
  <2>2. /\ s = Held \o Bytes(peer.arrived, n) /\ s \in Seq(Nat)
        /\ c \in ShimSet /\ c.used = 0
        /\ c.closing = shim.closing /\ c.read_paused = shim.read_paused
        /\ Len(Held) = Pending
    BY <1>1, <1>3, <1>5, <2>1, CompactedOK, Zenon
  <2>3. shim' = [c EXCEPT !.peer_closed = @ \/ closes]
    BY <1>1, <1>5, Zenon
  <2> HIDE DEF c
  <2>4. /\ shim'.plaintext = s /\ shim'.used = 0
        /\ shim'.closing = shim.closing /\ shim'.read_paused = shim.read_paused
    BY <2>2, <2>3, Zenon DEF ShimSet
  <2> HIDE DEF s
  <2>5. Held' = s
    <3>1. Held' = SubSeq(s, 0 + 1, Len(s))
      BY <2>4, Zenon DEF Held
    <3>2. 0 + 1 = 1
      BY SMT
    <3>3. SubSeq(s, 1, Len(s)) = s
      BY <2>2, SubSeqFull
    <3> QED BY <3>1, <3>2, <3>3, Zenon
  <2>6. PICK d \in Nat, p \in Nat, a \in Nat, l \in Nat :
          /\ d = Len(client.bytes) /\ p = Len(Held) /\ a = peer.arrived /\ l = peer.stream.len
    BY <1>2, <2>2, Numbers, Zenon DEF Delivered
  <2>7. d + p = a
    BY <1>1, <1>2, <2>2, <2>6, Zenon DEF InOrder, Delivered
  <2>8. Bytes(peer.arrived, n) = [i \in 1..n |-> Len(client.bytes) + Len(Held) + i]
    BY <2>6, <2>7, Zenon DEF Bytes
  <2>9. Len(client.bytes) + Len(Held) + n <= peer.stream.len
    BY <1>1, <2>6, <2>7, Zenon
  <2>10. n \in 1..peer.stream.len
    <3>1. a + n <= l
      BY <1>1, <2>6, Zenon
    <3>2. n \in 1..l
      BY <1>3, <1>5, <3>1, SMT
    <3> QED BY <2>6, <3>2, Zenon
  <2>11. Pipe!Enter(n)
    BY <1>1, <1>4, <2>2, <2>4, <2>5, <2>8, <2>9, Zenon DEF Pipe!Enter
  <2> QED BY <2>10, <2>11, Zenon DEF Pipe!PipeNext
<1>6. CASE ~(n > 0)
  <2>1. shim' = [shim EXCEPT !.peer_closed = @ \/ closes]
    BY <1>1, <1>6, Zenon
  <2>2. /\ shim'.plaintext = shim.plaintext /\ shim'.used = shim.used
        /\ shim'.closing = shim.closing /\ shim'.read_paused = shim.read_paused
    BY <1>3, <2>1, Zenon DEF ShimSet
  <2>3. Held' = Held
    BY <2>2, Zenon DEF Held
  <2> QED BY <1>1, <1>4, <2>2, <2>3, Zenon DEF Pipe!pipe
<1> QED BY <1>5, <1>6

(* Cutting a buffer after k of its p unread bytes.                          *)
LEMMA Cuts ==
  ASSUME NEW t \in Seq(Nat), NEW u \in Nat, NEW k \in Nat, NEW p \in Nat,
         0 < k, k <= p, u + p = Len(t)
  PROVE  /\ SubSeq(SubSeq(t, u + 1, Len(t)), 1, k) = SubSeq(t, u + 1, u + k)
         /\ SubSeq(SubSeq(t, u + 1, Len(t)), k + 1, p) = SubSeq(t, (u + k) + 1, Len(t))
<1>1. PICK m \in Nat : m = Len(t) /\ m = u + p
  BY SMT
<1>2. /\ u + 1 \in 1..m /\ m \in 1..m /\ m - (u + 1) + 1 = p
      /\ 1 \in 1..p /\ k \in 1..p /\ (u + 1) + 1 - 1 = u + 1 /\ (u + 1) + k - 1 = u + k
  BY <1>1, SMT
<1>3. SubSeq(SubSeq(t, u + 1, m), 1, k) = SubSeq(t, (u + 1) + 1 - 1, (u + 1) + k - 1)
  BY <1>1, <1>2, SubSeqOfSubSeq, SMT
<1>4. SubSeq(SubSeq(t, u + 1, m), k + 1, p) = SubSeq(t, (u + k) + 1, m)
  <2>1. CASE k = p
    <3>1. /\ k + 1 \in Int /\ p \in Int /\ p < k + 1
          /\ (u + k) + 1 \in Int /\ m \in Int /\ m < (u + k) + 1
      BY <1>1, <2>1, SMT
    <3>2. SubSeq(SubSeq(t, u + 1, m), k + 1, p) = <<>>
      BY <3>1, SubSeqEmpty, Zenon
    <3>3. SubSeq(t, (u + k) + 1, m) = <<>>
      BY <3>1, SubSeqEmpty, Zenon
    <3> QED BY <3>2, <3>3, Zenon
  <2>2. CASE k # p
    <3>1. /\ k + 1 \in 1..p /\ p \in 1..p /\ (u + 1) + (k + 1) - 1 = (u + k) + 1
          /\ (u + 1) + p - 1 = m
      BY <1>1, <2>2, SMT
    <3>2. SubSeq(SubSeq(t, u + 1, m), k + 1, p)
            = SubSeq(t, (u + 1) + (k + 1) - 1, (u + 1) + p - 1)
      BY <1>1, <1>2, <3>1, SubSeqOfSubSeq, SMT
    <3> QED BY <3>1, <3>2, Zenon
  <2> QED BY <2>1, <2>2
<1> QED BY <1>1, <1>2, <1>3, <1>4, Zenon

(* A delivery: bytes of one unit leave.                                     *)
LEMMA DeliverPipe ==
  ASSUME RInv, DrainDelivers
  PROVE  Pipe!PipeNext
<1>1. TypeOK /\ InOrder /\ LifeOK /\ RemainingAgrees
  BY DEF RInv
<1>2. /\ ~DrainStops /\ ~DrainFails
      /\ shim'.used = shim.used + Take /\ shim'.plaintext = shim.plaintext
      /\ shim'.closing = shim.closing /\ shim'.read_paused = shim.read_paused
      /\ client'.bytes = client.bytes \o SubSeq(shim.plaintext, shim.used + 1, shim.used + Take)
      /\ peer' = peer
  BY DeliverEffect, Zenon
<1>3. /\ ~shim.closing /\ ~shim.read_paused
      /\ Remaining \in Nat /\ Take \in Nat /\ 0 < Take /\ Take <= Remaining /\ Take <= Pending
      /\ IF shim.websocket_mode
         THEN \E f \in peer.stream.frames :
                f.first <= Delivered + 1 /\ Delivered + Remaining = f.last
         ELSE Delivered = 0 /\ Take = Remaining /\ Remaining = peer.stream.hs
  BY <1>1, <1>2, TakeOK, Zenon
<1>4. PICK m \in Nat, u \in Nat, k \in Nat, a \in Nat, d \in Nat, p \in Nat, r \in Nat,
           h \in Nat, l \in Nat :
        /\ m = Len(shim.plaintext) /\ u = shim.used /\ k = Take /\ a = peer.arrived
        /\ d = Delivered /\ p = Pending /\ r = Remaining /\ h = peer.stream.hs
        /\ l = peer.stream.len
  BY <1>1, <1>3, Numbers, Zenon
<1>5. /\ p = m - u /\ d <= a /\ a <= l /\ 0 < k /\ k <= p /\ k <= r /\ d + p = a
  <2>1. Pending > 0
    BY <1>1, <1>2, TakeOK
  <2> QED BY <1>1, <1>3, <1>4, <2>1, Numbers, NextByte, Zenon DEF InOrder
<1>6. u + p = m /\ k \in 1..l
  BY <1>5, SMT
<1>7. Len(Held) = p /\ Held = SubSeq(shim.plaintext, u + 1, m)
  BY <1>1, <1>4, HeldOK, Zenon DEF Held
<1>8. /\ SubSeq(Held, 1, k) = SubSeq(shim.plaintext, u + 1, u + k)
      /\ SubSeq(Held, k + 1, p) = SubSeq(shim.plaintext, (u + k) + 1, m)
  <2> DEFINE t == shim.plaintext
  <2>1. t \in Seq(Nat) /\ u + p = Len(t) /\ m = Len(t)
    BY <1>1, <1>4, <1>6, Typed, Zenon
  <2>2. 0 < k /\ k <= p
    BY <1>5
  <2>3. Held = SubSeq(t, u + 1, Len(t))
    BY <1>7, <2>1, Zenon
  <2> HIDE DEF t
  <2>4. /\ SubSeq(SubSeq(t, u + 1, Len(t)), 1, k) = SubSeq(t, u + 1, u + k)
        /\ SubSeq(SubSeq(t, u + 1, Len(t)), k + 1, p) = SubSeq(t, (u + k) + 1, Len(t))
    BY <2>1, <2>2, Cuts, SMT
  <2>5. SubSeq(Held, 1, k) = SubSeq(t, u + 1, u + k) /\ SubSeq(Held, k + 1, p) = SubSeq(t, (u + k) + 1, m)
    BY <2>1, <2>3, <2>4, Zenon
  <2> QED BY <2>5 DEF t
<1>9. Held' = SubSeq(Held, k + 1, Len(Held))
  BY <1>2, <1>4, <1>7, <1>8, Zenon DEF Held
<1>10. client'.bytes = client.bytes \o SubSeq(Held, 1, k)
  BY <1>2, <1>4, <1>8, Zenon
<1>11. \/ Len(client.bytes) + k <= peer.stream.hs
       \/ \E f \in peer.stream.frames :
            f.first <= Len(client.bytes) + 1 /\ Len(client.bytes) + k <= f.last
  <2>1. d = Len(client.bytes)
    BY <1>4 DEF Delivered
  <2>2. CASE ~shim.websocket_mode
    <3>1. d = 0 /\ k = h
      BY <1>3, <1>4, <2>2, Zenon
    <3>2. d + k <= h
      BY <3>1, SMT
    <3> QED BY <1>4, <2>1, <3>2, Zenon
  <2>3. CASE shim.websocket_mode
    <3>1. PICK f \in peer.stream.frames : f.first <= d + 1 /\ d + r = f.last
      BY <1>3, <1>4, <2>3, Zenon
    <3>2. d + k <= d + r
      BY <1>5, SMT
    <3> QED BY <2>1, <3>1, <3>2, Zenon
  <2> QED BY <2>2, <2>3
<1>12. k <= Len(Held) /\ k \in 1..peer.stream.len
  BY <1>4, <1>5, <1>6, <1>7, Zenon
<1>13. Pipe!Leave(k)
  BY <1>2, <1>3, <1>9, <1>10, <1>11, <1>12, Zenon DEF Pipe!Leave, Pipe!InOneUnit
<1> QED BY <1>12, <1>13, Zenon DEF Pipe!PipeNext

(* The steps that neither take in nor hand over.                            *)
LEMMA QuietPipe ==
  ASSUME RInv,
         \/ connection_made \/ write \/ TlsHandshake \/ eof_received
         \/ AppRaises \/ DrainRaises \/ AppReturns \/ CallReturns
  PROVE  UNCHANGED Pipe!pipe
<1>1. Parts /\ TypeOK
  BY PartsOK, Zenon DEF RInv
<1>2. shim \in ShimSet /\ raw \in RawSet
  BY <1>1, Zenon DEF Parts
<1>3. peer' = peer /\ client' = client
  BY Zenon DEF connection_made, write, TlsHandshake, eof_received, AppRaises, DrainRaises,
               AppReturns, CallReturns
<1>4. CASE shim' = shim
  <2>1. Held' = Held
    BY <1>4, Zenon DEF Held
  <2> QED BY <1>3, <1>4, <2>1, Zenon DEF Pipe!pipe
<1>5. CASE CallReturns
  <2>1. shim' = Emptied /\ raw' = RawAfter
    BY <1>5, Zenon DEF CallReturns
  <2>2. /\ shim'.closing = shim.closing /\ shim'.read_paused = shim.read_paused
        /\ shim'.websocket_mode = shim.websocket_mode
        /\ shim'.frame_remaining = shim.frame_remaining
        /\ \/ shim'.plaintext = shim.plaintext /\ shim'.used = shim.used
           \/ Pending = 0 /\ shim'.plaintext = <<>> /\ shim'.used = 0
    BY <1>2, <2>1, Zenon DEF ShimSet, Emptied
  <2>3. raw'.life = raw.life
    BY <1>2, <2>1, Zenon DEF RawSet, RawAfter
  <2>4. Settled
    BY <1>3, <2>2, <2>3, Zenon DEF Settled
  <2> QED BY <1>1, <2>2, <2>4, Stutters
<1> QED
  BY <1>4, <1>5, Zenon DEF connection_made, write, TlsHandshake, eof_received, AppRaises,
                           DrainRaises, AppReturns

(* The steps that end the connection.                                       *)
LEMMA EndPipe ==
  ASSUME RInv, close \/ Overflows \/ TlsError \/ PeerCloses \/ PeerTruncates
  PROVE  Pipe!PipeNext
<1>1. Parts /\ TypeOK
  BY PartsOK, Zenon DEF RInv
<1>2. shim \in ShimSet /\ client \in ClientSet /\ raw \in RawSet
  BY <1>1, Zenon DEF Parts
<1>3. ~shim.closing /\ peer' = peer
  BY Zenon DEF close, Overflows, TlsError, PeerCloses, PeerTruncates, Readable, PeerCloseDue
<1>4. CASE \E err \in Causes : fail(err)
  <2>1. PICK err \in Causes : fail(err)
    BY <1>4
  <2>2. Settled /\ shim'.closing = TRUE
    BY <1>3, <2>1, FailEffect, Zenon
  <2>3. shim'.read_paused = shim.read_paused
    BY <1>2, <2>1, Zenon DEF fail, ShimSet
  <2> QED BY <1>1, <1>3, <2>2, <2>3, EndsPipe, Zenon
<1>5. CASE \E state \in {shim, Emptied} : CloseNow(state) /\ client' = client
  <2>1. PICK state \in {shim, Emptied} : CloseNow(state) /\ client' = client
    BY <1>5
  <2>2. /\ state \in ShimSet /\ state.read_paused = shim.read_paused
        /\ state.websocket_mode = shim.websocket_mode
        /\ state.frame_remaining = shim.frame_remaining
        /\ \/ state.plaintext = shim.plaintext /\ state.used = shim.used
           \/ Pending = 0 /\ state.plaintext = <<>> /\ state.used = 0
    <3>1. <<>> \in Seq(Nat) /\ 0 \in Nat
      BY EmptySeq, SMT
    <3> QED BY <1>2, <2>1, <3>1, Zenon DEF ShimSet, Emptied
  <2>3. /\ shim'.closing = TRUE /\ shim'.plaintext = state.plaintext /\ shim'.used = state.used
        /\ shim'.websocket_mode = state.websocket_mode
        /\ shim'.frame_remaining = state.frame_remaining
        /\ raw.life = "lost" => raw'.life = "lost"
    BY <1>3, <2>1, <2>2, CloseNowOK, Zenon
  <2>4. shim'.read_paused = shim.read_paused
    BY <2>1, <2>2, Zenon DEF CloseNow, ShimSet
  <2>5. Settled
    BY <1>3, <2>1, <2>2, <2>3, Zenon DEF Settled
  <2> QED BY <1>1, <1>3, <2>3, <2>4, <2>5, EndsPipe, Zenon
<1> QED
  BY <1>4, <1>5, Zenon DEF close, Overflows, TlsError, PeerCloses, PeerTruncates, Causes

(* connection_lost() drops what is held.                                    *)
LEMMA LostPipe ==
  ASSUME RInv, Lost
  PROVE  Pipe!PipeNext
<1>1. shim \in ShimSet /\ client \in ClientSet
  BY PartsOK, Zenon DEF RInv, Parts
<1>2. PICK exc \in {"clean", "reset"} : connection_lost(exc)
  BY DEF Lost
<1>3. /\ peer' = peer
      /\ shim' = [shim EXCEPT !.closing = TRUE, !.plaintext = <<>>, !.used = 0,
                              !.inner = FALSE, !.terminal_error = NoError]
      /\ client' = [client EXCEPT !.lost = LostCause(exc),
                      !.handshake = IF client.handshake = "pending" THEN "lost"
                                    ELSE client.handshake]
  BY <1>2, Zenon DEF connection_lost
<1>4. /\ shim'.closing = TRUE /\ shim'.plaintext = <<>> /\ shim'.used = 0
      /\ shim'.read_paused = shim.read_paused
  BY <1>1, <1>3, Zenon DEF ShimSet
<1>5. client'.bytes = client.bytes
  BY <1>1, <1>3, Zenon DEF ClientSet
<1>6. Held' = <<>>
  <2>1. Held' = SubSeq(<<>>, 0 + 1, Len(<<>>))
    BY <1>4, Zenon DEF Held
  <2>2. SubSeq(<<>>, 0 + 1, Len(<<>>)) = <<>>
    BY SMT
  <2> QED BY <2>1, <2>2
<1>7. Pipe!Drop
  BY <1>3, <1>4, <1>5, <1>6, Zenon DEF Pipe!Drop
<1> QED BY <1>7, Zenon DEF Pipe!PipeNext

(* pause_reading() and resume_reading() shut and open the pipe.             *)
LEMMA ShutPipe ==
  ASSUME RInv, pause_reading \/ resume_reading
  PROVE  Pipe!PipeNext
<1>1. shim \in ShimSet
  BY PartsOK, Zenon DEF RInv, Parts
<1>2. peer' = peer /\ client' = client /\ ~shim.closing
  BY Zenon DEF pause_reading, resume_reading
<1>3. CASE pause_reading
  <2>1. ~shim.read_paused /\ shim' = [shim EXCEPT !.read_paused = TRUE]
    BY <1>3, Zenon DEF pause_reading
  <2>2. /\ shim'.plaintext = shim.plaintext /\ shim'.used = shim.used
        /\ shim'.closing = shim.closing /\ shim'.read_paused = TRUE
    BY <1>1, <2>1, Zenon DEF ShimSet
  <2>3. Held' = Held
    BY <2>2, Zenon DEF Held
  <2>4. Pipe!Shut
    BY <1>2, <2>1, <2>2, <2>3, Zenon DEF Pipe!Shut
  <2> QED BY <2>4, Zenon DEF Pipe!PipeNext
<1>4. CASE resume_reading
  <2>1. shim.read_paused /\ shim' = [shim EXCEPT !.read_paused = FALSE]
    BY <1>4, Zenon DEF resume_reading
  <2>2. /\ shim'.plaintext = shim.plaintext /\ shim'.used = shim.used
        /\ shim'.closing = shim.closing /\ shim'.read_paused = FALSE
    BY <1>1, <2>1, Zenon DEF ShimSet
  <2>3. Held' = Held
    BY <2>2, Zenon DEF Held
  <2>4. Pipe!Open
    BY <1>2, <2>1, <2>2, <2>3, Zenon DEF Pipe!Open
  <2> QED BY <2>4, Zenon DEF Pipe!PipeNext
<1> QED BY <1>3, <1>4

(* A new connection is an empty open pipe.                                  *)
LEMMA PipeStarts ==
  ASSUME Init
  PROVE  Pipe!PipeInit
<1>1. /\ peer.stream \in Streams /\ shim.plaintext = <<>> /\ shim.used = 0
      /\ client.bytes = <<>> /\ shim.read_paused = FALSE /\ shim.closing = FALSE
  <2>1. PICK s \in Streams : peer = [stream |-> s, arrived |-> 0]
    BY Zenon DEF Init
  <2>2. /\ shim = [plaintext |-> <<>>, used |-> 0, websocket_mode |-> FALSE,
                   frame_remaining |-> None, closing |-> FALSE, read_paused |-> FALSE,
                   peer_closed |-> FALSE, terminal_error |-> NoError, inner |-> TRUE]
        /\ client = [bytes |-> <<>>, handshake |-> "pending", lost |-> NoError]
    BY DEF Init
  <2> QED BY <2>1, <2>2, Zenon
<1>2. Held = <<>>
  <2>1. Held = SubSeq(<<>>, 0 + 1, Len(<<>>))
    BY <1>1, Zenon DEF Held
  <2>2. SubSeq(<<>>, 0 + 1, Len(<<>>)) = <<>>
    BY SMT
  <2> QED BY <2>1, <2>2
<1> QED BY <1>1, <1>2, Zenon DEF Pipe!PipeInit

(* Every step of the shim is a step of the pipe or leaves it alone.         *)
LEMMA PipeSteps ==
  ASSUME RInv, [Next]_vars
  PROVE  [Pipe!PipeNext]_(Pipe!pipe)
<1>1. CASE \/ connection_made \/ write \/ TlsHandshake \/ eof_received
           \/ AppRaises \/ DrainRaises \/ AppReturns \/ CallReturns
  BY <1>1, QuietPipe
<1>2. CASE close \/ Overflows \/ TlsError \/ PeerCloses \/ PeerTruncates
  BY <1>2, EndPipe
<1>3. CASE pause_reading \/ resume_reading
  BY <1>3, ShutPipe
<1>4. CASE \E n \in 0..MaxRead, closes \in BOOLEAN : data_received(n, closes)
  BY <1>4, DataPipe
<1>5. CASE DrainDelivers
  BY <1>5, DeliverPipe
<1>6. CASE Lost
  BY <1>6, LostPipe
<1>7. CASE UNCHANGED vars
  <2>1. peer' = peer /\ client' = client /\ shim' = shim
    BY <1>7, Zenon DEF vars
  <2>2. Held' = Held
    BY <2>1, Zenon DEF Held
  <2> QED BY <2>1, <2>2, Zenon DEF Pipe!pipe
<1> QED BY <1>1, <1>2, <1>3, <1>4, <1>5, <1>6, <1>7, Zenon DEF Next, Handler

(* RustlsTransport is an ordered pipe that the application can shut between *)
(* two frames: every step of the shim is a step of PlaintextPipe, or none.  *)
THEOREM ShimRefinesPipe == Spec => ImplementsPipe
<1>1. Init => Pipe!PipeInit
  BY PipeStarts
<1>2. RInv /\ [Next]_vars => [Pipe!PipeNext]_(Pipe!pipe)
  BY PipeSteps
<1> QED BY <1>1, <1>2, ShimInductive, PTL DEF Spec, ImplementsPipe, Pipe!PipeSpec
=============================================================================

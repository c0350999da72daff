------------------------------ MODULE SendPath ------------------------------
(***************************************************************************)
(* The send side of the native client (src/native_client/client.rs) over    *)
(* an asyncio socket transport.  A frame reaches the socket in one of three *)
(* ways: by native_send() straight on the file descriptor, through the      *)
(* transport's own buffer, or, while the transport has paused the client,   *)
(* through write_queue and then the transport's buffer.  buf_known_empty    *)
(* caches "the transport's buffer is empty" so that send() need not ask.    *)
(*                                                                          *)
(* A frame is FrameLen bytes, a byte is <<frame, position>>; frames are     *)
(* numbered in the order the application and the parser submit them.        *)
(***************************************************************************)
EXTENDS Integers, Sequences, FiniteSetsExt, Functions

CONSTANTS
  MaxFrames,   \* frames submitted in a behaviour
  FrameLen,    \* bytes in a frame
  HighWater,   \* the transport pauses the client above this many bytes
  LowWater,    \* and resumes it at or below this many
  MaxRoom      \* bytes the socket accepts before the peer reads

ASSUME SizesAssumption ==
  /\ MaxFrames \in Nat /\ FrameLen \in Nat \ {0} /\ MaxRoom \in Nat \ {0}
  /\ HighWater \in Nat /\ LowWater \in 0..HighWater

VARIABLES
  client,    \* the fields of State that send() uses
  asyncio,   \* the transport and its socket, external
  resuming,  \* resume_writing() is active
  queue,     \* its local: frames taken from write_queue, not written yet
  kinds      \* kind of each frame submitted so far: "data", "control" or "close"

vars == <<client, asyncio, resuming, queue, kinds>>

Kinds == {"data", "control", "close"}
FrameIds == 1..(MaxFrames + 1)
Bytes == FrameIds \X (1..FrameLen)
Frame(n) == [i \in 1..FrameLen |-> <<n, i>>]

-----------------------------------------------------------------------------
(* The transport.  `room` is what the socket takes without blocking, wire   *)
(* what it took, `lost` that _conn_lost is set (write() then discards its   *)
(* argument and connection_lost() is scheduled), `broken` that the peer has *)
(* reset the connection, `discarded` (history) that bytes were thrown away. *)

ClientType == [closed : BOOLEAN, paused : BOOLEAN, buf_known_empty : BOOLEAN,
               write_queue : Seq(FrameIds), raw_fd : BOOLEAN, get_buf_size : BOOLEAN]
AsyncioType == [buffer : Seq(Bytes), wire : Seq(Bytes), room : 0..MaxRoom,
                protocol_paused : BOOLEAN, closing : BOOLEAN, lost : BOOLEAN,
                broken : BOOLEAN, discarded : BOOLEAN]

(* pause_writing(): the transport's buffer went over the high-water mark.   *)
pause_writing(c) == [c EXCEPT !.paused = TRUE, !.buf_known_empty = FALSE]

(* _force_close(): the transport throws its buffer away.                    *)
ForceClosed(a) == [a EXCEPT !.buffer = <<>>, !.lost = TRUE, !.closing = TRUE,
                            !.discarded = @ \/ a.buffer # <<>>]

(* What the socket accepts of `bytes` in one call.                          *)
Taken(a, bytes) == IF a.broken THEN 0 ELSE Min({a.room, Len(bytes)})

OnWire(a, bytes) == [a EXCEPT !.wire = @ \o bytes, !.room = @ - Len(bytes)]

(* transport.write(bytes) on the pair s = [client, asyncio]: an empty       *)
(* buffer means the socket is tried at once, the rest is buffered, and the  *)
(* protocol is paused when the buffer grows over the high-water mark.       *)
Write(s, bytes) ==
  LET a == s.asyncio
      n == IF a.buffer = <<>> THEN Taken(a, bytes) ELSE 0
      kept == [OnWire(a, SubSeq(bytes, 1, n)) EXCEPT !.buffer = @ \o SubSeq(bytes, n + 1, Len(bytes))]
      pauses == Len(kept.buffer) > HighWater /\ ~a.protocol_paused
  IN IF a.lost THEN [s EXCEPT !.asyncio.discarded = TRUE]
     ELSE IF a.buffer = <<>> /\ a.broken THEN [s EXCEPT !.asyncio = [ForceClosed(a) EXCEPT !.discarded = TRUE]]
     ELSE [client |-> IF pauses THEN pause_writing(s.client) ELSE s.client,
           asyncio |-> [kept EXCEPT !.protocol_paused = @ \/ pauses]]

(* transport.close(): an empty buffer is lost at once, another one drains.  *)
Closed(a) == [a EXCEPT !.closing = TRUE, !.lost = @ \/ a.buffer = <<>>]

Pair == [client |-> client, asyncio |-> asyncio]
Becomes(s) == client' = s.client /\ asyncio' = s.asyncio

-----------------------------------------------------------------------------
(* The client.                                                              *)

Submit(kind) ==
  /\ Len(kinds) < MaxFrames
  /\ kinds' = Append(kinds, kind)

NewFrame == Len(kinds) + 1

(* send() may bypass the transport: the cache says its buffer is empty, or  *)
(* the transport does when it is asked.                                     *)
Drained(s) == s.client.buf_known_empty \/ (s.client.get_buf_size /\ s.asyncio.buffer = <<>>)

(* Slip: the whole frame follows a partial write.                           *)
NativeSendTwice(s, bytes) ==
  LET n == Taken(s.asyncio, bytes)
      sent == [s EXCEPT !.client.buf_known_empty = TRUE,
                        !.asyncio = OnWire(@, SubSeq(bytes, 1, n))]
  IN IF n = Len(bytes) THEN sent
     ELSE Write([sent EXCEPT !.client.buf_known_empty = FALSE], bytes)

(* native_send(): one non-blocking send() on the descriptor.  A full write  *)
(* leaves the cache set; the tail of a partial one, or the whole frame when *)
(* nothing was written, goes through the transport.                         *)
NativeSend(s, bytes) ==
  LET n == Taken(s.asyncio, bytes)
      sent == [s EXCEPT !.client.buf_known_empty = TRUE,
                        !.asyncio = OnWire(@, SubSeq(bytes, 1, n))]
  IN IF n = Len(bytes) THEN sent
     ELSE Write([sent EXCEPT !.client.buf_known_empty = FALSE], SubSeq(bytes, n + 1, Len(bytes)))

(* Slip: the cache survives a buffered write.                               *)
ThroughTransportCached(s, bytes) == Write(s, bytes)

ThroughTransport(s, bytes) == Write([s EXCEPT !.client.buf_known_empty = FALSE], bytes)

Send ==
  /\ ~client.closed
  /\ Submit("data")
  /\ IF client.paused
     THEN /\ client' = [client EXCEPT !.write_queue = Append(@, NewFrame)]
          /\ UNCHANGED asyncio
     ELSE Becomes(IF client.raw_fd /\ Drained(Pair)
                  THEN NativeSend(Pair, Frame(NewFrame))
                  ELSE ThroughTransport(Pair, Frame(NewFrame)))

(* ping(), pong(), ping_waiter() and the automatic Pong: encode_control     *)
(* clears the cache and the frame is written even while paused.             *)
SendControl ==
  /\ ~client.closed
  /\ Submit("control")
  /\ Becomes(ThroughTransport(Pair, Frame(NewFrame)))

release_references(c) ==
  [c EXCEPT !.closed = TRUE, !.write_queue = <<>>, !.raw_fd = FALSE, !.get_buf_size = FALSE]

(* close(), and the end of a protocol error: queued frames are dropped, the *)
(* Close frame is written, the transport is closed.                         *)
Close ==
  /\ ~client.closed
  /\ kinds' = Append(kinds, "close")
  /\ LET s == Write([Pair EXCEPT !.client = release_references(@)], Frame(NewFrame))
     IN Becomes([s EXCEPT !.asyncio = Closed(@)])

(* The peer's Close frame: apply_peer_close() closes the transport only.    *)
PeerClose ==
  /\ ~client.closed
  /\ client' = release_references(client)
  /\ asyncio' = Closed(asyncio)
  /\ UNCHANGED kinds

connection_lost ==
  /\ asyncio.lost /\ ~client.closed
  /\ client' = release_references(client)
  /\ UNCHANGED <<asyncio, kinds>>

-----------------------------------------------------------------------------
(* The transport's write-ready callback: the socket takes some bytes; at    *)
(* the low-water mark the transport unpauses itself and calls               *)
(* resume_writing(), which unpauses the client, takes write_queue into its  *)
(* local `queue` and writes it frame by frame; when it is back and the      *)
(* buffer of a closing transport is empty, connection_lost() is called.     *)

Resumes(a) == a.protocol_paused /\ Len(a.buffer) <= LowWater

Finish(s) ==
  IF s.asyncio.closing /\ s.asyncio.buffer = <<>>
  THEN [client |-> release_references(s.client), asyncio |-> [s.asyncio EXCEPT !.lost = TRUE]]
  ELSE s

(* Slips: the queue is written but kept; the cache is set; `paused` is not  *)
(* cleared.                                                                 *)
resume_writing_keeps(c) == [c EXCEPT !.paused = FALSE, !.buf_known_empty = FALSE]
resume_writing_caches(c) ==
  [c EXCEPT !.paused = FALSE, !.buf_known_empty = TRUE, !.write_queue = IF c.closed THEN @ ELSE <<>>]
resume_writing_paused(c) ==
  [c EXCEPT !.buf_known_empty = FALSE, !.write_queue = IF c.closed THEN @ ELSE <<>>]

resume_writing(c) ==
  LET unpaused == [c EXCEPT !.paused = FALSE, !.buf_known_empty = FALSE]
  IN IF c.closed THEN unpaused ELSE [unpaused EXCEPT !.write_queue = <<>>]

WriteReady(n) ==
  /\ asyncio.buffer # <<>> /\ ~asyncio.lost /\ ~asyncio.broken
  /\ n \in 1..Min({asyncio.room, Len(asyncio.buffer)})
  /\ LET a == [OnWire(asyncio, SubSeq(asyncio.buffer, 1, n))
                 EXCEPT !.buffer = SubSeq(@, n + 1, Len(@))]
     IN IF Resumes(a)
        THEN /\ asyncio' = [a EXCEPT !.protocol_paused = FALSE]
             /\ client' = resume_writing(client)
             /\ queue' = client.write_queue
             /\ resuming' = TRUE
        ELSE /\ Becomes(Finish([Pair EXCEPT !.asyncio = a]))
             /\ UNCHANGED <<queue, resuming>>
  /\ UNCHANGED kinds

ResumeWrite ==
  /\ resuming /\ queue # <<>>
  /\ Becomes(Write(Pair, Frame(Head(queue))))
  /\ queue' = Tail(queue)
  /\ UNCHANGED <<resuming, kinds>>

(* Slip: `paused` is cleared after the queue was written, not before.       *)
ResumeUnpausesLast ==
  /\ resuming /\ queue = <<>>
  /\ resuming' = FALSE
  /\ Becomes(Finish([Pair EXCEPT !.client.paused = FALSE]))
  /\ UNCHANGED <<queue, kinds>>

ResumeReturns ==
  /\ resuming /\ queue = <<>>
  /\ resuming' = FALSE
  /\ Becomes(Finish(Pair))
  /\ UNCHANGED <<queue, kinds>>

WriteReadyFails ==
  /\ asyncio.buffer # <<>> /\ ~asyncio.lost /\ asyncio.broken
  /\ asyncio' = ForceClosed(asyncio)
  /\ UNCHANGED <<client, kinds>>

(* The peer reads; half-closes (eof_received() returns False, so the        *)
(* transport closes itself); resets the connection.                         *)
PeerReads ==
  /\ asyncio.room < MaxRoom /\ ~asyncio.broken
  /\ asyncio' = [asyncio EXCEPT !.room = @ + 1]
  /\ UNCHANGED <<client, kinds>>

PeerEof ==
  /\ ~asyncio.closing
  /\ asyncio' = Closed(asyncio)
  /\ UNCHANGED <<client, kinds>>

PeerReset ==
  /\ ~asyncio.broken /\ ~asyncio.lost
  /\ asyncio' = [asyncio EXCEPT !.broken = TRUE]
  /\ UNCHANGED <<client, kinds>>

(* data_received() raised: the transport reports a fatal error.             *)
FatalError ==
  /\ ~asyncio.lost
  /\ asyncio' = ForceClosed(asyncio)
  /\ UNCHANGED <<client, kinds>>

-----------------------------------------------------------------------------
Init ==
  /\ client \in [closed : {FALSE}, paused : {FALSE}, buf_known_empty : {FALSE},
                 write_queue : {<<>>}, raw_fd : BOOLEAN, get_buf_size : BOOLEAN]
  /\ asyncio = [buffer |-> <<>>, wire |-> <<>>, room |-> MaxRoom, protocol_paused |-> FALSE,
                closing |-> FALSE, lost |-> FALSE, broken |-> FALSE, discarded |-> FALSE]
  /\ resuming = FALSE /\ queue = <<>> /\ kinds = <<>>

(* Handlers run to completion: only resume_writing() is split into steps.   *)
Handler ==
  /\ ~resuming
  /\ \/ (Send \/ SendControl \/ Close \/ PeerClose \/ connection_lost) /\ UNCHANGED <<resuming, queue>>
     \/ (WriteReadyFails \/ PeerEof \/ FatalError) /\ UNCHANGED <<resuming, queue>>
     \/ \E n \in 1..MaxRoom : WriteReady(n)

Peer == (PeerReads \/ PeerReset) /\ UNCHANGED <<resuming, queue>>

Next == Handler \/ Peer \/ ResumeWrite \/ ResumeReturns

Spec == Init /\ [][Next]_vars

(* The event loop keeps polling the socket and running its callbacks, and   *)
(* the peer keeps reading; nobody is obliged to send, close or fail.        *)
FairSpec ==
  /\ Spec
  /\ WF_vars(\E n \in 1..MaxRoom : ~resuming /\ WriteReady(n))
  /\ WF_vars(~resuming /\ WriteReadyFails /\ UNCHANGED <<resuming, queue>>)
  /\ WF_vars(~resuming /\ connection_lost /\ UNCHANGED <<resuming, queue>>)
  /\ WF_vars(ResumeWrite \/ ResumeReturns)
  /\ WF_vars(PeerReads /\ UNCHANGED <<resuming, queue>>)

-----------------------------------------------------------------------------
(* Every variable stays in its type; the socket never takes more bytes than *)
(* it has room for (OnWire).                                                *)
TypeOK ==
  /\ client \in ClientType /\ asyncio \in AsyncioType
  /\ resuming \in BOOLEAN /\ queue \in Seq(FrameIds) /\ kinds \in Seq(Kinds)

(* Everything handed to the socket or the transport, in order.              *)
Stream == asyncio.wire \o asyncio.buffer

(* Frames that send() accepted and the transport has not seen.              *)
Waiting == queue \o client.write_queue

Kind(b) == kinds[b[1]]
Precedes(b, c) == b[1] < c[1] \/ (b[1] = c[1] /\ b[2] < c[2])

(* send() never loses, repeats or reorders a frame while the connection is  *)
(* up, whichever of the three ways each one took: every byte of every frame *)
(* submitted is on the socket or in the transport's buffer, unless it is a  *)
(* data frame in resume_writing()'s hands or in write_queue; there is no    *)
(* other byte; and frames of one kind come in the order of their calls.     *)
SendOrder ==
  ~client.closed /\ ~asyncio.discarded =>
    /\ Range(Stream) \cup (Range(Waiting) \X (1..FrameLen)) = (DOMAIN kinds) \X (1..FrameLen)
    /\ \A n \in Range(Waiting) : kinds[n] = "data"
    /\ \A i, j \in DOMAIN Stream :
         i < j /\ Kind(Stream[i]) = Kind(Stream[j]) => Precedes(Stream[i], Stream[j])
    /\ \A i \in DOMAIN Stream, j \in DOMAIN Waiting :
         Kind(Stream[i]) = "data" => Stream[i][1] < Waiting[j]
    /\ \A i, j \in DOMAIN Waiting : i < j => Waiting[i] < Waiting[j]

(* A frame is never cut: on the socket the bytes of a frame follow one      *)
(* another, and another frame starts only after the last of them.           *)
Follows(b, c) == IF b[2] = FrameLen THEN c[2] = 1 ELSE c = <<b[1], b[2] + 1>>

Uncut(bytes) == \A i \in 1..(Len(bytes) - 1) : Follows(bytes[i], bytes[i + 1])

(* WholeFrames until the transport throws bytes away: native_send() never   *)
(* writes into the middle of a frame that the transport still holds, and    *)
(* the tail of a partial native_send() follows its head.                    *)
WholeFrames == ~asyncio.discarded => Uncut(asyncio.wire)

(* A data frame submitted after a control frame never passes it on the way  *)
(* to the socket; control frames may pass data frames held in write_queue.  *)
ControlNotBypassed ==
  \A i, j \in DOMAIN Stream :
    i < j /\ Stream[j][1] < Stream[i][1] => Kind(Stream[i]) # "data" /\ Kind(Stream[j]) = "data"

(* While send() may still use it, the cache never claims an empty buffer    *)
(* that is not empty, whoever wrote to the transport since it was set.      *)
CacheSound == ~client.closed /\ client.buf_known_empty => asyncio.buffer = <<>>

(* The client and the transport agree on who is paused, through pauses in   *)
(* the middle of resume_writing(), so that no frame stays in write_queue    *)
(* with nobody left to resume it.                                           *)
PauseAgrees ==
  ~client.closed =>
    /\ client.paused = asyncio.protocol_paused
    /\ client.write_queue # <<>> => client.paused

(* Every frame send() accepted reaches the socket, unless the connection    *)
(* ends first.                                                              *)
FramesLeave ==
  \A n \in 1..MaxFrames :
    n <= Len(kinds) ~> \/ \E i \in DOMAIN asyncio.wire : asyncio.wire[i] = <<n, FrameLen>>
                       \/ client.closed \/ asyncio.closing \/ asyncio.broken
=============================================================================

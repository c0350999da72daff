---------------------------- MODULE FrameStream -----------------------------
(***************************************************************************)
(* How the native client cuts the peer's byte stream into frames            *)
(* (src/native_client/codec.rs, protocol.rs and the receive helpers of      *)
(* client.rs).  Reads split the stream anywhere.  Frame-aligned reads go    *)
(* through walk_frames() without being copied; a handshake, a fragmented,   *)
(* compressed or oversized frame, or bytes already parked in `buf`, go      *)
(* through ProtocolCore.  A BufferedProtocol transport keeps a partial      *)
(* frame in recv_buf and skips the parse until next_frame_needed bytes are  *)
(* there; the others park it in `buf`.                                      *)
(*                                                                          *)
(* A byte is its position in the stream.  Each turn of the two parse loops  *)
(* is a step; no read happens before the loops have ended.                  *)
(***************************************************************************)
EXTENDS FrameEvents

CONSTANT MaxChunk     \* bytes in a read

ASSUME ChunkAssumption == MaxChunk \in Nat \ {0}

VARIABLES
  start,              \* where each frame starts, and where the last one ends
  received,           \* bytes read so far
  buffered,           \* the transport uses the BufferedProtocol calls
  buf,                \* State.buf
  recv_buf,           \* State.recv_buf
  next_frame_needed,  \* State.next_frame_needed
  scan                \* the parse in progress: where, over which bytes, for which caller

byteVars == <<start, received, buffered, buf, recv_buf, next_frame_needed, scan>>
vars == <<eventVars, byteVars>>

NoNeed == 0
Idle == [at |-> "idle", data |-> <<>>, owner |-> "none"]
Drain == [at |-> "drain", data |-> <<>>, owner |-> "none"]
Walk(data, owner) == [at |-> "walk", data |-> data, owner |-> owner]

-----------------------------------------------------------------------------
(* parse_header(): the header of the frame at the front.  Bytes that do not *)
(* start a frame would be read as some header, here one of no frame sent.   *)

Total(f) == f.hdr + f.plen
Garbage == [op |-> "garbage", fin |-> TRUE, rsv1 |-> FALSE, hdr |-> 1, plen |-> 0, inflated |-> 0]
StartsAt(b) == {k \in 1..Len(stream) : start[k] + 1 = b}
FrameAt(bytes) == CHOOSE k \in StartsAt(bytes[1]) : TRUE
parse_header(bytes) == IF StartsAt(bytes[1]) = {} THEN Garbage ELSE F(FrameAt(bytes))
HasHeader(bytes) == bytes # <<>> /\ Len(bytes) >= parse_header(bytes).hdr
Complete(bytes) == Len(bytes) >= Total(parse_header(bytes))

(* Slip: the header is not skipped.                                         *)
RestPayloadOnly(bytes) == SubSeq(bytes, parse_header(bytes).plen + 1, Len(bytes))

(* What is left after the frame at the front.                               *)
Rest(bytes) == SubSeq(bytes, Total(parse_header(bytes)) + 1, Len(bytes))

-----------------------------------------------------------------------------
(* The receive paths.                                                       *)

(* Slip: an open fragmented message is forgotten.                           *)
fast_path_eligible_fragmented == core.handshake_done /\ buf = <<>>

fast_path_eligible == core.handshake_done /\ buf = <<>> /\ core.fragment.ids = <<>>

(* buf.extend_from_slice(), then process_buffered_frames().                 *)
Park(data) == buf' = buf \o data /\ scan' = Drain

(* data_received_inner(), and parse_recv_data() for owner "recv_buf".       *)
data_received_inner(data, owner) ==
  IF fast_path_eligible THEN scan' = Walk(data, owner) /\ UNCHANGED buf ELSE Park(data)

(* buffer_updated(): the parse waits for the bytes the next frame needs.    *)
buffer_updated(bytes) ==
  LET data == recv_buf \o bytes
  IN IF next_frame_needed # NoNeed /\ Len(data) < next_frame_needed
     THEN recv_buf' = data /\ UNCHANGED <<next_frame_needed, buf, scan>>
     ELSE /\ recv_buf' = <<>> /\ next_frame_needed' = NoNeed
          /\ data_received_inner(data, "recv_buf")

Read(n) ==
  /\ scan.at = "idle" /\ core.out.end = "open" /\ received + n <= start[Len(stream) + 1]
  /\ LET bytes == [i \in 1..n |-> received + i]
     IN \/ buffered /\ buffer_updated(bytes)
        \/ ~buffered /\ data_received_inner(bytes, "none") /\ UNCHANGED <<recv_buf, next_frame_needed>>
  /\ received' = received + n
  /\ UNCHANGED <<eventVars, start, buffered>>

-----------------------------------------------------------------------------
(* walk_frames() with the visitor of scan_frame_aligned().                  *)

Walking == scan.at = "walk"
Fast(f) == f.fin /\ f.op # "continuation" /\ ~f.rsv1

(* A turn of the loop: VisitOutcome::Continue.                              *)
WalkFrame ==
  LET f == parse_header(scan.data)
  IN /\ Walking /\ HasHeader(scan.data)
     /\ f.plen <= MaxFrame /\ Complete(scan.data) /\ Fast(f) /\ f.op # "close"
     /\ core' = [core EXCEPT !.out = Visit(@, f, FrameAt(scan.data))]
     /\ taken' = taken + 1
     /\ scan' = [scan EXCEPT !.data = Rest(scan.data)]
     /\ UNCHANGED <<stream, compression, start, received, buffered, buf, recv_buf, next_frame_needed>>

(* ScanOutcome::Stopped: what follows a Close is kept by buffer_updated()   *)
(* and dropped by data_received().                                          *)
WalkClose ==
  LET f == parse_header(scan.data)
  IN /\ Walking /\ HasHeader(scan.data)
     /\ f.plen <= MaxFrame /\ Complete(scan.data) /\ Fast(f) /\ f.op = "close"
     /\ core' = [core EXCEPT !.out = Visit(@, f, FrameAt(scan.data))]
     /\ taken' = taken + 1
     /\ recv_buf' = IF scan.owner = "recv_buf" THEN Rest(scan.data) ELSE recv_buf
     /\ scan' = Idle
     /\ UNCHANGED <<stream, compression, start, received, buffered, buf, next_frame_needed>>

(* Slip: the unconsumed tail is not parked.                                 *)
park_tail_lost(data) == scan' = Idle /\ UNCHANGED buf

(* park_tail_and_drain() after Exhausted, Partial or Fallback.              *)
park_tail_and_drain(data) == IF data = <<>> THEN scan' = Idle /\ UNCHANGED buf ELSE Park(data)

(* ScanOutcome::Exhausted and Partial: buffer_updated() carries the tail in *)
(* recv_buf.                                                                *)
WalkStops ==
  LET f == parse_header(scan.data)
      partial == HasHeader(scan.data) /\ f.plen <= MaxFrame /\ ~Complete(scan.data)
  IN /\ Walking /\ (~HasHeader(scan.data) \/ partial)
     /\ IF scan.owner = "recv_buf"
        THEN /\ recv_buf' = scan.data
             /\ next_frame_needed' = IF partial THEN Total(f) ELSE NoNeed
             /\ scan' = Idle /\ UNCHANGED buf
        ELSE park_tail_and_drain(scan.data) /\ UNCHANGED <<recv_buf, next_frame_needed>>
     /\ UNCHANGED <<eventVars, start, received, buffered>>

(* ScanOutcome::Fallback: parse_recv_data() hands the rest to               *)
(* data_received_inner(), which walks it again and parks it.                *)
WalkFallback ==
  LET f == parse_header(scan.data)
  IN /\ Walking /\ HasHeader(scan.data)
     /\ f.plen > MaxFrame \/ (Complete(scan.data) /\ ~Fast(f))
     /\ IF scan.owner = "recv_buf" THEN data_received_inner(scan.data, "none")
        ELSE park_tail_and_drain(scan.data)
     /\ UNCHANGED <<eventVars, start, received, buffered, recv_buf, next_frame_needed>>

-----------------------------------------------------------------------------
(* process_buffered_frames() over buf: process_handshake(), then            *)
(* emit_protocol_events() until a frame is incomplete or ends the           *)
(* connection.                                                              *)

Draining == scan.at = "drain"

(* After a rejection connect() raises and its helper closes the transport:  *)
(* the reads end here.                                                      *)
Handshake ==
  LET f == parse_header(buf)
  IN /\ Draining /\ ~core.handshake_done /\ buf # <<>> /\ Complete(buf)
     /\ core' = Answered(core, f)
     /\ taken' = taken + 1
     /\ buf' = Rest(buf)
     /\ scan' = IF f.op = "reject" THEN Idle ELSE scan
     /\ UNCHANGED <<stream, compression, start, received, buffered, recv_buf, next_frame_needed>>

DrainFrame ==
  LET f == parse_header(buf)
      refusal == Refusal(core, f)
  IN /\ Draining /\ core.handshake_done /\ core.out.end = "open"
     /\ HasHeader(buf) /\ (f.plen > MaxFrame \/ Complete(buf))
     /\ core' = IF refusal # "none" THEN Fails(core, refusal) ELSE NextEvent(core, f, FrameAt(buf))
     /\ buf' = IF refusal # "none" THEN buf ELSE Rest(buf)
     /\ taken' = taken + 1
     /\ UNCHANGED <<stream, compression, start, received, buffered, recv_buf, next_frame_needed, scan>>

DrainStops ==
  LET f == parse_header(buf)
  IN /\ Draining
     /\ \/ ~core.handshake_done /\ ~(buf # <<>> /\ Complete(buf))
        \/ core.handshake_done /\ core.out.end # "open"
        \/ core.handshake_done /\ ~(HasHeader(buf) /\ (f.plen > MaxFrame \/ Complete(buf)))
     /\ scan' = Idle
     /\ UNCHANGED <<eventVars, start, received, buffered, buf, recv_buf, next_frame_needed>>

-----------------------------------------------------------------------------
(* What the peer sends during a parse is read after it.                     *)
PeerFrame(k) ==
  /\ scan.at = "idle" /\ PeerSends(k)
  /\ start' = Append(start, start[Len(start)] + Total(Format[k]))
  /\ UNCHANGED <<received, buffered, buf, recv_buf, next_frame_needed, scan>>

Init ==
  /\ EventsInit
  /\ start = <<0>> /\ received = 0 /\ buffered \in BOOLEAN
  /\ buf = <<>> /\ recv_buf = <<>> /\ next_frame_needed = NoNeed /\ scan = Idle

Next ==
  \/ \E n \in 1..MaxChunk : Read(n)
  \/ \E k \in DOMAIN Format : PeerFrame(k)
  \/ WalkFrame \/ WalkClose \/ WalkStops \/ WalkFallback
  \/ Handshake \/ DrainFrame \/ DrainStops

Spec == Init /\ [][Next]_vars

-----------------------------------------------------------------------------
(* However the reads cut the stream, and whichever of the two receive       *)
(* interfaces delivers them, the parsers apply the frames one at a time, in *)
(* the order sent, each whole and each once (walk_frames(), next_event()).  *)
ImplementsEvents == EventsSpec

(* A partial frame is parked in one place only: bytes wait in recv_buf only *)
(* while `buf` is empty and no fragmented message is open, so that neither  *)
(* interface can take later bytes before earlier ones.                      *)
OneParkingPlace ==
  recv_buf # <<>> => buf = <<>> /\ core.fragment.ids = <<>> /\ core.handshake_done

(* A fragmented message never grows over MAX_MESSAGE_SIZE by more than its  *)
(* first frame did.                                                         *)
FragmentBounded == Len(core.fragment.ids) > 1 => core.fragment.len <= MaxMessage

(* Between reads, no frame waits in a buffer that could be parsed: the next *)
(* one has not arrived, or, when it is oversized, not even its header.      *)
Arrived(k) == received >= start[k] + IF F(k).plen > MaxFrame /\ k > 1 THEN F(k).hdr ELSE Total(F(k))
NothingWaits ==
  scan.at = "idle" /\ core.out.end = "open" => \A k \in 1..Len(stream) : k <= taken <=> Arrived(k)
=============================================================================

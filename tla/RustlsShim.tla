----------------------------- MODULE RustlsShim -----------------------------
(***************************************************************************)
(* RustlsTransport (src/native_client/rustls_transport.rs): the protocol    *)
(* that sits between asyncio's socket transport and NativeClient, decrypts  *)
(* with rustls, holds plaintext back while reading is paused, and hands it  *)
(* on one WebSocket frame at a time.                                        *)
(*                                                                          *)
(* A byte of plaintext is its position in the peer's stream: the upgrade    *)
(* response, 1..hs, then frames first..last whose length is known from      *)
(* their first `need` bytes.  The calls of the shim are not atomic: every   *)
(* delivery runs application code, which may pause, resume, close, write or *)
(* raise before it returns, so `calls` is the stack of calls under way.     *)
(***************************************************************************)
EXTENDS Integers, Sequences, FiniteSets

CONSTANTS
  Streams,        \* what a peer may send: [hs, len, frames]
  MaxPending,     \* MAX_PENDING_PLAINTEXT
  MaxHandshake,   \* MAX_HANDSHAKE_BYTES
  MaxRead,        \* plaintext one data_received() may decode
  MaxPauses,      \* effective pause_reading() calls in a behaviour
  MaxDepth,       \* calls on the stack
  LatePackets     \* ciphertext read before a pause may still arrive after it

Frame == [first : Nat, need : Nat, last : Nat, fits : BOOLEAN]

(* The frames of a stream lie end to end behind the upgrade response.       *)
ASSUME StreamsAssumption ==
  \A s \in Streams :
    /\ s.hs \in Nat \ {0} /\ s.len \in Nat /\ s.hs <= s.len
    /\ s.frames \subseteq Frame
    /\ \A f \in s.frames :
         /\ s.hs < f.first /\ 2 <= f.need /\ f.last <= s.len
         /\ f.first + f.need <= f.last + 1
         /\ f.last < s.len => \E g \in s.frames : g.first = f.last + 1
         /\ \A g \in s.frames : g = f \/ g.last < f.first \/ f.last < g.first
    /\ s.hs < s.len => \E f \in s.frames : f.first = s.hs + 1

ASSUME BoundsAssumption ==
  /\ MaxPending \in Nat /\ MaxHandshake \in Nat /\ MaxRead \in Nat
  /\ MaxPauses \in Nat /\ MaxDepth \in Nat /\ LatePackets \in BOOLEAN

VARIABLES
  peer,     \* its stream, and how much of it has been decrypted
  tls,      \* rustls: handshake done, and writes it holds until then
  raw,      \* the asyncio transport, external
  shim,     \* the fields of State
  client,   \* what NativeClient was handed: bytes, handshake_fut, connection_lost
  calls,    \* the stack of calls under way, the innermost last
  pauses,   \* effective pause_reading() calls so far
  ended,    \* why the connection began to end (history)
  threw     \* a resume_reading() has raised (history)

vars == <<peer, tls, raw, shim, client, calls, pauses, ended, threw>>

None == -1                 \* frame_remaining: None
NoError == "none"
Top == calls[Len(calls)]
Pop == SubSeq(calls, 1, Len(calls) - 1)
Quiet == calls = <<>>
Call(op) == [op |-> op, at |-> "drain"]
Min2(a, b) == IF a < b THEN a ELSE b

Init ==
  /\ peer \in {[stream |-> s, arrived |-> 0] : s \in Streams}
  /\ tls = [up |-> FALSE, held |-> <<>>]
  /\ raw = [life |-> "new", reading |-> FALSE, written |-> <<>>]
  /\ shim = [plaintext |-> <<>>, used |-> 0, websocket_mode |-> FALSE,
             frame_remaining |-> None, closing |-> FALSE, read_paused |-> FALSE,
             peer_closed |-> FALSE, terminal_error |-> NoError, inner |-> TRUE]
  /\ client = [bytes |-> <<>>, handshake |-> "pending", lost |-> NoError]
  /\ calls = <<>> /\ pauses = 0 /\ ended = "no" /\ threw = FALSE

Ends(why) == ended' = IF ended = "no" THEN why ELSE ended

-----------------------------------------------------------------------------
(* Writing.  rustls keeps application data until its handshake is done; a   *)
(* closing asyncio transport drops what it is given.                        *)

Wrote(items) ==
  IF raw.life = "open" THEN raw.written \o items ELSE raw.written

(* flush(): everything rustls wants to write goes to the raw transport.     *)
flush(up, held) ==
  /\ tls' = [up |-> up, held |-> IF up THEN <<>> ELSE held]
  /\ raw' = [raw EXCEPT !.written = Wrote(IF up THEN held ELSE <<>>)]

(* connection_made(), and the upgrade request that the connect helper       *)
(* writes as soon as create_connection() returns: ClientHello leaves.       *)
connection_made ==
  /\ raw.life = "new"
  /\ tls' = [tls EXCEPT !.held = <<"request">>]
  /\ raw' = [life |-> "open", reading |-> TRUE, written |-> <<"hello">>]
  /\ UNCHANGED <<peer, shim, client, calls, pauses, ended, threw>>

(* NativeClient's code runs: no call is under way, or one is delivering.    *)
Running == shim.inner /\ (~Quiet => Top.at # "drain")

(* The application's code runs: between calls, once connect() returned, or  *)
(* inside a delivery that made NativeClient call on_message.                *)
Application ==
  /\ shim.inner /\ client.handshake = "answered"
  /\ ~Quiet => Top.at = "app"

(* The bound on writes: one frame in a behaviour.                           *)
FirstFrame == \A i \in DOMAIN raw.written : raw.written[i] # "frame"

(* write(): a frame, once the upgrade is done.                              *)
write ==
  /\ Application /\ ~shim.closing /\ FirstFrame
  /\ flush(tls.up, Append(tls.held, "frame"))
  /\ UNCHANGED <<peer, shim, client, calls, pauses, ended, threw>>

-----------------------------------------------------------------------------
(* Ending.                                                                  *)

Stopped(r) == [r EXCEPT !.life = IF r.life = "open" THEN "closing" ELSE r.life,
                        !.reading = FALSE]

(* close(): close_notify is flushed, then the raw transport is closed.      *)
CloseNow(state) ==
  /\ shim' = [state EXCEPT !.closing = TRUE]
  /\ raw' = [Stopped(raw) EXCEPT !.written = Wrote(<<"close_notify">>)]

close ==
  /\ raw.life # "new" /\ Running /\ ~shim.closing
  /\ CloseNow(shim)
  /\ Ends("application")
  /\ UNCHANGED <<peer, tls, client, calls, pauses, threw>>

(* fail(): note the cause, settle handshake_fut with it, abort().           *)
fail(err) ==
  /\ shim' = [shim EXCEPT !.closing = TRUE, !.terminal_error = err]
  /\ raw' = Stopped(raw)
  /\ client' = [client EXCEPT !.handshake = IF @ = "pending" THEN err ELSE @]

(* Slip: what the transport reports replaces what the shim knows.           *)
LostCauseRaw(exc) == exc

(* terminal_error.unwrap_or(exc)                                            *)
LostCause(exc) == IF shim.terminal_error = NoError THEN exc ELSE shim.terminal_error

(* connection_lost(): asyncio calls it from the loop, once.                 *)
connection_lost(exc) ==
  /\ Quiet /\ raw.life \in {"open", "closing"}
  /\ raw.life = "open" => exc = "reset"
  /\ raw' = [raw EXCEPT !.life = "lost", !.reading = FALSE]
  /\ shim' = [shim EXCEPT !.closing = TRUE, !.plaintext = <<>>, !.used = 0,
                          !.inner = FALSE, !.terminal_error = NoError]
  /\ client' = [client EXCEPT !.lost = LostCause(exc),
                              !.handshake = IF @ = "pending" THEN "lost" ELSE @]
  /\ Ends("reset")
  /\ UNCHANGED <<peer, tls, calls, pauses, threw>>

(* eof_received() returns false: the transport closes itself.               *)
eof_received ==
  /\ Quiet /\ raw.life = "open" /\ raw.reading
  /\ raw' = Stopped(raw)
  /\ Ends("eof")
  /\ UNCHANGED <<peer, tls, shim, client, calls, pauses, threw>>

(* The innermost call raises.  Out of data_received() the exception reaches *)
(* asyncio, which closes the transport; out of resume_reading() it reaches  *)
(* the application.                                                         *)
Unwind ==
  /\ calls' = Pop
  /\ IF Top.op = "data_received"
     THEN raw' = Stopped(raw) /\ Ends("raised") /\ UNCHANGED threw
     ELSE threw' = TRUE /\ UNCHANGED <<raw, ended>>

-----------------------------------------------------------------------------
(* data_received().  rustls is fed record by record, but nothing is drained *)
(* between records: the call is one append of everything it decrypts.       *)

Pending == Len(shim.plaintext) - shim.used

(* Slip: what is already held is not counted.                               *)
FitsAlone(n) == n <= MaxPending

(* ensure_pending_plaintext_capacity()                                      *)
Fits(n) == Pending + n <= MaxPending

Bytes(from, n) == [i \in 1..n |-> from + i]

(* The consumed bytes are moved out and the new ones appended.              *)
Compacted(n) ==
  [shim EXCEPT !.plaintext = SubSeq(@, shim.used + 1, Len(@)) \o Bytes(peer.arrived, n),
               !.used = 0]

Readable ==
  /\ Quiet /\ raw.life = "open" /\ ~shim.closing
  /\ raw.reading \/ LatePackets

(* Slip: nothing is flushed when only handshake records came.               *)
TlsHandshakeUnflushed ==
  /\ Readable /\ ~tls.up
  /\ tls' = [tls EXCEPT !.up = TRUE]
  /\ calls' = <<Call("data_received")>>
  /\ UNCHANGED <<peer, raw, shim, client, pauses, ended, threw>>

(* The server's last handshake flight: rustls lets go of the request.       *)
TlsHandshake ==
  /\ Readable /\ ~tls.up
  /\ flush(TRUE, tls.held)
  /\ calls' = <<Call("data_received")>>
  /\ UNCHANGED <<peer, shim, client, pauses, ended, threw>>

Answered == \E i \in DOMAIN raw.written : raw.written[i] = "request"

(* n bytes are decrypted, and perhaps the peer's close_notify after them.   *)
data_received(n, closes) ==
  /\ Readable /\ tls.up /\ ~shim.peer_closed
  /\ n > 0 => Answered
  /\ n > 0 \/ closes
  /\ peer.arrived + n <= peer.stream.len
  /\ Fits(n)
  /\ peer' = [peer EXCEPT !.arrived = @ + n]
  /\ shim' = [IF n > 0 THEN Compacted(n) ELSE shim
              EXCEPT !.peer_closed = @ \/ closes]
  /\ calls' = <<Call("data_received")>>
  /\ UNCHANGED <<tls, raw, client, pauses, ended, threw>>

(* When a later record of the packet is refused, what earlier ones appended *)
(* is never delivered, for fail() sets closing: the model leaves it out.    *)
Overflows ==
  /\ Readable /\ tls.up /\ ~shim.peer_closed /\ Answered
  /\ \E n \in 1..MaxRead : peer.arrived + n <= peer.stream.len /\ ~Fits(n)
  /\ fail("capacity")
  /\ Ends("failed")
  /\ UNCHANGED <<peer, tls, calls, pauses, threw>>

(* A record or a certificate that rustls refuses.                           *)
TlsError ==
  /\ Readable /\ ~shim.peer_closed
  /\ fail("tls")
  /\ Ends("failed")
  /\ UNCHANGED <<peer, tls, calls, pauses, threw>>

-----------------------------------------------------------------------------
(* drain_plaintext(), one pass of its loop.                                 *)

Next1 == shim.plaintext[shim.used + 1]
Here == CHOOSE f \in peer.stream.frames : f.first = Next1

(* websocket_frame_len() of what is held: None while the header is short.   *)
LengthKnown == Pending >= Here.need

(* The blank line is among the bytes held.                                  *)
HeaderEnds == \E i \in shim.used + 1 .. Len(shim.plaintext) : shim.plaintext[i] = peer.stream.hs

(* The upgrade response, or a frame's header, is not complete.              *)
Incomplete ==
  /\ Pending > 0
  /\ IF shim.websocket_mode THEN shim.frame_remaining = None /\ ~LengthKnown
     ELSE ~HeaderEnds /\ Pending <= MaxHandshake

DrainStops == shim.closing \/ shim.read_paused \/ Pending = 0 \/ Incomplete

DrainFails ==
  /\ ~DrainStops
  /\ IF shim.websocket_mode THEN shim.frame_remaining = None /\ ~Here.fits ELSE ~HeaderEnds

(* Bytes left of the unit being delivered.                                  *)
Remaining ==
  IF ~shim.websocket_mode THEN peer.stream.hs - Next1 + 1
  ELSE IF shim.frame_remaining # None THEN shim.frame_remaining
  ELSE Here.last - Here.first + 1

Take == Min2(Remaining, Pending)

(* Slip: a finished frame leaves Some(0).                                   *)
RemainingAfterZero == IF ~shim.websocket_mode THEN None ELSE Remaining - Take

(* What is left of a frame whose tail has not arrived.                      *)
RemainingAfter ==
  IF ~shim.websocket_mode \/ Remaining = Take THEN None ELSE Remaining - Take

(* The upgrade response and a part of a frame make NativeClient call nobody.*)
Called == IF shim.websocket_mode /\ RemainingAfter = None THEN "app" ELSE "inner"

(* Slip: the bytes are marked as used when the delivery returns.            *)
DrainDeliversUnmarked ==
  /\ calls # <<>> /\ Top.at = "drain" /\ ~DrainStops /\ ~DrainFails
  /\ shim' = [shim EXCEPT !.websocket_mode = TRUE, !.frame_remaining = RemainingAfter]
  /\ client' = [client EXCEPT !.bytes = @ \o SubSeq(shim.plaintext, shim.used + 1, shim.used + Take)]
  /\ calls' = [calls EXCEPT ![Len(calls)].at = Called]
  /\ UNCHANGED <<peer, tls, raw, pauses, ended, threw>>

(* data_received_plaintext(chunk), with no borrow held.                     *)
DrainDelivers ==
  /\ calls # <<>> /\ Top.at = "drain" /\ ~DrainStops /\ ~DrainFails
  /\ shim' = [shim EXCEPT !.used = @ + Take, !.websocket_mode = TRUE,
                          !.frame_remaining = RemainingAfter]
  /\ client' = [client EXCEPT
       !.bytes = @ \o SubSeq(shim.plaintext, shim.used + 1, shim.used + Take),
       !.handshake = IF ~shim.websocket_mode /\ @ = "pending" THEN "answered" ELSE @]
  /\ calls' = [calls EXCEPT ![Len(calls)].at = Called]
  /\ UNCHANGED <<peer, tls, raw, pauses, ended, threw>>

(* A frame whose length does not fit, or an endless upgrade response.       *)
DrainRaises ==
  /\ calls # <<>> /\ Top.at = "drain" /\ DrainFails
  /\ Unwind
  /\ UNCHANGED <<peer, tls, shim, client, pauses>>

-----------------------------------------------------------------------------
(* The end of data_received() and of resume_reading(): drain_plaintext()    *)
(* returns, finish_peer_close(), and the raw transport reads again.         *)

Emptied == IF Pending = 0 THEN [shim EXCEPT !.plaintext = <<>>, !.used = 0] ELSE shim

(* Slip: a close_notify ends a paused connection too.                       *)
PeerCloseDueAtOnce == ~shim.closing /\ shim.peer_closed

(* Slip: resume_reading() does not look for it.                             *)
PeerCloseDueOnData ==
  ~shim.closing /\ shim.peer_closed /\ ~shim.read_paused /\ Top.op = "data_received"

PeerCloseDue == ~shim.closing /\ shim.peer_closed /\ ~shim.read_paused

Returns == calls # <<>> /\ Top.at = "drain" /\ DrainStops

(* finish_peer_close() with everything handed over: close().                *)
PeerCloses ==
  /\ Returns /\ PeerCloseDue /\ Pending = 0
  /\ CloseNow(Emptied)
  /\ calls' = Pop /\ Ends("peer")
  /\ UNCHANGED <<peer, tls, client, pauses, threw>>

(* finish_peer_close() with a rest that is no frame: fail().                *)
PeerTruncates ==
  /\ Returns /\ PeerCloseDue /\ Pending > 0
  /\ fail("truncated")
  /\ calls' = Pop /\ Ends("peer")
  /\ UNCHANGED <<peer, tls, pauses, threw>>

(* Slip: the raw transport is left alone.                                   *)
RawAfterNoResume == raw

(* resume_reading() re-enables the raw transport unless closing or paused.  *)
RawAfter ==
  IF Top.op = "resume_reading" /\ ~shim.closing /\ ~shim.read_paused /\ raw.life = "open"
  THEN [raw EXCEPT !.reading = TRUE] ELSE raw

CallReturns ==
  /\ Returns /\ ~PeerCloseDue
  /\ shim' = Emptied /\ raw' = RawAfter
  /\ calls' = Pop
  /\ UNCHANGED <<peer, tls, client, pauses, ended, threw>>

-----------------------------------------------------------------------------
(* The application, from a task of its own or inside a delivery.            *)

pause_reading ==
  /\ Application /\ pauses < MaxPauses
  /\ ~shim.closing /\ ~shim.read_paused
  /\ pauses' = pauses + 1
  /\ shim' = [shim EXCEPT !.read_paused = TRUE]
  /\ raw' = [raw EXCEPT !.reading = FALSE]
  /\ UNCHANGED <<peer, tls, client, calls, ended, threw>>

resume_reading ==
  /\ Application /\ Len(calls) < MaxDepth
  /\ ~shim.closing /\ shim.read_paused
  /\ shim' = [shim EXCEPT !.read_paused = FALSE]
  /\ calls' = Append(calls, Call("resume_reading"))
  /\ UNCHANGED <<peer, tls, raw, client, pauses, ended, threw>>

AppReturns ==
  /\ calls # <<>> /\ Top.at # "drain"
  /\ calls' = [calls EXCEPT ![Len(calls)].at = "drain"]
  /\ UNCHANGED <<peer, tls, raw, shim, client, pauses, ended, threw>>

AppRaises ==
  /\ ~Quiet /\ Application
  /\ Unwind
  /\ UNCHANGED <<peer, tls, shim, client, pauses>>

-----------------------------------------------------------------------------
Handler ==
  DrainDelivers \/ DrainRaises \/ PeerCloses \/ PeerTruncates \/ CallReturns \/ AppReturns

Lost == \E exc \in {"clean", "reset"} : connection_lost(exc)

Next ==
  \/ connection_made \/ write \/ close \/ pause_reading \/ resume_reading \/ AppRaises
  \/ TlsHandshake \/ TlsError \/ Overflows \/ eof_received
  \/ \E n \in 0..MaxRead, closes \in BOOLEAN : data_received(n, closes)
  \/ Handler \/ Lost

Spec == Init /\ [][Next]_vars

(* Calls run to their end, and a closing asyncio transport calls            *)
(* connection_lost().  Nothing is asked of the peer.                        *)
FairSpec == Spec /\ WF_vars(Handler) /\ WF_vars(raw.life = "closing" /\ Lost)

-----------------------------------------------------------------------------
(* The bytes held, in order.                                                *)
Held == SubSeq(shim.plaintext, shim.used + 1, Len(shim.plaintext))

(* The shim as a pipe.                                                      *)
Pipe == INSTANCE PlaintextPipe WITH
  Layouts <- Streams, stream <- peer.stream, inbox <- Held, outbox <- client.bytes,
  shut <- shim.read_paused, up <- ~shim.closing

Causes == {"capacity", "tls", "truncated"}

(* Every field keeps its type, and plaintext_used stays inside plaintext:   *)
(* the slices of drain_plaintext() and the subtraction of data_received()   *)
(* are in range.                                                            *)
TypeOK ==
  /\ peer \in [stream : Streams, arrived : Nat]
  /\ tls \in [up : BOOLEAN, held : Seq({"request", "frame"})]
  /\ raw \in [life : {"new", "open", "closing", "lost"}, reading : BOOLEAN,
              written : Seq({"hello", "request", "frame", "close_notify"})]
  /\ shim \in [plaintext : Seq(Nat), used : Nat, websocket_mode : BOOLEAN,
               frame_remaining : Nat \cup {None}, closing : BOOLEAN,
               read_paused : BOOLEAN, peer_closed : BOOLEAN,
               terminal_error : Causes \cup {NoError}, inner : BOOLEAN]
  /\ shim.used <= Len(shim.plaintext)
  /\ client \in [bytes : Seq(Nat),
                 handshake : Causes \cup {"pending", "answered", "lost"},
                 lost : Causes \cup {NoError, "clean", "reset"}]
  /\ calls \in Seq([op : {"data_received", "resume_reading"}, at : {"drain", "inner", "app"}])
  /\ pauses \in Nat /\ threw \in BOOLEAN
  /\ ended \in {"no", "application", "peer", "eof", "failed", "raised", "reset"}

(* What was handed to NativeClient and what is held are together exactly    *)
(* the bytes decrypted so far, in order: moving consumed bytes out, nested  *)
(* drains and partial frames neither lose nor repeat one.                   *)
BytesConserved ==
  /\ client.bytes = Bytes(0, Len(client.bytes))
  /\ raw.life # "lost" => client.bytes \o Held = Bytes(0, peer.arrived)

(* frame_remaining is what is missing of the frame that NativeClient has    *)
(* part of, and None at a frame boundary, after any nesting of drains: a    *)
(* drain looks for a header exactly where a header is.                      *)
RemainingAgrees ==
  LET d == Len(client.bytes) IN
  /\ shim.websocket_mode <=> d >= peer.stream.hs
  /\ d < peer.stream.hs => d = 0 /\ shim.frame_remaining = None
  /\ d >= peer.stream.hs /\ shim.frame_remaining = None
       => d = peer.stream.hs \/ \E f \in peer.stream.frames : f.last = d
  /\ shim.frame_remaining # None
       => \E f \in peer.stream.frames :
            f.first <= d /\ d < f.last /\ shim.frame_remaining = f.last - d

(* Between calls the raw transport reads exactly when the application has   *)
(* not paused: whichever of nested pauses and resumes returns last, neither *)
(* is forgotten.  (Not after a resume_reading() that raised, see            *)
(* ResumeReads.)                                                            *)
ReadingAgrees ==
  Quiet /\ raw.life = "open" /\ ~shim.closing /\ ~threw
    => raw.reading = ~shim.read_paused

(* "Resuming a retained partial header must re-enable the raw TCP           *)
(* transport": no connection is left that is not paused and does not read.  *)
ResumeReads ==
  Quiet /\ raw.life = "open" /\ ~shim.closing /\ ~shim.read_paused => raw.reading

(* When the peer ends the connection, by close_notify or by end of file,    *)
(* every complete frame it sent has reached NativeClient, however long      *)
(* delivery was paused.                                                     *)
PeerEndKeepsFrames ==
  ended \in {"peer", "eof"} =>
    \A f \in peer.stream.frames :
      f.fits /\ f.last <= peer.arrived => f.last <= Len(client.bytes)

(* A failure the shim finds is what NativeClient and connect() are told,    *)
(* also when the aborted transport reports something else.                  *)
CauseReported ==
  ended = "failed" /\ raw.life = "lost"
    => client.lost \in {"capacity", "tls"} /\ client.handshake \notin {"pending", "lost"}

(* The buffer never outgrows the read-flow bound, with the consumed bytes   *)
(* it still carries.                                                        *)
HeldBounded == Len(shim.plaintext) <= MaxPending

(* Once the handshake is done rustls holds nothing back, the upgrade        *)
(* request included, and close_notify is the last thing written.            *)
WireOrder ==
  /\ tls.up => tls.held = <<>>
  /\ \A i \in DOMAIN raw.written : raw.written[i] = "close_notify" => i = Len(raw.written)

(* The shim implements PlaintextPipe: with all its buffering, partial       *)
(* frames and nested calls it is an ordered pipe that can be shut between   *)
(* two frames.                                                              *)
ImplementsPipe == Pipe!PipeSpec

(* A close_notify seen at any time ends the connection, unless the          *)
(* application keeps it paused or a resume_reading() raised.                *)
PeerCloseEnds ==
  shim.peer_closed ~> (raw.life = "lost" \/ shim.read_paused \/ threw)
=============================================================================

---------------------------- MODULE PlaintextPipe ---------------------------
(***************************************************************************)
(* What the Rust TLS transport promises NativeClient, without TLS, buffers  *)
(* or nested calls: a pipe that the application can shut and open.  Bytes   *)
(* leave it in the order they entered, each once, never while it is shut,   *)
(* and never two units (the upgrade response, then WebSocket frames) in one *)
(* delivery, so that shutting it takes effect between two frames.           *)
(***************************************************************************)
EXTENDS Integers, Sequences

CONSTANT Layouts   \* the possible streams: [hs, len, frames], as in RustlsShim

VARIABLES
  stream,   \* the peer's stream
  inbox,    \* bytes taken in and not yet passed on
  outbox,   \* bytes passed on
  shut,     \* the application has paused it
  up        \* it has not begun to end

pipe == <<stream, inbox, outbox, shut, up>>

PipeInit ==
  /\ stream \in Layouts
  /\ inbox = <<>> /\ outbox = <<>> /\ shut = FALSE /\ up = TRUE

(* The next n bytes of the stream come in.                                  *)
Enter(n) ==
  /\ up
  /\ Len(outbox) + Len(inbox) + n <= stream.len
  /\ inbox' = inbox \o [i \in 1..n |-> Len(outbox) + Len(inbox) + i]
  /\ UNCHANGED <<stream, outbox, shut, up>>

(* Positions a+1..b belong to one unit.                                     *)
InOneUnit(a, b) ==
  \/ b <= stream.hs
  \/ \E f \in stream.frames : f.first <= a + 1 /\ b <= f.last

(* The n oldest bytes go out.                                               *)
Leave(n) ==
  /\ up /\ ~shut
  /\ n <= Len(inbox)
  /\ InOneUnit(Len(outbox), Len(outbox) + n)
  /\ outbox' = outbox \o SubSeq(inbox, 1, n)
  /\ inbox' = SubSeq(inbox, n + 1, Len(inbox))
  /\ UNCHANGED <<stream, shut, up>>

Shut == up /\ ~shut /\ shut' = TRUE /\ UNCHANGED <<stream, inbox, outbox, up>>
Open == up /\ shut /\ shut' = FALSE /\ UNCHANGED <<stream, inbox, outbox, up>>

(* It begins to end: nothing enters or leaves any more.                     *)
End == up /\ up' = FALSE /\ UNCHANGED <<stream, inbox, outbox, shut>>

(* What it still held is dropped.                                           *)
Drop == up' = FALSE /\ inbox' = <<>> /\ UNCHANGED <<stream, outbox, shut>>

PipeNext ==
  \/ \E n \in 1..stream.len : Enter(n) \/ Leave(n)
  \/ Shut \/ Open \/ End \/ Drop

PipeSpec == PipeInit /\ [][PipeNext]_pipe
=============================================================================

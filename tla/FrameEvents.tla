---------------------------- MODULE FrameEvents -----------------------------
(***************************************************************************)
(* What the peer's frames mean, one whole frame at a time                   *)
(* (src/native_client/protocol.rs, without its bytes): the handshake        *)
(* response first, then messages, acknowledgements, pongs to send and the   *)
(* end of the connection.  FrameStream implements this from reads that cut  *)
(* the frames anywhere.                                                     *)
(***************************************************************************)
EXTENDS Integers, Sequences

CONSTANTS
  Format,       \* kind of frame -> [op, fin, rsv1, hdr, plen, inflated]
  StreamLen,    \* frames the peer sends after the handshake response
  MaxFrame,     \* MAX_FRAME_SIZE
  MaxMessage    \* MAX_MESSAGE_SIZE

Header == [op : STRING, fin : BOOLEAN, rsv1 : BOOLEAN, hdr : Nat \ {0}, plen : Nat, inflated : Nat]

ASSUME FormatAssumption ==
  /\ Format \in [DOMAIN Format -> Header]
  /\ StreamLen \in Nat /\ MaxFrame \in Nat /\ MaxMessage \in Nat

VARIABLES
  stream,       \* the frames the peer has sent, the handshake response first
  compression,  \* permessage-deflate was negotiated
  taken,        \* frames whose effect has been applied
  core          \* the parser's part of State, and the events so far

eventVars == <<stream, compression, taken, core>>

F(k) == Format[stream[k]]

NoFragment == [ids |-> <<>>, len |-> 0, inflated |-> 0, rsv1 |-> FALSE]

-----------------------------------------------------------------------------
(* Effects: what a frame does to the events seen so far, out.               *)
Message(out, ids) == [out EXCEPT !.messages = Append(@, ids)]
Ends(out, how) == [out EXCEPT !.end = how]

(* The visitor of scan_frame_aligned(): an unfragmented message or a        *)
(* control frame.                                                           *)
Visit(out, f, id) ==
  CASE f.op = "data" -> Message(out, <<id>>)
    [] f.op = "ping" -> [out EXCEPT !.pongs = Append(@, id)]
    [] f.op = "pong" -> [out EXCEPT !.acks = Append(@, id)]
    [] f.op = "close" -> Ends(out, "peer")
    [] OTHER -> out

Fails(c, code) == [c EXCEPT !.out = Ends(@, code)]

(* decompress_message(): a compressed message is an error unless the        *)
(* extension was negotiated, or when it inflates to too much.  One that     *)
(* does not inflate fails as one that was not negotiated.                   *)
Delivers(c, m) ==
  IF m.rsv1 /\ ~compression THEN Fails(c, "1002")
  ELSE IF m.rsv1 /\ m.inflated > MaxMessage THEN Fails(c, "1009")
  ELSE [c EXCEPT !.out = Message(@, m.ids)]

(* Slip: the size is tested before the new piece is added.                  *)
OversizedBefore(m, f) == m.len > MaxMessage

(* The size limit on a message put together from fragments.                 *)
Oversized(m, f) == m.len + f.plen > MaxMessage

(* The tests of next_event() that fail the connection and leave the frame   *)
(* in the buffer.                                                           *)
Refusal(c, f) ==
  IF f.plen > MaxFrame THEN "1009"
  ELSE IF f.op = "data" /\ c.fragment.ids # <<>> THEN "1002"
  ELSE IF f.op = "continuation" /\ c.fragment.ids = <<>> THEN "1002"
  ELSE IF f.op = "continuation" /\ Oversized(c.fragment, f) THEN "1009"
  ELSE "none"

(* The fragment with one more frame; a message is the sequence of its       *)
(* frames.                                                                  *)
Joined(m, f, id) ==
  [ids |-> Append(m.ids, id), len |-> m.len + f.plen, inflated |-> m.inflated + f.inflated,
   rsv1 |-> IF m.ids = <<>> THEN f.rsv1 ELSE m.rsv1]

(* One complete frame of next_event().                                      *)
NextEvent(c, f, id) ==
  LET m == Joined(c.fragment, f, id)
  IN IF f.op \notin {"data", "continuation"} THEN [c EXCEPT !.out = Visit(@, f, id)]
     ELSE IF f.fin THEN Delivers([c EXCEPT !.fragment = NoFragment], m)
     ELSE [c EXCEPT !.fragment = m]

(* process_handshake(): nothing after a rejected response is a frame.       *)
Answered(c, f) ==
  IF f.op = "reject" THEN Fails(c, "rejected") ELSE [c EXCEPT !.handshake_done = TRUE]

(* The effect of the frame numbered id.                                     *)
Effect(c, f, id) ==
  IF ~c.handshake_done THEN Answered(c, f)
  ELSE IF Refusal(c, f) # "none" THEN Fails(c, Refusal(c, f))
  ELSE NextEvent(c, f, id)

-----------------------------------------------------------------------------
FrameKinds == {k \in DOMAIN Format : Format[k].op \notin {"accept", "reject"}}
Responses == DOMAIN Format \ FrameKinds

(* Nothing after a rejected handshake is read as a frame: one shows that.   *)
MayFollow(k) ==
  IF stream = <<>> THEN k \in Responses
  ELSE k \in FrameKinds /\ Len(stream) <= IF F(1).op = "reject" THEN 1 ELSE StreamLen

PeerSends(k) ==
  /\ MayFollow(k)
  /\ stream' = Append(stream, k)
  /\ UNCHANGED <<compression, taken, core>>

Take ==
  /\ taken < Len(stream) /\ core.out.end = "open"
  /\ core' = Effect(core, F(taken + 1), taken + 1)
  /\ taken' = taken + 1
  /\ UNCHANGED <<stream, compression>>

EventsInit ==
  /\ stream = <<>> /\ compression \in BOOLEAN /\ taken = 0
  /\ core = [handshake_done |-> FALSE, fragment |-> NoFragment,
             out |-> [messages |-> <<>>, acks |-> <<>>, pongs |-> <<>>, end |-> "open"]]

EventsNext == Take \/ \E k \in DOMAIN Format : PeerSends(k)

EventsSpec == EventsInit /\ [][EventsNext]_eventVars

-----------------------------------------------------------------------------
(* m is frames among the first n of s that belong together: a data frame    *)
(* and the continuations after it, none of them final before the last.      *)
Part(s, k) == Format[s[k]].op \in {"data", "continuation"}
Final(s, k) == Part(s, k) /\ Format[s[k]].fin
Follows(s, j, k) == j < k /\ \A i \in (j + 1)..(k - 1) : ~Part(s, i)

Gathered(s, n, m) ==
  /\ m # <<>>
  /\ \A i \in 1..Len(m) : m[i] \in 2..n
  /\ \A i \in 1..Len(m) : Format[s[m[i]]].op = IF i = 1 THEN "data" ELSE "continuation"
  /\ \A i \in 1..(Len(m) - 1) : ~Final(s, m[i]) /\ Follows(s, m[i], m[i + 1])

Last(m) == m[Len(m)]

(* Every message delivered is one the peer sent, from its first frame to    *)
(* its final one with nothing left out; messages are delivered in the order *)
(* sent, and none is missing up to the frame that ended the connection      *)
(* (next_event(), walk_frames()).                                           *)
MessagesAsSent ==
  LET ms == core.out.messages
  IN /\ \A i \in 1..Len(ms) : Gathered(stream, taken, ms[i]) /\ Final(stream, Last(ms[i]))
     /\ \A i, j \in 1..Len(ms) : i < j => Last(ms[i]) < ms[j][1]
     /\ \A k \in 2..taken : Final(stream, k) /\ (k < taken \/ core.out.end = "open") =>
          \E i \in 1..Len(ms) : Last(ms[i]) = k

(* q is the frames of kind op among the first n, in order.                  *)
Counts(s, op, k) == Format[s[k]].op = op /\ Format[s[k]].plen <= MaxFrame
AllOf(s, n, op, q) ==
  /\ \A i, j \in 1..Len(q) : i < j => q[i] < q[j]
  /\ \A i \in 1..Len(q) : q[i] \in 2..n /\ Counts(s, op, q[i])
  /\ \A k \in 2..n : Counts(s, op, k) => \E i \in 1..Len(q) : q[i] = k

(* Every Ping is answered and every Pong acknowledged once and in order,    *)
(* whichever parser reads it and whatever message it interrupts.            *)
ControlsAsSent ==
  /\ AllOf(stream, taken, "ping", core.out.pongs)
  /\ AllOf(stream, taken, "pong", core.out.acks)
=============================================================================

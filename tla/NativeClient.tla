---------------------------- MODULE NativeClient ----------------------------
(***************************************************************************)
(* The receive side and the lifecycle of the native asyncio client          *)
(* (src/native_client/client.rs): parked recv() futures, the backlog, the   *)
(* on_message queue, ping_waiter() probes, and every way a connection ends. *)
(*                                                                          *)
(* One thread runs everything, so handlers interleave only where the code   *)
(* calls out to Python with its State borrow released: the on_message       *)
(* callback, loop.create_future(), a probe's done(), transport.write().     *)
(* `stack` holds the client's active calls, the innermost first.  Only the  *)
(* innermost proceeds; where it has called out, new user calls nest in it.  *)
(*                                                                          *)
(* The handshake future is 0; receivers are numbered as they are parked, so *)
(* the deque pending_recv is the set of its members in numeric order (it is *)
(* only ever pushed at the back); probes are numbered after the receivers.  *)
(***************************************************************************)
EXTENDS Integers, Sequences, FiniteSets

CONSTANTS
  MaxRecv,      \* recv() calls that park or return a message
  MaxProbe,     \* ping_waiter() calls that create a future
  MaxEvents,    \* frames the peer sends, the handshake response included
  MaxDepth,     \* nesting of calls into the client
  Payloads,     \* ping payloads
  SweepMin,     \* RECV_SWEEP_MIN
  Unprobeable,  \* receivers whose done() raises
  Rejecting,    \* receivers whose set_result() raises
  Reentry,      \* call-outs that may call back: "callback", "recv", "done", "create", "write"
  Modes         \* values of "an on_message callback was given to connect()"

Handshake == 0
Receivers == 1..MaxRecv
Probes == (MaxRecv + 1)..(MaxRecv + MaxProbe)
Futures == {Handshake} \cup Receivers \cup Probes
NoFuture == -1

ASSUME BoundsAssumption ==
  /\ MaxRecv \in Nat /\ MaxProbe \in Nat /\ MaxEvents \in Nat /\ MaxDepth \in Nat \ {0}
  /\ SweepMin \in Nat \ {0}
ASSUME FutureKindsAssumption == Unprobeable \subseteq Receivers /\ Rejecting \subseteq Receivers
ASSUME ModesAssumption == Modes \subseteq BOOLEAN

VARIABLES
  closed, transport, on_message, create_future, handshake_done,
  handshake_fut,          \* State.handshake_fut is Some
  pending_recv, unprobeable_recv, recv_sweep_at,
  backlog, pending_callback_msgs,
  pending_pings,          \* payload -> registered probe, or NoFuture
  fut,                    \* status of every asyncio Future
  payload,                \* probe -> payload its PingCleanup carries
  cleanups,               \* probes whose PingCleanup is scheduled with call_soon
  stack,
  link,                   \* the asyncio transport, external
  helper,                 \* the _connect_helper coroutine
  recvs, probes, events,  \* counters: receivers, probes, frames so far
  arrived,                \* messages parsed so far; message k is the k-th
  delivered,              \* messages handed to the application, in order
  got,                    \* receiver -> message it returned, 0 if none
  wire,                   \* control frames submitted to transport.write
  peak,                   \* most receivers ever live in pending_recv at once
  dropped,                \* on_message messages cleared undelivered
  excuse                  \* the application itself called close(), or a callback raised

refs == <<transport, on_message, create_future>>
parked == <<pending_recv, unprobeable_recv, recv_sweep_at, recvs, peak>>
pings == <<pending_pings, payload, cleanups, probes>>
msgs == <<backlog, pending_callback_msgs, delivered, got, dropped>>
outside == <<link, helper>>
vars == <<closed, refs, handshake_done, handshake_fut, parked, pings, msgs, fut,
          stack, outside, events, arrived, wire, excuse>>

Mode(op) == stack # <<>> /\ stack[1].op = op
Push(frame) == <<frame>> \o stack
Replace(frame) == <<frame>> \o Tail(stack)

DataFrame(fast, acks, pongs) == [op |-> "data", fast |-> fast, acks |-> acks, pongs |-> pongs]
FlushFrame(then, pending, tr) ==
  [op |-> "flush", then |-> then, pending |-> pending, transport |-> tr, running |-> FALSE]
RecvFrame == [op |-> "recv"]
PingFrame(at, p, probe) == [op |-> "ping", at |-> at, payload |-> p, probe |-> probe]

(* Where Python code other than this client may run. *)
CalledOut ==
  \/ stack = <<>>
  \/ Mode("flush") /\ stack[1].running /\ "callback" \in Reentry
  \/ Mode("recv") /\ "recv" \in Reentry
  \/ Mode("ping") /\ stack[1].at \in Reentry
UserCall == helper = "returned" /\ CalledOut
NestedCall == UserCall /\ Len(stack) < MaxDepth

(* Slip: done() is not asked. *)
LiveUnasked(r) == r \notin Unprobeable

(* take_live_receiver and park_receiver ask done(): FALSE, TRUE, or an exception. *)
Live(r) == fut[r] = "pending" /\ r \notin Unprobeable
LiveReceivers == {r \in pending_recv : Live(r)}

(* Slips: take_pending forgets the probes, the handshake. *)
TakePendingNoProbes ==
  pending_recv \cup unprobeable_recv \cup (IF handshake_fut THEN {Handshake} ELSE {})
TakePendingNoHandshake ==
  pending_recv \cup unprobeable_recv
    \cup {pending_pings[p] : p \in {q \in Payloads : pending_pings[q] # NoFuture}}

TakePending ==
  pending_recv \cup unprobeable_recv \cup (IF handshake_fut THEN {Handshake} ELSE {})
    \cup {pending_pings[p] : p \in {q \in Payloads : pending_pings[q] # NoFuture}}

Settle(f, S, status) ==
  [x \in Futures |-> IF x \in S /\ f[x] = "pending" THEN status ELSE f[x]]
Unsettled(S) == {q \in S \cap Probes : fut[q] = "pending"}

(* Slip: the callback is kept. *)
ReleaseAllButCallback ==
  /\ transport' = FALSE /\ create_future' = FALSE /\ UNCHANGED on_message
  /\ pending_callback_msgs' = <<>>
  /\ dropped' = dropped + Len(pending_callback_msgs)

ReleaseReferences ==
  /\ transport' = FALSE /\ on_message' = FALSE /\ create_future' = FALSE
  /\ pending_callback_msgs' = <<>>
  /\ dropped' = dropped + Len(pending_callback_msgs)

ClearPending ==
  /\ pending_recv' = {} /\ unprobeable_recv' = {} /\ handshake_fut' = FALSE
  /\ pending_pings' = [p \in Payloads |-> NoFuture]

Closing(calls_close) == IF calls_close /\ link = "up" THEN "closing" ELSE link

Init ==
  /\ closed = FALSE /\ transport = FALSE /\ on_message \in Modes /\ create_future = TRUE
  /\ handshake_done = FALSE /\ handshake_fut = TRUE
  /\ pending_recv = {} /\ unprobeable_recv = {} /\ recv_sweep_at = SweepMin
  /\ backlog = <<>> /\ pending_callback_msgs = <<>>
  /\ pending_pings = [p \in Payloads |-> NoFuture]
  /\ fut = [f \in Futures |-> IF f = Handshake THEN "pending" ELSE "free"]
  /\ payload = [q \in Probes |-> NoFuture] /\ cleanups = {}
  /\ stack = <<>> /\ link = "connecting" /\ helper = "waiting"
  /\ recvs = 0 /\ probes = 0 /\ events = 0 /\ arrived = 0
  /\ delivered = <<>> /\ got = [r \in Receivers |-> 0] /\ wire = <<>>
  /\ peak = 0 /\ dropped = 0 /\ excuse = FALSE

-----------------------------------------------------------------------------
(* connect(), _connect_helper and close(). *)

ConnectionMade ==
  /\ stack = <<>> /\ link = "connecting" /\ helper = "waiting"
  /\ link' = "up" /\ transport' = TRUE
  /\ UNCHANGED <<closed, on_message, create_future, handshake_done, handshake_fut, parked, pings,
                 msgs, fut, stack, helper, events, arrived, wire, excuse>>

(* Slip: `closed` is not tested. *)
SendsCloseAgain == transport

(* close() writes a Close frame unless something closed the connection before. *)
SendsClose == transport /\ ~closed

(* The body of close(), with f the futures as it finds them. *)
DoClose(f) ==
  /\ closed' = TRUE
  /\ ReleaseReferences
  /\ fut' = Settle(f, TakePending, "failed")
  /\ cleanups' = cleanups \cup Unsettled(TakePending)
  /\ ClearPending
  /\ wire' = IF SendsClose THEN Append(wire, "close") ELSE wire
  /\ link' = Closing(transport)
  /\ UNCHANGED <<handshake_done, recv_sweep_at, recvs, peak, payload, probes, backlog,
                 delivered, got, stack, events, arrived>>

(* close(), __aexit__ *)
Close ==
  /\ UserCall
  /\ DoClose(fut)
  /\ excuse' = TRUE
  /\ UNCHANGED helper

HelperReturn ==
  /\ stack = <<>> /\ helper = "waiting" /\ fut[Handshake] = "result"
  /\ helper' = "returned"
  /\ UNCHANGED <<closed, refs, handshake_done, handshake_fut, parked, pings, msgs, fut,
                 stack, link, events, arrived, wire, excuse>>

(* The except branch: connecting failed, timed out, was cancelled, or was    *)
(* rejected; a timeout can also win against an answer that is already there. *)
HelperRaise ==
  /\ stack = <<>> /\ helper = "waiting"
  /\ DoClose(Settle(fut, {Handshake}, "cancelled"))
  /\ excuse' = TRUE
  /\ helper' = "raised"

-----------------------------------------------------------------------------
(* recv() and __anext__. *)

RecvReady ==
  /\ UserCall /\ backlog # <<>> /\ recvs < MaxRecv
  /\ recvs' = recvs + 1
  /\ got' = [got EXCEPT ![recvs + 1] = Head(backlog)]
  /\ fut' = [fut EXCEPT ![recvs + 1] = "result"]
  /\ delivered' = Append(delivered, Head(backlog))
  /\ backlog' = Tail(backlog)
  /\ UNCHANGED <<closed, refs, handshake_done, handshake_fut, pending_recv, unprobeable_recv,
                 recv_sweep_at, peak, pings, pending_callback_msgs, dropped, stack, outside,
                 events, arrived, wire, excuse>>

RecvCall ==
  /\ NestedCall /\ backlog = <<>> /\ ~closed /\ create_future
  /\ recvs + Cardinality({i \in DOMAIN stack : stack[i].op = "recv"}) < MaxRecv
  /\ stack' = Push(RecvFrame)
  /\ UNCHANGED <<closed, refs, handshake_done, handshake_fut, parked, pings, msgs, fut,
                 outside, events, arrived, wire, excuse>>

(* Slip: the old threshold doubled instead of the live count.               *)
SweepAtGrowing(live) == 2 * recv_sweep_at

SweepAt(live) == IF SweepMin >= 2 * live THEN SweepMin ELSE 2 * live

(* create_future() has returned; park_receiver sweeps, then pushes. *)
RecvPark ==
  /\ Mode("recv") /\ recvs < MaxRecv
  /\ LET r == recvs + 1
         sweep == Cardinality(pending_recv) >= recv_sweep_at
         kept == IF sweep THEN LiveReceivers ELSE pending_recv
         live == Cardinality(LiveReceivers \cup {r})
     IN /\ recvs' = r
        /\ fut' = [fut EXCEPT ![r] = "pending"]
        /\ pending_recv' = kept \cup {r}
        /\ unprobeable_recv' = IF sweep THEN unprobeable_recv \cup (pending_recv \cap Unprobeable)
                               ELSE unprobeable_recv
        /\ recv_sweep_at' = IF sweep THEN SweepAt(Cardinality(LiveReceivers)) ELSE recv_sweep_at
        /\ peak' = IF live > peak THEN live ELSE peak
  /\ stack' = Tail(stack)
  /\ UNCHANGED <<closed, refs, handshake_done, handshake_fut, pings, msgs, outside, events,
                 arrived, wire, excuse>>

(* The application, or wait_for at receive_timeout, cancels a future it holds. *)
Cancel(f) ==
  /\ UserCall /\ f \in Receivers \cup Probes /\ fut[f] = "pending"
  /\ \A i \in DOMAIN stack : ~(stack[i].op = "ping" /\ stack[i].at = "write" /\ stack[i].probe = f)
  /\ fut' = [fut EXCEPT ![f] = "cancelled"]
  /\ cleanups' = cleanups \cup ({f} \cap Probes)
  /\ UNCHANGED <<closed, refs, handshake_done, handshake_fut, parked, pending_pings, payload,
                 probes, msgs, stack, outside, events, arrived, wire, excuse>>

-----------------------------------------------------------------------------
(* ping_waiter() and PingCleanup. *)

PingCall(p) ==
  /\ NestedCall /\ ~closed /\ create_future
  /\ probes + Cardinality({i \in DOMAIN stack : stack[i].op = "ping" /\ stack[i].at # "write"}) < MaxProbe
  /\ stack' = Push(PingFrame(IF pending_pings[p] = NoFuture THEN "create" ELSE "done",
                             p, pending_pings[p]))
  /\ UNCHANGED <<closed, refs, handshake_done, handshake_fut, parked, pings, msgs, fut,
                 outside, events, arrived, wire, excuse>>

(* done() of the probe found under the payload has returned. *)
PingDone ==
  /\ Mode("ping") /\ stack[1].at = "done"
  /\ LET p == stack[1].payload
         existing == stack[1].probe
         current == pending_pings[p]
         duplicate == current # NoFuture /\ (current # existing \/ fut[existing] = "pending")
     IN IF closed \/ duplicate
        THEN stack' = Tail(stack) /\ UNCHANGED pending_pings
        ELSE /\ stack' = Replace(PingFrame("create", p, NoFuture))
             /\ pending_pings' = [pending_pings EXCEPT ![p] = NoFuture]
  /\ UNCHANGED <<closed, refs, handshake_done, handshake_fut, parked, payload, cleanups, probes,
                 msgs, fut, outside, events, arrived, wire, excuse>>

(* Slip: only the payload is checked again. *)
PingRegisterUnchecked ==
  /\ Mode("ping") /\ stack[1].at = "create" /\ probes < MaxProbe
  /\ LET p == stack[1].payload
         q == MaxRecv + probes + 1
         duplicate == pending_pings[p] # NoFuture
     IN /\ payload' = [payload EXCEPT ![q] = p]
        /\ probes' = probes + 1
        /\ fut' = [fut EXCEPT ![q] = IF duplicate THEN "cancelled" ELSE "pending"]
        /\ cleanups' = IF duplicate THEN cleanups \cup {q} ELSE cleanups
        /\ pending_pings' = IF duplicate THEN pending_pings ELSE [pending_pings EXCEPT ![p] = q]
        /\ wire' = IF duplicate THEN wire ELSE Append(wire, "ping")
        /\ stack' = IF duplicate THEN Tail(stack) ELSE Replace(PingFrame("write", p, q))
  /\ UNCHANGED <<closed, refs, handshake_done, handshake_fut, parked, msgs, outside, events,
                 arrived, excuse>>

(* create_future() and add_done_callback() have returned: re-check, register, *)
(* call transport.write().                                                    *)
PingRegister ==
  /\ Mode("ping") /\ stack[1].at = "create" /\ probes < MaxProbe
  /\ LET p == stack[1].payload
         q == MaxRecv + probes + 1
         invalid == closed \/ ~transport \/ pending_pings[p] # NoFuture
     IN /\ payload' = [payload EXCEPT ![q] = p]
        /\ probes' = probes + 1
        /\ IF invalid
           THEN /\ fut' = [fut EXCEPT ![q] = "cancelled"]
                /\ cleanups' = cleanups \cup {q}
                /\ stack' = Tail(stack)
                /\ UNCHANGED <<pending_pings, wire>>
           ELSE /\ fut' = [fut EXCEPT ![q] = "pending"]
                /\ pending_pings' = [pending_pings EXCEPT ![p] = q]
                /\ wire' = Append(wire, "ping")
                /\ stack' = Replace(PingFrame("write", p, q))
                /\ UNCHANGED cleanups
  /\ UNCHANGED <<closed, refs, handshake_done, handshake_fut, parked, msgs, outside, events,
                 arrived, excuse>>

PingWritten ==
  /\ Mode("ping") /\ stack[1].at = "write"
  /\ stack' = Tail(stack)
  /\ UNCHANGED <<closed, refs, handshake_done, handshake_fut, parked, pings, msgs, fut,
                 outside, events, arrived, wire, excuse>>

(* write() raised: unregister, cancel, close the transport, run connection_lost. *)
PingWriteFails ==
  /\ Mode("ping") /\ stack[1].at = "write"
  /\ LET q == stack[1].probe
     IN /\ pending_pings' = [pending_pings EXCEPT ![stack[1].payload] = NoFuture]
        /\ fut' = Settle(fut, {q}, "cancelled")
        /\ cleanups' = cleanups \cup Unsettled({q})
  /\ link' = Closing(TRUE)
  /\ stack' = Replace(FlushFrame("lost", {}, FALSE))
  /\ UNCHANGED <<closed, refs, handshake_done, handshake_fut, parked, payload, probes, msgs,
                 helper, events, arrived, wire, excuse>>

(* Slips: the entry is removed whoever owns it, or never. *)
AnyEntry(q) == TRUE
NoEntry(q) == FALSE

OwnEntry(q) == pending_pings[payload[q]] = q

(* PingCleanup.__call__ removes its own entry only. *)
RunCleanup(q) ==
  /\ stack = <<>> /\ q \in cleanups
  /\ cleanups' = cleanups \ {q}
  /\ pending_pings' = IF OwnEntry(q)
                      THEN [pending_pings EXCEPT ![payload[q]] = NoFuture] ELSE pending_pings
  /\ UNCHANGED <<closed, refs, handshake_done, handshake_fut, parked, payload, probes, msgs, fut,
                 stack, outside, events, arrived, wire, excuse>>

-----------------------------------------------------------------------------
(* data_received / buffer_updated: one step per frame.  The fast path        *)
(* (scan_frame_aligned) holds acks and pongs back until its scan ends; the   *)
(* slow path (process_buffered_frames) applies them frame by frame.          *)
(* The handler starts on an empty stack, as asyncio's transports call it.    *)
(* Under rustls an on_message callback that resumes reading is handed more   *)
(* plaintext before it returns; that nesting is in RustlsShim only.          *)

DataReceived ==
  /\ stack = <<>> /\ link = "up"
  /\ \E fast \in {FALSE, handshake_done} : stack' = Push(DataFrame(fast, {}, 0))
  /\ UNCHANGED <<closed, refs, handshake_done, handshake_fut, parked, pings, msgs, fut,
                 outside, events, arrived, wire, excuse>>

NextFrame == Mode("data") /\ events < MaxEvents /\ events' = events + 1

(* process_handshake and its outcome in process_buffered_frames. *)
HandshakeIn ==
  /\ NextFrame /\ ~handshake_done
  /\ \E accepted \in BOOLEAN :
       /\ handshake_done' = accepted
       /\ fut' = IF handshake_fut
                 THEN Settle(fut, {Handshake}, IF accepted THEN "result" ELSE "failed") ELSE fut
       /\ stack' = IF accepted THEN stack ELSE Replace(FlushFrame("return", {}, FALSE))
  /\ handshake_fut' = FALSE
  /\ UNCHANGED <<closed, refs, parked, pings, msgs, outside, arrived, wire, excuse>>

(* Slips: only the front is tried; the receivers are popped from the back. *)
TakeFrontReceiver(r) ==
  LET popped == {q \in pending_recv : \A p \in pending_recv : q <= p}
  IN /\ IF r = 0 THEN popped \cap LiveReceivers = {} ELSE r \in popped \cap LiveReceivers
     /\ pending_recv' = pending_recv \ popped
     /\ unprobeable_recv' = unprobeable_recv \cup (popped \cap Unprobeable)
TakeNewestReceiver(r) ==
  LET popped == IF r = 0 THEN pending_recv ELSE {q \in pending_recv : q >= r}
  IN /\ IF r = 0 THEN LiveReceivers = {}
        ELSE r \in LiveReceivers /\ \A q \in LiveReceivers : q <= r
     /\ pending_recv' = pending_recv \ popped
     /\ unprobeable_recv' = unprobeable_recv \cup (popped \cap Unprobeable)

(* take_live_receiver: pop up to the first live receiver, quarantining the    *)
(* unprobeable ones passed on the way; r is the receiver found, 0 for none.   *)
TakeLiveReceiver(r) ==
  LET popped == IF r = 0 THEN pending_recv ELSE {q \in pending_recv : q <= r}
  IN /\ IF r = 0 THEN LiveReceivers = {}
        ELSE r \in LiveReceivers /\ \A q \in LiveReceivers : r <= q
     /\ pending_recv' = pending_recv \ popped
     /\ unprobeable_recv' = unprobeable_recv \cup (popped \cap Unprobeable)

(* deliver_message, and the Message branch of handle_protocol_event. *)
MessageIn ==
  /\ NextFrame /\ handshake_done
  /\ arrived' = arrived + 1
  /\ \/ /\ on_message
        /\ pending_callback_msgs' = Append(pending_callback_msgs, arrived + 1)
        /\ UNCHANGED <<pending_recv, unprobeable_recv, backlog, fut, got, delivered>>
     \/ /\ ~on_message /\ TakeLiveReceiver(0)
        /\ backlog' = Append(backlog, arrived + 1)
        /\ UNCHANGED <<pending_callback_msgs, fut, got, delivered>>
     \/ /\ ~on_message
        /\ \E r \in pending_recv \ Rejecting :
             /\ TakeLiveReceiver(r)
             /\ fut' = Settle(fut, {r}, "result")
             /\ IF fut[r] = "pending"
                THEN /\ got' = [got EXCEPT ![r] = arrived + 1]
                     /\ delivered' = Append(delivered, arrived + 1)
                ELSE UNCHANGED <<got, delivered>>
        /\ UNCHANGED <<backlog, pending_callback_msgs>>
  /\ UNCHANGED <<closed, refs, handshake_done, handshake_fut, recv_sweep_at, recvs, peak, pings,
                 dropped, stack, outside, wire, excuse>>

(* set_result() raised: the error leaves data_received through `?`, and what  *)
(* the fast path was holding back is dropped with it.                         *)
MessageRejected ==
  /\ NextFrame /\ handshake_done /\ ~on_message
  /\ arrived' = arrived + 1
  /\ \E r \in pending_recv \cap Rejecting : TakeLiveReceiver(r)
  /\ stack' = Replace(FlushFrame("return", {}, FALSE))
  /\ link' = Closing(TRUE)
  /\ UNCHANGED <<closed, refs, handshake_done, handshake_fut, recv_sweep_at, recvs, peak, pings,
                 msgs, fut, helper, wire, excuse>>

PingIn ==
  /\ NextFrame /\ handshake_done
  /\ LET top == stack[1]
     IN IF top.fast
        THEN /\ stack' = Replace([top EXCEPT !.pongs = @ + (IF transport THEN 1 ELSE 0)])
             /\ UNCHANGED wire
        ELSE /\ wire' = IF transport THEN Append(wire, "pong") ELSE wire
             /\ UNCHANGED stack
  /\ UNCHANGED <<closed, refs, handshake_done, handshake_fut, parked, pings, msgs, fut,
                 outside, arrived, excuse>>

(* take_ping, then acknowledge (at once, or at the end of the fast scan). *)
PongIn(p) ==
  /\ NextFrame /\ handshake_done
  /\ LET top == stack[1]
         taken == {pending_pings[p]} \ {NoFuture}
     IN IF top.fast
        THEN /\ stack' = Replace([top EXCEPT !.acks = @ \cup taken])
             /\ UNCHANGED fut
        ELSE /\ fut' = Settle(fut, taken, "result")
             /\ UNCHANGED stack
  /\ pending_pings' = [pending_pings EXCEPT ![p] = NoFuture]
  /\ UNCHANGED <<closed, refs, handshake_done, handshake_fut, parked, payload, cleanups, probes,
                 msgs, outside, arrived, wire, excuse>>

(* Unknown opcodes and frames that complete nothing. *)
OtherIn ==
  /\ NextFrame /\ handshake_done
  /\ UNCHANGED <<closed, refs, handshake_done, handshake_fut, parked, pings, msgs, fut, stack,
                 outside, arrived, wire, excuse>>

(* The scan's epilogue: acknowledge, then write the pongs. *)
EndScan ==
  /\ fut' = Settle(fut, stack[1].acks, "result")
  /\ wire' = wire \o [i \in 1..stack[1].pongs |-> "pong"]

(* The window is consumed, or the rest is a partial frame. *)
DataEnd ==
  /\ Mode("data") /\ EndScan
  /\ stack' = Replace(FlushFrame("return", {}, FALSE))
  /\ UNCHANGED <<closed, refs, handshake_done, handshake_fut, parked, pings, msgs, outside,
                 events, arrived, excuse>>

(* park_tail_and_drain / Fallback: the rest of the window takes the slow path. *)
FallBack ==
  /\ Mode("data") /\ stack[1].fast /\ EndScan
  /\ stack' = Replace(DataFrame(FALSE, {}, 0))
  /\ UNCHANGED <<closed, refs, handshake_done, handshake_fut, parked, pings, msgs, outside,
                 events, arrived, excuse>>

(* begin_peer_close and begin_protocol_error: the pending futures move from    *)
(* State into the handler, which runs the queued callbacks before failing them. *)
BeginClose(then) ==
  /\ closed' = TRUE
  /\ ClearPending
  /\ stack' = Replace(FlushFrame(then, TakePending, transport))
  /\ UNCHANGED <<refs, handshake_done, recv_sweep_at, recvs, peak, payload, cleanups, probes,
                 msgs, outside, arrived, excuse>>

CloseIn == NextFrame /\ handshake_done /\ EndScan /\ BeginClose("peer_close")

ProtocolErrorIn ==
  /\ NextFrame /\ handshake_done /\ ~stack[1].fast
  /\ BeginClose("protocol_error")
  /\ UNCHANGED <<fut, wire>>

-----------------------------------------------------------------------------
(* flush_pending_callbacks and what its caller does next. *)

FlushPop ==
  /\ Mode("flush") /\ ~stack[1].running /\ on_message /\ pending_callback_msgs # <<>>
  /\ delivered' = Append(delivered, Head(pending_callback_msgs))
  /\ pending_callback_msgs' = Tail(pending_callback_msgs)
  /\ stack' = Replace([stack[1] EXCEPT !.running = TRUE])
  /\ UNCHANGED <<closed, refs, handshake_done, handshake_fut, parked, pings, backlog, got, dropped,
                 fut, outside, events, arrived, wire, excuse>>

CallbackReturn ==
  /\ Mode("flush") /\ stack[1].running
  /\ stack' = Replace([stack[1] EXCEPT !.running = FALSE])
  /\ UNCHANGED <<closed, refs, handshake_done, handshake_fut, parked, pings, msgs, fut,
                 outside, events, arrived, wire, excuse>>

(* Slip: the queue is left after any callback. *)
FlushEndsEarly ==
  \/ ~stack[1].running /\ UNCHANGED excuse
  \/ stack[1].running /\ excuse' = TRUE

FlushEnds ==
  \/ ~stack[1].running /\ (~on_message \/ pending_callback_msgs = <<>>) /\ UNCHANGED excuse
  \/ stack[1].running /\ excuse' = TRUE
Raised == stack[1].running

(* End of data_received: a callback's exception is fatal to the transport. *)
FlushReturn ==
  /\ Mode("flush") /\ stack[1].then = "return" /\ FlushEnds
  /\ link' = Closing(Raised)
  /\ stack' = Tail(stack)
  /\ UNCHANGED <<closed, refs, handshake_done, handshake_fut, parked, pings, msgs, fut,
                 helper, events, arrived, wire>>

(* apply_peer_close, and the ProtocolError branch, which also sends a Close. *)
FlushApplyClose ==
  /\ Mode("flush") /\ stack[1].then \in {"peer_close", "protocol_error"} /\ FlushEnds
  /\ ReleaseReferences
  /\ fut' = Settle(fut, stack[1].pending, "failed")
  /\ cleanups' = cleanups \cup Unsettled(stack[1].pending)
  /\ wire' = IF stack[1].then = "protocol_error" /\ stack[1].transport
             THEN Append(wire, "close") ELSE wire
  /\ link' = Closing(stack[1].transport \/ Raised)
  /\ stack' = Tail(stack)
  /\ UNCHANGED <<closed, handshake_done, handshake_fut, parked, pending_pings, payload, probes,
                 backlog, delivered, got, helper, events, arrived>>

(* connection_lost: callbacks first, then closed, release, fail. *)
ConnectionLost ==
  /\ stack = <<>> /\ link \in {"up", "closing"}
  /\ link' = "lost"
  /\ stack' = Push(FlushFrame("lost", {}, FALSE))
  /\ UNCHANGED <<closed, refs, handshake_done, handshake_fut, parked, pings, msgs, fut,
                 helper, events, arrived, wire, excuse>>

FlushLost ==
  /\ Mode("flush") /\ stack[1].then = "lost" /\ FlushEnds
  /\ closed' = TRUE
  /\ ReleaseReferences
  /\ fut' = Settle(fut, TakePending, "failed")
  /\ cleanups' = cleanups \cup Unsettled(TakePending)
  /\ ClearPending
  /\ stack' = Tail(stack)
  /\ UNCHANGED <<handshake_done, recv_sweep_at, recvs, peak, payload, probes, backlog, delivered,
                 got, outside, events, arrived, wire>>

-----------------------------------------------------------------------------
InnerStep ==
  \/ RecvPark
  \/ PingDone \/ PingRegister \/ PingWritten \/ PingWriteFails
  \/ HandshakeIn \/ MessageIn \/ MessageRejected \/ PingIn \/ (\E p \in Payloads : PongIn(p))
  \/ OtherIn \/ CloseIn \/ ProtocolErrorIn \/ DataEnd \/ FallBack
  \/ FlushPop \/ CallbackReturn \/ FlushReturn \/ FlushApplyClose \/ FlushLost

Application ==
  \/ Close \/ RecvReady \/ RecvCall
  \/ \E f \in Receivers \cup Probes : Cancel(f)
  \/ \E p \in Payloads : PingCall(p)

EventLoop ==
  \/ ConnectionMade \/ HelperReturn \/ HelperRaise
  \/ DataReceived \/ ConnectionLost
  \/ \E q \in Probes : RunCleanup(q)

Next == InnerStep \/ Application \/ EventLoop
Spec == Init /\ [][Next]_vars

(* Handlers, and the Python code they call out to, run to completion, nested   *)
(* calls or not.  The loop's ready queue is first in, first out, so what         *)
(* call_soon scheduled (a PingCleanup, connection_lost of a closing transport,   *)
(* the helper's wakeup) runs however much data arrives.                          *)
FairSpec ==
  /\ Spec
  /\ \A depth \in 1..MaxDepth : SF_vars(Len(stack) = depth /\ InnerStep)
  /\ SF_vars(link = "closing" /\ ConnectionLost)
  /\ \A q \in Probes : SF_vars(RunCleanup(q))
  /\ SF_vars(HelperReturn) /\ SF_vars(fut[Handshake] = "failed" /\ HelperRaise)

-----------------------------------------------------------------------------
(* Properties *)

Status == {"free", "pending", "cancelled", "result", "failed"}
Frame ==
  [op : {"data"}, fast : BOOLEAN, acks : SUBSET Probes, pongs : Nat]
    \cup [op : {"flush"}, then : {"return", "peer_close", "protocol_error", "lost"},
          pending : SUBSET Futures, transport : BOOLEAN, running : BOOLEAN]
    \cup [op : {"recv"}]
    \cup [op : {"ping"}, at : {"done", "create", "write"}, payload : Payloads,
          probe : Probes \cup {NoFuture}]

Control == {"ping", "pong", "close"}

TypeFlags ==
  /\ closed \in BOOLEAN /\ transport \in BOOLEAN /\ on_message \in BOOLEAN
  /\ create_future \in BOOLEAN /\ handshake_done \in BOOLEAN /\ handshake_fut \in BOOLEAN
  /\ excuse \in BOOLEAN
  /\ link \in {"connecting", "up", "closing", "lost"}
  /\ helper \in {"waiting", "returned", "raised"}
TypeParked ==
  /\ pending_recv \subseteq Receivers /\ unprobeable_recv \subseteq Receivers
  /\ recv_sweep_at \in Nat \ {0} /\ peak \in Nat /\ recvs \in 0..MaxRecv
TypePings ==
  /\ pending_pings \in [Payloads -> Probes \cup {NoFuture}]
  /\ payload \in [Probes -> Payloads \cup {NoFuture}]
  /\ cleanups \subseteq Probes /\ probes \in 0..MaxProbe
TypeFutures == fut \in [Futures -> Status] /\ got \in [Receivers -> Nat]
TypeMsgs ==
  /\ backlog \in Seq(Nat) /\ pending_callback_msgs \in Seq(Nat) /\ delivered \in Seq(Nat)
  /\ arrived \in Nat /\ dropped \in Nat /\ events \in 0..MaxEvents
  /\ wire \in Seq(Control)
TypeStack == stack \in Seq(Frame)

(* Every variable stays in its type; the sweep threshold never reaches 0. *)
TypeOK == TypeFlags /\ TypeParked /\ TypePings /\ TypeFutures /\ TypeMsgs /\ TypeStack

(* A message never waits in the backlog while a receiver that could take it  *)
(* is parked, whatever receivers were cancelled, swept or quarantined around *)
(* it (take_live_receiver, park_receiver, recv).                             *)
NoLostWakeup ==
  backlog # <<>> => \A r \in pending_recv : fut[r] # "pending" \/ r \in Unprobeable

(* Every message parsed is, in arrival order and exactly once, handed over or *)
(* still queued, apart from the ones release_references cleared: a cancelled  *)
(* recv() or a timeout never costs a message.                                 *)
NoLossNoReorder ==
  delivered \o backlog \o pending_callback_msgs = [i \in 1..(arrived - dropped) |-> i]

(* Queued on_message calls are only dropped when the application itself closed *)
(* the connection or its callback raised: a peer's Close, a protocol error or  *)
(* a lost connection first delivers them (flush before teardown).              *)
CallbacksBeforeTeardown == dropped > 0 => excuse

(* Receivers get messages in the order recv() was called, and no receiver is   *)
(* served while an earlier one is still waiting.                               *)
ReceiverFifo ==
  \A r, s \in Receivers :
    r < s /\ got[s] # 0 =>
      /\ got[r] < got[s]
      /\ r \in pending_recv => fut[r] # "pending" \/ r \in Unprobeable

(* Every unsettled future is where take_pending, an acknowledgment or a running *)
(* teardown will find it: cancelling one probe, reusing its payload or nesting  *)
(* ping_waiter() in done() never makes another unreachable.                     *)
PendingReachable ==
  \A f \in Futures :
    fut[f] = "pending" =>
      \/ f \in TakePending
      \/ \E i \in DOMAIN stack : \/ stack[i].op = "flush" /\ f \in stack[i].pending
                                 \/ stack[i].op = "data" /\ f \in stack[i].acks

(* Once the connection is closed and no call is active, nobody waits: every     *)
(* recv(), ping_waiter() and handshake future is settled.                       *)
NoStranded == closed /\ stack = <<>> => \A f \in Futures : fut[f] # "pending"

(* The same for probes alone: a closed connection fails every acknowledgment    *)
(* future that is still pending, whatever other futures did.                    *)
ProbesSettled == closed /\ stack = <<>> => \A q \in Probes : fut[q] # "pending"

(* All terminal paths release the transport, the callback and the loop, and     *)
(* leave the asyncio transport closing (release_references, transport.close).   *)
TerminalReleases ==
  closed /\ stack = <<>> => ~transport /\ ~on_message /\ ~create_future /\ link # "up"

(* At most one Close frame is submitted, and no control frame after it, however *)
(* close(), a protocol error and a callback that calls close() combine.         *)
CloseFrameLast == \A i \in DOMAIN wire : wire[i] = "close" => i = Len(wire)

(* park_receiver: cancelled receivers are retained only up to the sweep          *)
(* threshold, which follows the peak number of concurrent live receivers.        *)
RetentionBounded ==
  /\ Cardinality(pending_recv) <= recv_sweep_at
  /\ recv_sweep_at <= SweepMin \/ recv_sweep_at <= 2 * peak

(* A transport that starts closing ends in a closed client that keeps nobody     *)
(* waiting, also when the cause was an exception in a callback.                   *)
ClosingSettles ==
  link = "closing" ~> (closed /\ \A f \in Futures : fut[f] # "pending")

(* A cancelled probe gives its registry entry up (PingCleanup).                   *)
CancelledProbeReleased ==
  \A q \in Probes : fut[q] = "cancelled" ~> \A p \in Payloads : pending_pings[p] # q

(* connect() ends: a settled or lost handshake wakes the helper.                  *)
ConnectEnds == (link = "lost" \/ fut[Handshake] # "pending") ~> helper # "waiting"
=============================================================================

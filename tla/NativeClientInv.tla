-------------------------- MODULE NativeClientInv ---------------------------
(***************************************************************************)
(* The inductive strengthening behind the safety properties of NativeClient *)
(* when receivers are ordinary futures (Rejecting is empty) and             *)
(* create_future() in recv() does not call back ("recv" not in Reentry).    *)
(***************************************************************************)
EXTENDS NativeClient

(* Futures of the loop are ordinary ones: they accept results, and their       *)
(* creation in recv() does not call back.                                      *)
Stock == Rejecting = {} /\ "recv" \notin Reentry

IsData(i) == stack[i].op = "data"
IsTeardown(i) == stack[i].op = "flush" /\ stack[i].then \in {"peer_close", "protocol_error"}
IsWrite(i) == stack[i].op = "ping" /\ stack[i].at = "write"

(* Parsing is never nested and only runs while open, and only the fast scan    *)
(* holds acknowledgments; a teardown in progress is the outermost call, and     *)
(* will close the transport; a recv() in progress is the innermost, and was let *)
(* in by an empty backlog.                                                      *)
StackShape ==
  \A i \in DOMAIN stack :
    /\ IsData(i) => /\ Len(stack) = 1 /\ ~closed
                    /\ stack[i].acks # {} => stack[i].fast /\ handshake_done
    /\ IsTeardown(i) => /\ i = Len(stack) /\ closed
                        /\ stack[i].transport \/ link \in {"closing", "lost"}
    /\ stack[i].op = "flush" /\ ~IsTeardown(i) => stack[i].pending = {}
    /\ stack[i].op = "flush" /\ stack[i].then = "lost" => link \in {"closing", "lost"}
    /\ stack[i].op = "recv" => i = 1 /\ ~closed /\ backlog = <<>>

(* How the client's flags follow the asyncio transport's life. *)
Released == ~transport /\ ~on_message /\ ~create_future /\ link # "up"
Lifecycle ==
  /\ link = "up" => transport \/ closed
  /\ closed /\ link = "connecting" => helper = "raised"
  /\ link = "connecting" => stack = <<>> /\ fut[Handshake] # "result" /\ helper # "returned"
  /\ closed => Released \/ \E i \in DOMAIN stack : IsTeardown(i)

(* Nothing is parked or registered once the connection is closed. *)
ClosedEmpty ==
  closed => /\ pending_recv = {} /\ unprobeable_recv = {} /\ ~handshake_fut
            /\ \A p \in Payloads : pending_pings[p] = NoFuture

(* A probe being written is the registered one, and stays so until it is. *)
WritingRegistered ==
  \A i \in DOMAIN stack :
    IsWrite(i) /\ ~closed =>
      /\ stack[i].probe \in Probes /\ fut[stack[i].probe] = "pending"
      /\ pending_pings[stack[i].payload] = stack[i].probe
      /\ payload[stack[i].probe] = stack[i].payload
      /\ \A j \in DOMAIN stack : IsWrite(j) /\ stack[j].payload = stack[i].payload => i = j

(* Probes are numbered as they are created; only settled ones are cleaned up. *)
ProbesNumbered ==
  /\ \A q \in Probes : q > MaxRecv + probes => fut[q] = "free"
  /\ \A q \in cleanups : fut[q] \notin {"free", "pending"}

(* NoLossNoReorder, element by element. *)
Stream ==
  /\ \A i \in 1..Len(delivered) : delivered[i] = i
  /\ \A i \in 1..Len(backlog) : backlog[i] = Len(delivered) + i
  /\ \A i \in 1..Len(pending_callback_msgs) :
       pending_callback_msgs[i] = Len(delivered) + Len(backlog) + i
  /\ Len(delivered) + Len(backlog) + Len(pending_callback_msgs) = arrived - dropped
  /\ on_message => backlog = <<>>
  /\ ~on_message => pending_callback_msgs = <<>>
  /\ dropped > 0 => closed

(* ReceiverFifo needs to know which receivers and messages exist. *)
Served ==
  /\ \A r \in pending_recv : r <= recvs
  /\ \A s \in Receivers : got[s] # 0 => s <= recvs /\ got[s] <= Len(delivered)

(* A Close frame is submitted only by a client that is closed, and never while *)
(* a protocol error still has its own to submit.                               *)
CloseSubmitted ==
  (\E i \in DOMAIN wire : wire[i] = "close") =>
    /\ closed
    /\ \A i \in DOMAIN stack : ~(IsTeardown(i) /\ stack[i].then = "protocol_error")

IInv ==
  /\ TypeOK /\ StackShape /\ Lifecycle /\ ClosedEmpty
  /\ WritingRegistered /\ ProbesNumbered /\ PendingReachable
  /\ Stream /\ NoLostWakeup /\ Served /\ ReceiverFifo
  /\ CloseSubmitted /\ CloseFrameLast
  /\ CallbacksBeforeTeardown /\ RetentionBounded
=============================================================================

----------------------------- MODULE SyncClient -----------------------------
(***************************************************************************)
(* The blocking client (src/sync_client.rs).  Its hard part is time: the    *)
(* socket's read timeout bounds one read; when a signal interrupts a read   *)
(* (EINTR), SignalAwareTcpStream lets Python look at the signal and goes on *)
(* with what is left until read_deadline, which recv() and close() begin    *)
(* and recv() clears.  One thread at a time uses the object: PyO3 borrows   *)
(* it mutably for every call.                                               *)
(*                                                                          *)
(* Time is counted in ticks.  tungstenite and the kernel are external: a    *)
(* read may return at any moment before its timeout, a write returns at     *)
(* once.                                                                    *)
(***************************************************************************)
EXTENDS Integers

CONSTANTS
  ConnectTimeout,   \* connect_timeout
  ReceiveTimeout,   \* receive_timeout
  CloseTimeout,     \* close_timeout
  MaxTime           \* length of a behaviour

ASSUME TimeoutsAssumption ==
  /\ ConnectTimeout \in Nat \ {0} /\ ReceiveTimeout \in Nat \ {0}
  /\ CloseTimeout \in Nat \ {0} /\ MaxTime \in Nat

VARIABLES
  now,      \* the clock
  ws,       \* the ws field: TRUE when it is Some
  sock,     \* SO_RCVTIMEO, read_deadline and enforce_read_deadline
  call,     \* the call under way
  start,    \* when it began
  intr,     \* when a signal first interrupted it (history)
  result,   \* how the last call ended
  peer      \* tungstenite's state: TRUE once the peer's Close was read

vars == <<now, ws, sock, call, start, intr, result, peer>>

None == -1
Fresh(timeout) == [timeout |-> timeout, deadline |-> None, enforce |-> FALSE]
Calls == {"connect", "recv", "close", "drain"}

Timeout(op) ==
  CASE op = "connect" -> ConnectTimeout
    [] op = "recv" -> ReceiveTimeout
    [] OTHER -> CloseTimeout

Init ==
  /\ now = 0 /\ ws = FALSE /\ sock = Fresh(0) /\ call = "idle"
  /\ start = 0 /\ intr = None /\ result = "ok" /\ peer = FALSE

Begin(op) ==
  /\ call = "idle"
  /\ call' = op /\ start' = now /\ intr' = None
  /\ UNCHANGED <<now, result>>

(* Slip: the read timeout is not put back.                                  *)
ClearedStale == [sock EXCEPT !.deadline = None, !.enforce = FALSE]

(* clear_read_deadline()                                                    *)
Cleared == Fresh(IF sock.enforce THEN ReceiveTimeout ELSE sock.timeout)

(* The call returns at time t: connect() sets recv()'s timeout or drops the *)
(* socket, recv() clears the deadline on every way out, close() drops.      *)
Ends(how, t) ==
  /\ call' = "idle" /\ result' = how /\ now' = t
  /\ ws' = ((ws /\ call = "recv") \/ (call = "connect" /\ how = "ok"))
  /\ sock' = CASE call = "connect" -> Fresh(IF how = "ok" THEN ReceiveTimeout ELSE 0)
               [] call = "recv" -> Cleared
               [] OTHER -> Fresh(0)
  /\ peer' = (call = "recv" /\ (peer \/ how = "closed"))
  /\ UNCHANGED <<start, intr>>

-----------------------------------------------------------------------------
(* __connect(): both timeouts bound the TLS and WebSocket handshakes.  A    *)
(* second call returns at once.                                             *)
connect ==
  /\ ~ws /\ Begin("connect")
  /\ sock' = Fresh(ConnectTimeout)
  /\ UNCHANGED <<ws, peer>>

(* The address cannot be resolved, or TcpStream::connect_timeout() fails.   *)
ConnectFails ==
  /\ call = "connect" /\ now = start
  /\ \/ Ends("failed", now)
     \/ now + ConnectTimeout <= MaxTime /\ Ends("timeout", now + ConnectTimeout)

recv ==
  /\ ws /\ Begin("recv")
  /\ sock' = [sock EXCEPT !.deadline = now + ReceiveTimeout, !.enforce = FALSE]
  /\ UNCHANGED <<ws, peer>>

(* close(): ws is taken out first, so the object is closed whatever happens.*)
close ==
  /\ ws /\ Begin("close")
  /\ sock' = [timeout |-> CloseTimeout, deadline |-> now + CloseTimeout, enforce |-> FALSE]
  /\ ws' = FALSE
  /\ UNCHANGED peer

(* WebSocket::close(): the Close frame is written, or the connection is     *)
(* already closed, or a signal handler raised.                              *)
CloseWritten ==
  /\ call = "close"
  /\ \E how \in {"ok", "signal"} : Ends(how, now)

(* Any other error: read until the peer's Close, or an error.               *)
CloseDrains ==
  /\ call = "close"
  /\ call' = "drain"
  /\ UNCHANGED <<now, ws, sock, start, intr, result, peer>>

(* send(), ping() and pong(): writes are retried when interrupted and leave *)
(* the read side alone.                                                     *)
send ==
  /\ ws /\ call = "idle"
  /\ result' \in {"ok", "failed", "signal"}
  /\ UNCHANGED <<now, ws, sock, call, start, intr, peer>>

-----------------------------------------------------------------------------
(* SignalAwareTcpStream::read(), under the handshake, recv() or the drain.  *)

Reading == call \in {"connect", "recv", "drain"}

(* apply_remaining_read_timeout() finds nothing left.                       *)
Expired == sock.enforce /\ (sock.deadline = None \/ sock.deadline <= now)

(* Slip: an interrupted read starts again with the whole timeout.           *)
LimitWhole == sock.timeout

(* The read timeout that applies to the next read of the socket.            *)
Limit == IF sock.enforce THEN sock.deadline - now ELSE sock.timeout

(* The kernel returns within the limit.                                     *)
Moments == {t \in now .. now + Limit - 1 : t <= MaxTime}

DeadlineExpires == Reading /\ Expired /\ Ends("timeout", now)

ReadTimesOut ==
  /\ Reading /\ ~Expired
  /\ now + Limit <= MaxTime
  /\ Ends("timeout", now + Limit)

(* Slip: every interrupted read enforces a deadline.                        *)
EnforceAlways == TRUE

(* Only a deadline that was begun is enforced.                              *)
Enforce == sock.deadline # None

(* EINTR: check_python_signals() lets the read go on.                       *)
ReadInterrupted ==
  /\ Reading /\ ~Expired
  /\ \E t \in Moments :
       /\ now' = t
       /\ intr' = IF intr = None THEN t ELSE intr
  /\ sock' = [sock EXCEPT !.timeout = Limit, !.enforce = Enforce]
  /\ UNCHANGED <<ws, call, start, result, peer>>

(* EINTR: a signal handler raises, for example KeyboardInterrupt.           *)
ReadRaises ==
  /\ Reading /\ ~Expired
  /\ \E t \in Moments : Ends("signal", t)

(* Bytes that complete no message of interest: a part of a frame or of a    *)
(* TLS record, a Ping or a Pong, any data while close() drains.             *)
ReadMore ==
  /\ Reading /\ ~Expired
  /\ \E t \in Moments : now' = t
  /\ sock' = [sock EXCEPT !.timeout = Limit]
  /\ UNCHANGED <<ws, call, start, intr, result, peer>>

(* The message, the handshake's end, the peer's Close, or an error.  Behind *)
(* the peer's Close a client flushes its reply and reads on, and whatever   *)
(* comes, the end of the stream or another frame, is an error; so is a      *)
(* reply that cannot be written, or a connection known to be over, at once. *)
ReadCompletes ==
  /\ Reading /\ ~Expired
  /\ \E t \in Moments, how \in {"ok", "closed", "failed"} :
       /\ call = "connect" => how # "closed"
       /\ peer => how = "failed"
       /\ Ends(how, t)

-----------------------------------------------------------------------------
Next ==
  \/ connect \/ ConnectFails \/ recv \/ close \/ CloseWritten \/ CloseDrains \/ send
  \/ DeadlineExpires \/ ReadTimesOut \/ ReadInterrupted \/ ReadRaises \/ ReadMore
  \/ ReadCompletes

Spec == Init /\ [][Next]_vars

(* Every field keeps its type.                                              *)
TypeOK ==
  /\ now \in Nat /\ start \in Nat /\ intr \in Nat \cup {None}
  /\ ws \in BOOLEAN /\ peer \in BOOLEAN
  /\ sock \in [timeout : Nat, deadline : Nat \cup {None}, enforce : BOOLEAN]
  /\ call \in Calls \cup {"idle"}
  /\ result \in {"ok", "failed", "timeout", "signal", "closed"}

(* Whatever way the last call took (a message, a timeout, an error, a       *)
(* signal handler that raised, after any number of interrupts), the next    *)
(* one finds no deadline and the socket's own receive timeout.              *)
IdleRestored == call = "idle" /\ ws => sock = Fresh(ReceiveTimeout)

(* A call that a timeout ends has lasted at least that timeout: no deadline *)
(* of an earlier call, none that was never begun, and no shortened read     *)
(* timeout is left to end it early.                                         *)
TimeoutsEarned ==
  [][(call # "idle" /\ call' = "idle" /\ result' = "timeout")
       => (now' >= start + Timeout(call))]_vars

(* Signals do not prolong a call: once a read of recv() or of the draining  *)
(* close() was interrupted, the call does not outlast its deadline, however *)
(* many more signals or control frames arrive.                              *)
SignalsKeepDeadline ==
  [][(call \in {"recv", "drain"} /\ intr # None /\ now' > intr)
       => (now' <= start + Timeout(call))]_vars
=============================================================================

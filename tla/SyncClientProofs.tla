-------------------------- MODULE SyncClientProofs --------------------------
(***************************************************************************)
(* The properties of SyncClient, for all timeouts and lengths of behaviour. *)
(*                                                                          *)
(* The properties are not inductive: what a call leaves behind, and when it *)
(* ends, depend on the deadline it began and on whether a read of it has    *)
(* been interrupted.  SInv ties the socket's three fields to the call under *)
(* way, to its start and to the first interrupt.                            *)
(***************************************************************************)
EXTENDS SyncClient, TLAPS

(* The deadline a call begins, or the timeout that bounds each of its reads.*)
SockOK ==
  /\ call = "idle" /\ ws => sock = Fresh(ReceiveTimeout)
  /\ call = "connect" => sock.timeout = ConnectTimeout /\ sock.deadline = None /\ ~sock.enforce
  /\ call \in {"recv", "close", "drain"} =>
       /\ sock.deadline = start + Timeout(call)
       /\ ~sock.enforce => sock.timeout = Timeout(call)

(* Only an interrupted read enforces the deadline, and a clock behind the   *)
(* deadline has not moved since that interrupt.                             *)
IntrOK ==
  /\ call = "close" => intr = None
  /\ call \in {"recv", "close", "drain"} => (sock.enforce <=> intr # None)
  /\ call \in {"recv", "drain"} /\ intr # None =>
       /\ intr <= now
       /\ now = intr \/ now <= start + Timeout(call)

SInv == TypeOK /\ start <= now /\ SockOK /\ IntrOK

-----------------------------------------------------------------------------
(* Every timeout is a positive number.                                      *)
LEMMA TimeoutPositive == \A op \in Calls : Timeout(op) \in Nat /\ Timeout(op) > 0
  BY TimeoutsAssumption, SMT DEF Timeout, Calls

(* A new socket has its type.                                               *)
LEMMA FreshType ==
  ASSUME NEW n \in Nat
  PROVE  Fresh(n) \in [timeout : Nat, deadline : Nat \cup {None}, enforce : BOOLEAN]
  BY SMT DEF Fresh, None

(* The limit of a read that has not expired is a positive number, and an    *)
(* enforced one reaches exactly to the deadline.                            *)
LEMMA LimitOK ==
  ASSUME SInv, Reading, ~Expired
  PROVE  /\ Limit \in Nat /\ Limit > 0
         /\ sock.enforce => now + Limit = start + Timeout(call)
         /\ ~sock.enforce => Limit = Timeout(call)
<1>1. CASE call = "connect"
  BY <1>1, TimeoutsAssumption, SMT DEF SInv, SockOK, TypeOK, Limit, Fresh, Timeout
<1>2. CASE call \in {"recv", "drain"}
  BY <1>2, TimeoutPositive, SMT
     DEF SInv, SockOK, IntrOK, TypeOK, Limit, Expired, Calls, None
<1> QED BY <1>1, <1>2 DEF Reading

(* A moment of a read lies between now and the end of its limit.            *)
LEMMA MomentOK ==
  ASSUME SInv, Reading, ~Expired, NEW t \in Moments
  PROVE  t \in Nat /\ now <= t /\ t < now + Limit
  BY LimitOK, SMT DEF Moments, SInv, TypeOK

-----------------------------------------------------------------------------
(* Every way a call ends leaves the invariant in place.                     *)
LEMMA EndsInv ==
  ASSUME SInv, NEW how \in {"ok", "failed", "timeout", "signal", "closed"}, NEW t \in Nat,
         now <= t, call \in Calls, Ends(how, t)
  PROVE  SInv'
<1>1. start' = start /\ intr' = intr /\ now' = t /\ call' = "idle" /\ result' = how
  BY DEF Ends
<1>2. ws' \in BOOLEAN /\ peer' \in BOOLEAN
  BY DEF Ends
<1>3. CASE call = "connect"
  <2>1. sock' = Fresh(IF how = "ok" THEN ReceiveTimeout ELSE 0) /\ (ws' => how = "ok")
    BY <1>3, Zenon DEF Ends
  <2>2. (IF how = "ok" THEN ReceiveTimeout ELSE 0) \in Nat
    BY TimeoutsAssumption, SMT
  <2>3. sock' \in [timeout : Nat, deadline : Nat \cup {None}, enforce : BOOLEAN]
    BY <2>1, <2>2, FreshType, Zenon
  <2>4. TypeOK' /\ start' <= now'
    BY <1>1, <1>2, <2>3, SMT DEF SInv, TypeOK
  <2>5. SockOK' /\ IntrOK'
    BY <1>1, <2>1, Zenon DEF SockOK, IntrOK
  <2> QED BY <2>4, <2>5 DEF SInv
<1>4. CASE call = "recv"
  <2>1. sock' = Cleared
    BY <1>4, Zenon DEF Ends
  <2>2. Cleared = Fresh(ReceiveTimeout)
    BY <1>4, SMT DEF SInv, SockOK, Cleared, Timeout
  <2> QED BY <1>1, <1>2, <2>1, <2>2, TimeoutsAssumption, SMT
          DEF SInv, TypeOK, SockOK, IntrOK, Fresh, Calls, None
<1>5. CASE call \in {"close", "drain"}
  <2>1. sock' = Fresh(0) /\ ~ws'
    BY <1>5, Zenon DEF Ends
  <2> QED BY <1>1, <1>2, <2>1, SMT DEF SInv, TypeOK, SockOK, IntrOK, Fresh, Calls, None
<1> QED BY <1>3, <1>4, <1>5 DEF Calls

(* SInv holds before connect().                                             *)
LEMMA InitInv == Init => SInv
<1> SUFFICES ASSUME Init PROVE SInv
  OBVIOUS
<1>1. sock \in [timeout : Nat, deadline : Nat \cup {None}, enforce : BOOLEAN]
  BY FreshType DEF Init
<1>2. now = 0 /\ start = 0 /\ intr = None /\ ws = FALSE /\ peer = FALSE /\ call = "idle"
        /\ result = "ok"
  BY DEF Init
<1>4. now \in Nat /\ start \in Nat /\ start <= now
  BY <1>2, SMT
<1>5. TypeOK
  BY <1>1, <1>2, <1>4, Zenon DEF TypeOK
<1>3. SockOK /\ IntrOK
  BY Zenon DEF Init, SockOK, IntrOK
<1> QED BY <1>3, <1>4, <1>5 DEF SInv

(* Every step keeps SInv.                                                   *)
LEMMA StepInv == SInv /\ [Next]_vars => SInv'
<1> SUFFICES ASSUME SInv, [Next]_vars PROVE SInv'
  OBVIOUS
<1>0. now \in Nat /\ start \in Nat /\ start <= now
  BY DEF SInv, TypeOK
<1>1. CASE connect
  BY <1>1, TimeoutsAssumption, SMT
     DEF connect, Begin, SInv, TypeOK, SockOK, IntrOK, Fresh, Calls, None
<1>2. CASE ConnectFails
  <2>1. call \in Calls
    BY <1>2 DEF ConnectFails, Calls
  <2>2. CASE Ends("failed", now)
    BY <2>1, <2>2, <1>0, EndsInv
  <2>3. CASE Ends("timeout", now + ConnectTimeout)
    <3>1. now + ConnectTimeout \in Nat /\ now <= now + ConnectTimeout
      BY <1>0, TimeoutsAssumption, SMT
    <3> QED BY <2>1, <2>3, <3>1, EndsInv
  <2> QED BY <1>2, <2>2, <2>3 DEF ConnectFails
<1>3. CASE recv
  <2>1. /\ call = "idle" /\ ws /\ call' = "recv" /\ start' = now /\ intr' = None /\ now' = now
        /\ result' = result /\ peer' = peer /\ ws' \in BOOLEAN
        /\ sock' = [sock EXCEPT !.deadline = now + ReceiveTimeout, !.enforce = FALSE]
    BY <1>3, Zenon DEF recv, Begin, SInv, TypeOK
  <2>2. sock = Fresh(ReceiveTimeout)
    BY <2>1, Zenon DEF SInv, SockOK
  <2>3. sock.timeout = ReceiveTimeout
    BY <2>2 DEF Fresh
  <2>4. sock' \in [timeout : Nat, deadline : Nat \cup {None}, enforce : BOOLEAN]
    <3>1. now + ReceiveTimeout \in Nat
      BY <1>0, TimeoutsAssumption, SMT
    <3> QED BY <2>1, <3>1, Zenon DEF SInv, TypeOK
  <2>5. TypeOK' /\ start' <= now'
    BY <2>1, <2>4, <1>0, SMT DEF SInv, TypeOK, None, Calls
  <2>6. sock'.deadline = now + ReceiveTimeout /\ sock'.timeout = ReceiveTimeout /\ sock'.enforce = FALSE
    BY <2>1, <2>3, Zenon DEF SInv, TypeOK
  <2>7. Timeout("recv") = ReceiveTimeout
    BY DEF Timeout
  <2>8. SockOK' /\ IntrOK'
    BY <2>1, <2>6, <2>7, Zenon DEF SockOK, IntrOK, Timeout
  <2> QED BY <2>5, <2>8 DEF SInv
<1>4. CASE close
  <2>1. /\ call' = "close" /\ start' = now /\ intr' = None /\ now' = now
        /\ result' = result /\ peer' = peer /\ ws' \in BOOLEAN
        /\ sock' = [timeout |-> CloseTimeout, deadline |-> now + CloseTimeout, enforce |-> FALSE]
    BY <1>4, Zenon DEF close, Begin, SInv, TypeOK
  <2>3. sock' = [timeout |-> CloseTimeout, deadline |-> now + CloseTimeout, enforce |-> FALSE]
    BY <2>1
  <2>4. sock' \in [timeout : Nat, deadline : Nat \cup {None}, enforce : BOOLEAN]
    BY <2>3, <1>0, TimeoutsAssumption, SMT
  <2>5. TypeOK' /\ start' <= now'
    BY <2>1, <2>4, <1>0, SMT DEF SInv, TypeOK, None, Calls
  <2>6. sock'.deadline = now + CloseTimeout /\ sock'.timeout = CloseTimeout /\ sock'.enforce = FALSE
    BY <2>3
  <2>7. Timeout("close") = CloseTimeout
    BY DEF Timeout
  <2>8. SockOK' /\ IntrOK'
    BY <2>1, <2>6, <2>7, Zenon DEF SockOK, IntrOK, Timeout
  <2> QED BY <2>5, <2>8 DEF SInv
<1>5. CASE CloseWritten
  BY <1>5, <1>0, EndsInv DEF CloseWritten, Calls
<1>6. CASE CloseDrains
  BY <1>6, SMT DEF CloseDrains, SInv, TypeOK, SockOK, IntrOK, Calls, None, Timeout
<1>7. CASE send
  BY <1>7, SMT DEF send, SInv, TypeOK, SockOK, IntrOK, Calls
<1>8. CASE DeadlineExpires
  BY <1>8, <1>0, EndsInv DEF DeadlineExpires, Reading, Calls
<1>9. CASE ReadTimesOut
  <2>1. now + Limit \in Nat /\ now <= now + Limit
    BY <1>9, <1>0, LimitOK, SMT DEF ReadTimesOut
  <2> QED BY <1>9, <2>1, EndsInv DEF ReadTimesOut, Reading, Calls
<1>10. CASE ReadInterrupted
  <2>1. PICK t \in Moments : now' = t /\ intr' = IF intr = None THEN t ELSE intr
    BY <1>10 DEF ReadInterrupted
  <2>2. t \in Nat /\ now <= t /\ t < now + Limit
    BY <1>10, MomentOK DEF ReadInterrupted
  <2>3. /\ Limit \in Nat
        /\ sock.enforce => now + Limit = start + Timeout(call)
        /\ ~sock.enforce => Limit = Timeout(call)
    BY <1>10, LimitOK DEF ReadInterrupted
  <2>4. /\ sock' = [sock EXCEPT !.timeout = Limit, !.enforce = Enforce]
        /\ UNCHANGED <<ws, call, start, result, peer>>
        /\ Reading
    BY <1>10 DEF ReadInterrupted
  <2>5. TypeOK' /\ start' <= now'
    <3>1. Enforce \in BOOLEAN
      BY DEF Enforce
    <3>2. sock' \in [timeout : Nat, deadline : Nat \cup {None}, enforce : BOOLEAN]
      BY <2>3, <2>4, <3>1, Zenon DEF SInv, TypeOK
    <3> QED BY <2>1, <2>2, <2>4, <3>2, <1>0, SMT DEF SInv, TypeOK
  <2>6. CASE call = "connect"
    <3>1. sock.timeout = ConnectTimeout /\ sock.deadline = None /\ ~sock.enforce
      BY <2>6, Zenon DEF SInv, SockOK
    <3>2. Limit = ConnectTimeout /\ Enforce = FALSE
      BY <3>1, Zenon DEF Limit, Enforce
    <3>3. sock'.timeout = ConnectTimeout /\ sock'.deadline = None /\ ~sock'.enforce
      BY <2>4, <3>1, <3>2, Zenon DEF SInv, TypeOK
    <3> QED BY <2>4, <2>5, <2>6, <3>3, Zenon DEF SInv, SockOK, IntrOK
  <2>7. CASE call \in {"recv", "drain"}
    <3>1. Timeout(call) \in Nat
      BY <2>7, TimeoutPositive DEF Calls
    <3>2. sock.deadline = start + Timeout(call) /\ sock.deadline # None
      BY <2>7, <3>1, <1>0, SMT DEF SInv, SockOK, None
    <3>3. sock'.enforce /\ sock'.deadline = sock.deadline
      BY <2>4, <3>2, Zenon DEF Enforce, SInv, TypeOK
    <3>4. SockOK'
      BY <2>4, <2>7, <3>2, <3>3, Zenon DEF SockOK, Timeout
    <3>5. intr' # None /\ intr' <= now' /\ (now' = intr' \/ now' <= start + Timeout(call))
      BY <2>1, <2>2, <2>3, <2>7, <3>1, <1>0, SMT DEF SInv, IntrOK, TypeOK, None
    <3>6. IntrOK'
      BY <2>4, <2>7, <3>3, <3>5, Zenon DEF IntrOK, Timeout
    <3> QED BY <2>5, <3>4, <3>6 DEF SInv
  <2> QED BY <2>4, <2>6, <2>7 DEF Reading
<1>11. CASE ReadRaises
  <2>1. PICK t \in Moments : Ends("signal", t)
    BY <1>11 DEF ReadRaises
  <2>2. t \in Nat /\ now <= t
    BY <1>11, MomentOK DEF ReadRaises
  <2> QED BY <1>11, <2>1, <2>2, EndsInv DEF ReadRaises, Reading, Calls
<1>12. CASE ReadMore
  <2>1. PICK t \in Moments : now' = t
    BY <1>12 DEF ReadMore
  <2>2. t \in Nat /\ now <= t /\ t < now + Limit
    BY <1>12, MomentOK DEF ReadMore
  <2>3. /\ Limit \in Nat
        /\ sock.enforce => now + Limit = start + Timeout(call)
        /\ ~sock.enforce => Limit = Timeout(call)
    BY <1>12, LimitOK DEF ReadMore
  <2>4. /\ sock' = [sock EXCEPT !.timeout = Limit]
        /\ UNCHANGED <<ws, call, start, intr, result, peer>>
        /\ Reading
    BY <1>12 DEF ReadMore
  <2>5. TypeOK' /\ start' <= now'
    BY <2>1, <2>2, <2>3, <2>4, <1>0, SMT DEF SInv, TypeOK
  <2>6. CASE call = "connect"
    <3>1. sock.timeout = ConnectTimeout /\ sock.deadline = None /\ ~sock.enforce
      BY <2>6, Zenon DEF SInv, SockOK
    <3>2. Limit = ConnectTimeout
      BY <3>1, Zenon DEF Limit
    <3>3. sock'.timeout = ConnectTimeout /\ sock'.deadline = None /\ ~sock'.enforce
      BY <2>4, <3>1, <3>2, Zenon DEF SInv, TypeOK
    <3> QED BY <2>4, <2>5, <2>6, <3>3, Zenon DEF SInv, SockOK, IntrOK
  <2>7. CASE call \in {"recv", "drain"}
    <3>1. Timeout(call) \in Nat
      BY <2>7, TimeoutPositive DEF Calls
    <3>2. sock'.enforce = sock.enforce /\ sock'.deadline = sock.deadline /\ sock'.timeout = Limit
      BY <2>4, SMT DEF SInv, TypeOK
    <3>3. SockOK'
      BY <2>3, <2>4, <2>7, <3>2, SMT DEF SInv, SockOK, Timeout
    <3>4. IntrOK'
      BY <2>1, <2>2, <2>3, <2>4, <2>7, <3>1, <3>2, <1>0, SMT
         DEF SInv, IntrOK, TypeOK, Timeout, None
    <3> QED BY <2>5, <3>3, <3>4 DEF SInv
  <2> QED BY <2>4, <2>6, <2>7 DEF Reading
<1>13. CASE ReadCompletes
  <2>1. PICK t \in Moments, how \in {"ok", "closed", "failed"} : Ends(how, t)
    BY <1>13 DEF ReadCompletes
  <2>2. t \in Nat /\ now <= t
    BY <1>13, MomentOK DEF ReadCompletes
  <2> QED BY <1>13, <2>1, <2>2, EndsInv DEF ReadCompletes, Reading, Calls
<1>14. CASE UNCHANGED vars
  BY SMTT(30), <1>14 DEF vars, SInv, TypeOK, SockOK, IntrOK, Timeout
<1> QED BY <1>1, <1>2, <1>3, <1>4, <1>5, <1>6, <1>7, <1>8, <1>9, <1>10, <1>11, <1>12,
           <1>13, <1>14 DEF Next

(* The invariant holds throughout.                                          *)
THEOREM SyncInductive == Spec => []SInv
  BY InitInv, StepInv, PTL DEF Spec

(* recv() and connect() leave the socket as recv() wants to find it, on     *)
(* every way out.                                                           *)
THEOREM IdleAlwaysRestored == Spec => []IdleRestored
<1>1. SInv => IdleRestored
  BY DEF SInv, SockOK, IdleRestored
<1> QED BY <1>1, SyncInductive, PTL

-----------------------------------------------------------------------------
(* The only steps that end a call with a timeout are those of a read that   *)
(* ran out, and they come when the call's timeout has passed.               *)
LEMMA StepEarned ==
  ASSUME SInv, Next, call # "idle", call' = "idle", result' = "timeout"
  PROVE  now' >= start + Timeout(call)
<1>0. now \in Nat /\ start \in Nat /\ start <= now
  BY DEF SInv, TypeOK
<1>1. CASE ConnectFails
  <2>1. now' = now + ConnectTimeout /\ now = start /\ call = "connect"
    BY <1>1, Zenon DEF ConnectFails, Ends
  <2> QED BY <1>0, <2>1, TimeoutsAssumption, SMT DEF Timeout
<1>2. CASE DeadlineExpires
  <2>1. now' = now /\ Reading /\ Expired
    BY <1>2 DEF DeadlineExpires, Ends
  <2>2. call \in {"recv", "drain"}
    BY <2>1, Zenon DEF SInv, SockOK, Reading, Expired, Fresh
  <2>3. Timeout(call) \in Nat
    BY <2>2, TimeoutPositive DEF Calls
  <2> QED BY <1>0, <2>1, <2>2, <2>3, SMT DEF SInv, SockOK, Expired, None
<1>3. CASE ReadTimesOut
  <2>1. now' = now + Limit /\ Reading /\ ~Expired
    BY <1>3 DEF ReadTimesOut, Ends
  <2>2. Timeout(call) \in Nat
    BY <2>1, TimeoutPositive DEF Reading, Calls
  <2> QED BY <1>0, <2>1, <2>2, LimitOK, SMT DEF SInv, TypeOK
<1>4. ~(connect \/ recv \/ close \/ CloseDrains \/ send \/ ReadInterrupted \/ ReadMore)
  BY DEF connect, recv, close, CloseDrains, send, ReadInterrupted, ReadMore, Begin
<1>5. ~(CloseWritten \/ ReadRaises \/ ReadCompletes)
  BY DEF CloseWritten, ReadRaises, ReadCompletes, Ends
<1> QED BY <1>1, <1>2, <1>3, <1>4, <1>5 DEF Next

(* No call times out early.                                                 *)
THEOREM NoEarlyTimeout == Spec => TimeoutsEarned
<1>1. SInv /\ [Next]_vars
        => [(call # "idle" /\ call' = "idle" /\ result' = "timeout")
              => (now' >= start + Timeout(call))]_vars
  BY StepEarned DEF vars
<1> QED BY <1>1, SyncInductive, PTL DEF Spec, TimeoutsEarned

(* Once interrupted, a step that moves the clock stays within the deadline. *)
LEMMA StepKeepsDeadline ==
  ASSUME SInv, Next, call \in {"recv", "drain"}, intr # None, now' > intr
  PROVE  now' <= start + Timeout(call)
<1>0. now \in Nat /\ start \in Nat /\ intr \in Nat /\ Timeout(call) \in Nat
  BY TimeoutPositive DEF SInv, TypeOK, Calls
<1>1. sock.enforce /\ intr <= now /\ (now = intr \/ now <= start + Timeout(call))
  BY DEF SInv, IntrOK
<1>2. CASE now' = now
  BY <1>0, <1>1, <1>2, SMT
<1>3. CASE ReadTimesOut
  BY <1>0, <1>1, <1>3, LimitOK, SMT DEF ReadTimesOut, Ends
<1>4. CASE ReadInterrupted \/ ReadMore \/ ReadRaises \/ ReadCompletes
  <2>1. Reading /\ ~Expired /\ \E t \in Moments : now' = t
    BY <1>4 DEF ReadInterrupted, ReadMore, ReadRaises, ReadCompletes, Ends
  <2>2. now' < now + Limit /\ now' \in Nat
    BY <2>1, MomentOK
  <2> QED BY <1>0, <1>1, <2>1, <2>2, LimitOK, SMT
<1>5. CASE DeadlineExpires \/ CloseWritten \/ CloseDrains \/ send
  BY <1>5, <1>2 DEF DeadlineExpires, CloseWritten, CloseDrains, send, Ends
<1>6. ~(connect \/ ConnectFails \/ recv \/ close)
  BY DEF connect, ConnectFails, recv, close, Begin
<1> QED BY <1>3, <1>4, <1>5, <1>6 DEF Next

(* Signals never prolong a call beyond its deadline.                        *)
THEOREM InterruptsBounded == Spec => SignalsKeepDeadline
<1>1. SInv /\ [Next]_vars
        => [(call \in {"recv", "drain"} /\ intr # None /\ now' > intr)
              => (now' <= start + Timeout(call))]_vars
  BY StepKeepsDeadline DEF vars
<1> QED BY <1>1, SyncInductive, PTL DEF Spec, SignalsKeepDeadline
=============================================================================

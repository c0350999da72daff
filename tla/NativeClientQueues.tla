------------------------- MODULE NativeClientQueues -------------------------
(***************************************************************************)
(* Every unsettled future stays reachable (ClosedEmpty, ProbesNumbered,     *)
(* WritingRegistered, PendingReachable), and messages, receivers, callbacks *)
(* and Close frames keep their order (Stream, NoLostWakeup, ReceiverFifo,   *)
(* CallbacksBeforeTeardown, CloseFrameLast).                                *)
(***************************************************************************)
EXTENDS NativeClientStack

USE DEF Mode, refs, parked, pings, msgs, outside

(* Once closed, nothing is parked or registered again: recv() and ping_waiter() re-check
   closed after every call-out. *)
LEMMA ClosedEmptyStep ==
  TypeOK /\ StackShape /\ Lifecycle /\ ClosedEmpty /\ Stock /\ [Next]_vars => ClosedEmpty'
<1> SUFFICES ASSUME TypeOK, StackShape, Lifecycle, ClosedEmpty, Stock, [Next]_vars PROVE ClosedEmpty'
  OBVIOUS
<1>0. TypePings /\ TypeStack /\ ClosedEmpty
  BY Zenon DEF TypeOK
<1>1. CASE ConnectionMade \/ HelperReturn \/ PingWritten \/ DataReceived \/ FlushPop \/ CallbackReturn
  BY Zenon, <1>1, <1>0 DEF ConnectionMade, HelperReturn, PingWritten, DataReceived, FlushPop,
       CallbackReturn, ClosedEmpty
<1>2. CASE Close
  BY Zenon, <1>2, <1>0 DEF Close, DoClose, ReleaseReferences, ClearPending, Closing, ClosedEmpty,
       TypePings, NestedCall, UserCall
<1>3. CASE HelperRaise
  BY Zenon, <1>3, <1>0 DEF HelperRaise, DoClose, ReleaseReferences, ClearPending, Closing, ClosedEmpty,
       TypePings
<1>4. CASE RecvReady \/ RecvCall
  BY Zenon, <1>4, <1>0 DEF RecvReady, RecvCall, ClosedEmpty, NestedCall, UserCall
<1>5. CASE RecvPark
  <2>1. ~closed
    BY <1>5, <1>0, StackMoves DEF RecvPark, StackShape
  <2> QED BY Zenon, <1>5, <2>1 DEF RecvPark, ClosedEmpty
<1>6. ASSUME NEW f \in Receivers \cup Probes, Cancel(f) PROVE ClosedEmpty'
  BY Zenon, <1>6, <1>0 DEF Cancel, ClosedEmpty, TypePings, NestedCall, UserCall
<1>7. ASSUME NEW p \in Payloads, PingCall(p) PROVE ClosedEmpty'
  BY Zenon, <1>7, <1>0 DEF PingCall, ClosedEmpty, NestedCall, UserCall
<1>8. CASE PingDone \/ PingRegister
  BY Zenon, <1>8, <1>0 DEF PingDone, PingRegister, ClosedEmpty, TypePings
<1>9. CASE PingWriteFails
  BY Zenon, <1>9, <1>0 DEF PingWriteFails, Closing, ClosedEmpty, TypePings
<1>10. ASSUME NEW q \in Probes, RunCleanup(q) PROVE ClosedEmpty'
  BY Zenon, <1>10, <1>0 DEF RunCleanup, ClosedEmpty, TypePings
<1>11. CASE HandshakeIn \/ PingIn \/ OtherIn
  BY Zenon, <1>11, <1>0 DEF HandshakeIn, PingIn, OtherIn, NextFrame, ClosedEmpty
<1>12. CASE MessageIn
  BY Zenon, <1>12, <1>0 DEF MessageIn, NextFrame, TakeLiveReceiver, ClosedEmpty
<1>13. CASE MessageRejected
  BY Zenon, <1>13 DEF MessageRejected, Stock
<1>14. ASSUME NEW p \in Payloads, PongIn(p) PROVE ClosedEmpty'
  BY Zenon, <1>14, <1>0 DEF PongIn, NextFrame, ClosedEmpty, TypePings
<1>15. CASE DataEnd \/ FallBack
  BY Zenon, <1>15, <1>0 DEF DataEnd, FallBack, EndScan, ClosedEmpty
<1>16. CASE CloseIn
  BY Zenon, <1>16, <1>0 DEF CloseIn, NextFrame, EndScan, BeginClose, ClearPending, ClosedEmpty, TypePings
<1>17. CASE ProtocolErrorIn
  BY Zenon, <1>17, <1>0 DEF ProtocolErrorIn, NextFrame, BeginClose, ClearPending, ClosedEmpty, TypePings
<1>18. CASE FlushReturn
  BY Zenon, <1>18, <1>0 DEF FlushReturn, FlushEnds, Closing, Raised, ClosedEmpty
<1>19. CASE FlushApplyClose
  BY Zenon, <1>19, <1>0 DEF FlushApplyClose, FlushEnds, ReleaseReferences, Closing, Raised, ClosedEmpty,
       TypePings
<1>20. CASE ConnectionLost
  BY Zenon, <1>20, <1>0 DEF ConnectionLost, ClosedEmpty
<1>21. CASE FlushLost
  BY Zenon, <1>21, <1>0 DEF FlushLost, FlushEnds, ReleaseReferences, ClearPending, ClosedEmpty, TypePings
<1>22. CASE UNCHANGED vars
  BY Zenon, <1>22, <1>0 DEF vars, ClosedEmpty
<1> QED BY Zenon, <1>1, <1>2, <1>3, <1>4, <1>5, <1>6, <1>7, <1>8, <1>9, <1>10, <1>11, <1>12, <1>13,
     <1>14, <1>15, <1>16, <1>17, <1>18, <1>19, <1>20, <1>21, <1>22 DEF Next, InnerStep,
     Application, EventLoop

(* Probes are created in order, and a scheduled PingCleanup is that of a settled one. *)
LEMMA ProbesNumberedStep ==
  TypeOK /\ StackShape /\ ProbesNumbered /\ Stock /\ [Next]_vars => ProbesNumbered'
<1> SUFFICES ASSUME TypeOK, StackShape, ProbesNumbered, Stock, [Next]_vars PROVE ProbesNumbered'
  OBVIOUS
<1>0. /\ TypeParked /\ TypePings /\ TypeStack /\ ProbesNumbered
      /\ fut \in [Futures -> Status] /\ cleanups \subseteq Probes /\ Probes \subseteq Futures
  BY Zenon, FutureKinds DEF TypeOK, TypeFutures, TypePings
<1>1. CASE ConnectionMade \/ HelperReturn \/ RecvCall \/ PingWritten \/ DataReceived \/ FlushPop
  BY Zenon, <1>1, <1>0 DEF ConnectionMade, HelperReturn, RecvCall, PingWritten, DataReceived, FlushPop,
       ProbesNumbered
<1>2. CASE Close \/ HelperRaise
  BY Zenon, <1>2, <1>0, FutureKinds DEF Close, HelperRaise, DoClose, ReleaseReferences, ClearPending,
       Closing, ProbesNumbered, Settle, Unsettled, Futures, Status
<1>3. CASE RecvReady \/ RecvPark
  <2>1. recvs + 1 \in Receivers /\ recvs + 1 \notin Probes
    BY Zenon, <1>3, <1>0, NextReceiver DEF RecvReady, RecvPark
  <2>2. \A q \in Probes : fut'[q] = fut[q]
    BY Zenon, <1>3, <1>0, <2>1 DEF RecvReady, RecvPark
  <2>3. UNCHANGED <<cleanups, probes>>
    BY Zenon, <1>3 DEF RecvReady, RecvPark
  <2> QED BY Zenon, <1>0, <2>2, <2>3 DEF ProbesNumbered
<1>4. ASSUME NEW f \in Receivers \cup Probes, Cancel(f) PROVE ProbesNumbered'
  BY Zenon, <1>4, <1>0, FutureKinds DEF Cancel, ProbesNumbered, Settle, Unsettled, Futures, Status
<1>5. ASSUME NEW p \in Payloads, PingCall(p) PROVE ProbesNumbered'
  BY Zenon, <1>5, <1>0 DEF PingCall, ProbesNumbered
<1>6. CASE PingDone
  BY Zenon, <1>6, <1>0, FutureKinds DEF PingDone, ProbesNumbered, Settle, Unsettled, Futures, Status
<1>7. CASE PingRegister
  <2> DEFINE q == MaxRecv + probes + 1
  <2>1. q \in Probes /\ probes \in Nat /\ MaxRecv \in Nat /\ probes' = probes + 1
    BY SMTT(30), <1>7, <1>0, NextProbe, BoundsAssumption DEF PingRegister, TypePings
  <2>2. q > MaxRecv + probes /\ \A x \in Probes : x > MaxRecv + (probes + 1) => x > MaxRecv + probes /\ x # q
    BY SMTT(30), <2>1 DEF Probes
  <2>3. \/ fut' = [fut EXCEPT ![q] = "cancelled"] /\ cleanups' = cleanups \cup {q}
        \/ fut' = [fut EXCEPT ![q] = "pending"] /\ cleanups' = cleanups
    BY Zenon, <1>7 DEF PingRegister
  <2> HIDE DEF q
  <2>4. fut[q] = "free" /\ q \notin cleanups
    BY Zenon, <1>0, <2>1, <2>2 DEF ProbesNumbered
  <2>5. \A x \in Futures : x # q => fut'[x] = fut[x]
    BY Zenon, <1>0, <2>3
  <2>6. \A x \in Probes : x > MaxRecv + probes' => fut'[x] = "free"
    BY Zenon, <1>0, <2>1, <2>2, <2>5 DEF ProbesNumbered
  <2>7. \A x \in cleanups' : fut'[x] \notin {"free", "pending"}
    BY Zenon, <1>0, <2>1, <2>3, <2>4, <2>5 DEF ProbesNumbered
  <2> QED BY Zenon, <2>6, <2>7 DEF ProbesNumbered
<1>8. CASE PingWriteFails
  BY Zenon, <1>8, <1>0, FutureKinds DEF PingWriteFails, Closing, ProbesNumbered, Settle, Unsettled,
       Futures, Status
<1>9. ASSUME NEW q \in Probes, RunCleanup(q) PROVE ProbesNumbered'
  BY Zenon, <1>9, <1>0, FutureKinds DEF RunCleanup, ProbesNumbered, Settle, Unsettled, Futures, Status
<1>10. CASE HandshakeIn
  BY Zenon, <1>10, <1>0, FutureKinds DEF HandshakeIn, NextFrame, ProbesNumbered, Settle, Unsettled,
       Futures, Status
<1>11. CASE MessageIn
  BY Zenon, <1>11, <1>0, FutureKinds DEF MessageIn, NextFrame, TakeLiveReceiver, ProbesNumbered, Settle,
       Unsettled, Futures, Status
<1>12. CASE MessageRejected
  BY Zenon, <1>12 DEF MessageRejected, Stock
<1>13. CASE PingIn \/ OtherIn
  BY Zenon, <1>13, <1>0 DEF PingIn, OtherIn, NextFrame, ProbesNumbered
<1>14. ASSUME NEW p \in Payloads, PongIn(p) PROVE ProbesNumbered'
  BY Zenon, <1>14, <1>0, FutureKinds DEF PongIn, NextFrame, ProbesNumbered, Settle, Unsettled, Futures,
       Status
<1>15. CASE DataEnd \/ FallBack
  BY Zenon, <1>15, <1>0, FutureKinds DEF DataEnd, FallBack, EndScan, ProbesNumbered, Settle, Unsettled,
       Futures, Status
<1>16. CASE CloseIn
  BY Zenon, <1>16, <1>0, FutureKinds DEF CloseIn, NextFrame, EndScan, BeginClose, ClearPending,
       ProbesNumbered, Settle, Unsettled, Futures, Status
<1>17. CASE ProtocolErrorIn
  BY Zenon, <1>17, <1>0, FutureKinds DEF ProtocolErrorIn, NextFrame, BeginClose, ClearPending,
       ProbesNumbered, Settle, Unsettled, Futures, Status
<1>18. CASE CallbackReturn \/ ConnectionLost
  BY Zenon, <1>18, <1>0 DEF CallbackReturn, ConnectionLost, ProbesNumbered
<1>19. CASE FlushReturn
  BY Zenon, <1>19, <1>0 DEF FlushReturn, FlushEnds, Closing, Raised, ProbesNumbered
<1>20. CASE FlushApplyClose
  BY Zenon, <1>20, <1>0, FutureKinds DEF FlushApplyClose, FlushEnds, ReleaseReferences, Closing, Raised,
       ProbesNumbered, Settle, Unsettled, Futures, Status
<1>21. CASE FlushLost
  BY Zenon, <1>21, <1>0, FutureKinds DEF FlushLost, FlushEnds, ReleaseReferences, ClearPending,
       ProbesNumbered, Settle, Unsettled, Futures, Status
<1>22. CASE UNCHANGED vars
  BY Zenon, <1>22, <1>0 DEF vars, ProbesNumbered
<1> QED BY Zenon, <1>1, <1>2, <1>3, <1>4, <1>5, <1>6, <1>7, <1>8, <1>9, <1>10, <1>11, <1>12, <1>13,
     <1>14, <1>15, <1>16, <1>17, <1>18, <1>19, <1>20, <1>21, <1>22 DEF Next, InnerStep,
     Application, EventLoop

PlainFrame(f) == ~(f.op = "ping" /\ f.at = "write")
Undisturbed(i) ==
  IsWrite(i) =>
    /\ fut'[stack[i].probe] = fut[stack[i].probe]
    /\ pending_pings'[stack[i].payload] = pending_pings[stack[i].payload]
    /\ payload'[stack[i].probe] = payload[stack[i].probe]

(* A probe being written is found at its new position after a stack move. *)
LEMMA WritingShift ==
  ASSUME TypeStack, WritingRegistered, closed => closed', NEW d \in {-1, 0, 1},
         DOMAIN stack' \subseteq Int,
         \A i \in DOMAIN stack' : IsWrite(i)' /\ ~closed' =>
           i + d \in DOMAIN stack /\ stack'[i] = stack[i + d] /\ Undisturbed(i + d)
  PROVE  WritingRegistered'
<1> SUFFICES ASSUME NEW i \in DOMAIN stack', IsWrite(i)', ~closed'
             PROVE  /\ stack'[i].probe \in Probes /\ fut'[stack'[i].probe] = "pending"
                    /\ pending_pings'[stack'[i].payload] = stack'[i].probe
                    /\ payload'[stack'[i].probe] = stack'[i].payload
                    /\ \A j \in DOMAIN stack' :
                         IsWrite(j)' /\ stack'[j].payload = stack'[i].payload => i = j
  BY Zenon DEF WritingRegistered
<1>1. i + d \in DOMAIN stack /\ stack'[i] = stack[i + d] /\ Undisturbed(i + d) /\ IsWrite(i + d)
  BY Zenon DEF IsWrite
<1>2. /\ stack[i + d].probe \in Probes /\ fut[stack[i + d].probe] = "pending"
      /\ pending_pings[stack[i + d].payload] = stack[i + d].probe
      /\ payload[stack[i + d].probe] = stack[i + d].payload
      /\ \A j \in DOMAIN stack : IsWrite(j) /\ stack[j].payload = stack[i + d].payload => i + d = j
  BY <1>1, Zenon DEF WritingRegistered
<1>3. ASSUME NEW j \in DOMAIN stack', IsWrite(j)', stack'[j].payload = stack'[i].payload PROVE i = j
  <2>1. j + d \in DOMAIN stack /\ stack'[j] = stack[j + d] /\ IsWrite(j + d)
    BY Zenon, <1>3 DEF IsWrite
  <2>2. i + d = j + d
    BY Zenon, <1>1, <1>2, <1>3, <2>1
  <2> QED BY SMTT(30), <2>2
<1> QED BY Zenon, <1>1, <1>2, <1>3 DEF Undisturbed

(* A handler that leaves the registry entries of the probes being written alone keeps them registered. *)
LEMMA WritingKept ==
  ASSUME TypeStack, WritingRegistered, closed => closed',
         \/ closed'
         \/ /\ Stays \/ \E f \in Frame : PlainFrame(f) /\ Pushes(f)
            /\ \A i \in DOMAIN stack : Undisturbed(i)
         \/ /\ Pops \/ \E f \in Frame : PlainFrame(f) /\ Swaps(f)
            /\ \A i \in DOMAIN stack : i # 1 => Undisturbed(i)
  PROVE  WritingRegistered'
<1>0. DOMAIN stack = 1..Len(stack) /\ Len(stack) \in Nat
  BY Zenon, StackMoves
<1>1. CASE closed'
  BY <1>1, Zenon DEF WritingRegistered
<1>2. CASE Stays /\ \A i \in DOMAIN stack : Undisturbed(i)
  <2>1. \A i \in DOMAIN stack' : i + 0 \in DOMAIN stack /\ stack'[i] = stack[i + 0] /\ Undisturbed(i + 0)
    BY SMTT(30), <1>0, <1>2 DEF Stays
  <2>2. DOMAIN stack' \subseteq Int
    BY SMTT(30), <1>0, <1>2 DEF Stays
  <2> QED BY Zenon, <2>1, <2>2, WritingShift
<1>3. ASSUME NEW f \in Frame, PlainFrame(f), Pushes(f), \A i \in DOMAIN stack : Undisturbed(i)
      PROVE  WritingRegistered'
  <2>1. ASSUME NEW i \in DOMAIN stack', IsWrite(i)'
        PROVE  i + (-1) \in DOMAIN stack /\ stack'[i] = stack[i + (-1)]
    BY SMTT(30), <1>0, <1>3, <2>1 DEF Pushes, PlainFrame, IsWrite
  <2>2. DOMAIN stack' \subseteq Int
    BY SMTT(30), <1>0, <1>3 DEF Pushes
  <2> QED BY Zenon, <1>3, <2>1, <2>2, WritingShift
<1>4. CASE Pops /\ \A i \in DOMAIN stack : i # 1 => Undisturbed(i)
  <2>1. \A i \in DOMAIN stack' : i + 1 \in DOMAIN stack /\ stack'[i] = stack[i + 1] /\ i + 1 # 1
    BY SMTT(30), <1>0, <1>4 DEF Pops
  <2>2. DOMAIN stack' \subseteq Int
    BY SMTT(30), <1>0, <1>4 DEF Pops
  <2> QED BY Zenon, <1>4, <2>1, <2>2, WritingShift
<1>5. ASSUME NEW f \in Frame, PlainFrame(f), Swaps(f), \A i \in DOMAIN stack : i # 1 => Undisturbed(i)
      PROVE  WritingRegistered'
  <2>1. ASSUME NEW i \in DOMAIN stack', IsWrite(i)'
        PROVE  i + 0 \in DOMAIN stack /\ stack'[i] = stack[i + 0] /\ i + 0 # 1
    BY SMTT(30), <1>0, <1>5, <2>1 DEF Swaps, PlainFrame, IsWrite
  <2>2. DOMAIN stack' \subseteq Int
    BY SMTT(30), <1>0, <1>5 DEF Swaps
  <2> QED BY Zenon, <1>5, <2>1, <2>2, WritingShift
<1> QED BY <1>1, <1>2, <1>3, <1>4, <1>5, Zenon

(* A ping call in progress holds a payload and a probe. *)
LEMMA WritingTypes ==
  TypeOK => \A i \in DOMAIN stack : IsWrite(i) => stack[i].payload \in Payloads
                                                /\ stack[i].probe \in Probes \cup {NoFuture}
<1> SUFFICES ASSUME TypeOK, NEW i \in DOMAIN stack, IsWrite(i)
             PROVE  stack[i].payload \in Payloads /\ stack[i].probe \in Probes \cup {NoFuture}
  OBVIOUS
<1>1. stack[i] \in Frame
  BY Zenon, StackMoves DEF TypeOK
<1> QED BY Zenon, <1>1 DEF Frame, IsWrite

(* While a frame is parsed no probe is being written. *)
LEMMA ParsingWritesNothing ==
  TypeStack /\ StackShape /\ Mode("data") => \A i \in DOMAIN stack : ~IsWrite(i)
BY Zenon, ParsingAlone DEF IsWrite

(* Between registration and the return of transport.write() a probe stays registered under
   its payload, whatever nested calls do. *)
LEMMA WritingRegisteredStep ==
  TypeOK /\ StackShape /\ WritingRegistered /\ ProbesNumbered /\ Stock /\ [Next]_vars => WritingRegistered'
<1> SUFFICES ASSUME TypeOK, StackShape, WritingRegistered, ProbesNumbered, Stock, [Next]_vars PROVE WritingRegistered'
  OBVIOUS
<1>0. /\ TypeParked /\ TypePings /\ TypeStack
      /\ fut \in [Futures -> Status] /\ Probes \subseteq Futures
  BY Zenon, FutureKinds DEF TypeOK, TypeFutures
<1>1. CASE ConnectionMade \/ HelperReturn
  <2>1. Stays /\ stack = <<>> /\ closed' = closed
    BY Zenon, <1>1 DEF ConnectionMade, HelperReturn, Stays
  <2>2. \A i \in DOMAIN stack : Undisturbed(i)
    BY SMTT(30), <1>0, <2>1, StackMoves
  <2> QED BY <1>0, <2>1, <2>2, WritingKept, Zenon
<1>2. CASE Close \/ HelperRaise
  <2>1. closed'
    BY Zenon, <1>2 DEF Close, HelperRaise, DoClose
  <2> QED BY Zenon, <1>0, <2>1, WritingKept
<1>3. CASE RecvReady
  <2>1. closed' = closed /\ UNCHANGED <<pending_pings, payload>> /\ Stays
    BY Zenon, <1>3 DEF RecvReady, Stays
  <2>2. \A q \in Probes : fut'[q] = fut[q]
    <3>1. recvs + 1 \notin Probes /\ fut' = [fut EXCEPT ![recvs + 1] = fut'[recvs + 1]]
      BY Zenon, <1>3, <1>0, NextReceiver, FutureKinds DEF RecvReady
    <3> QED BY Zenon, <1>0, <3>1
  <2>3. closed' \/ \A i \in DOMAIN stack : Undisturbed(i)
    BY Zenon, <2>1, <2>2 DEF Undisturbed, WritingRegistered
  <2> QED BY <1>0, <2>1, <2>3, WritingKept, Zenon
<1>4. CASE RecvCall
  <2>1. closed' = closed /\ UNCHANGED <<fut, pending_pings, payload>>
    BY Zenon, <1>4 DEF RecvCall
  <2>2. PlainFrame(RecvFrame)
    BY Zenon DEF PlainFrame, RecvFrame
  <2>3. \E f \in Frame : PlainFrame(f) /\ Pushes(f)
    BY <1>4, <2>2, ActionMoves, Zenon DEF Pushes
  <2>4. \A i \in DOMAIN stack : Undisturbed(i)
    BY Zenon, <2>1 DEF Undisturbed
  <2> QED BY <1>0, <2>1, <2>3, <2>4, WritingKept, Zenon
<1>5. CASE RecvPark
  <2>1. closed' = closed /\ UNCHANGED <<pending_pings, payload>>
    BY Zenon, <1>5 DEF RecvPark
  <2>2. \A q \in Probes : fut'[q] = fut[q]
    <3>1. recvs + 1 \notin Probes /\ fut' = [fut EXCEPT ![recvs + 1] = fut'[recvs + 1]]
      BY Zenon, <1>5, <1>0, NextReceiver, FutureKinds DEF RecvPark
    <3> QED BY Zenon, <1>0, <3>1
  <2>3. closed' \/ \A i \in DOMAIN stack : Undisturbed(i)
    BY Zenon, <2>1, <2>2 DEF Undisturbed, WritingRegistered
  <2>4. Pops
    BY <1>5, ActionMoves, Zenon
  <2> QED BY <1>0, <2>1, <2>3, <2>4, WritingKept, Zenon
<1>6. ASSUME NEW f \in Receivers \cup Probes, Cancel(f) PROVE WritingRegistered'
  <2>1. closed' = closed /\ UNCHANGED <<pending_pings, payload>> /\ Stays
    BY Zenon, <1>6 DEF Cancel, Stays
  <2>2. \A i \in DOMAIN stack : IsWrite(i) => stack[i].probe # f
    BY Zenon, <1>6 DEF Cancel, IsWrite
  <2>3. \A x \in Futures : x # f => fut'[x] = fut[x]
    BY Zenon, <1>6, <1>0 DEF Cancel
  <2>4. closed' \/ \A i \in DOMAIN stack : Undisturbed(i)
    BY Zenon, <1>0, <2>1, <2>2, <2>3 DEF Undisturbed, WritingRegistered
  <2> QED BY <1>0, <2>1, <2>4, WritingKept, Zenon
<1>7. ASSUME NEW p \in Payloads, PingCall(p) PROVE WritingRegistered'
  <2>1. closed' = closed /\ UNCHANGED <<fut, pending_pings, payload>>
    BY Zenon, <1>7 DEF PingCall
  <2>2. \A at \in {"done", "create"} : PlainFrame(PingFrame(at, p, pending_pings[p]))
    BY Zenon DEF PlainFrame, PingFrame
  <2>3. \E f \in Frame : PlainFrame(f) /\ Pushes(f)
    BY <1>7, <2>2, ActionMoves, Zenon DEF Pushes
  <2>4. \A i \in DOMAIN stack : Undisturbed(i)
    BY Zenon, <2>1 DEF Undisturbed
  <2> QED BY <1>0, <2>1, <2>3, <2>4, WritingKept, Zenon
<1>8. CASE PingDone
  <2>1. closed' = closed /\ UNCHANGED <<fut, payload>>
    BY Zenon, <1>8 DEF PingDone
  <2>2. PlainFrame(PingFrame("create", stack[1].payload, NoFuture))
    BY Zenon DEF PlainFrame, PingFrame
  <2>3. Pops \/ \E f \in Frame : PlainFrame(f) /\ Swaps(f)
    BY <1>8, <2>2, ActionMoves, Zenon DEF Swaps
  <2>4. ASSUME NEW i \in DOMAIN stack, IsWrite(i), ~closed
        PROVE  pending_pings'[stack[i].payload] = pending_pings[stack[i].payload]
    <3>1. /\ stack[i].probe \in Probes /\ fut[stack[i].probe] = "pending"
          /\ pending_pings[stack[i].payload] = stack[i].probe
      BY Zenon, <2>4 DEF WritingRegistered
    <3>2. stack[i].probe # NoFuture
      <4>1. NoFuture \notin Probes
        BY Zenon, FutureKinds
      <4> QED BY Zenon, <3>1, <4>1
    <3>3. stack[i].payload \in Payloads
      BY Zenon, <2>4, WritingTypes
    <3> QED BY Zenon, <1>8, <1>0, <2>4, <3>1, <3>2, <3>3 DEF PingDone, TypePings
  <2>5. closed' \/ \A i \in DOMAIN stack : Undisturbed(i)
    BY Zenon, <2>1, <2>4 DEF Undisturbed
  <2> QED BY <1>0, <2>1, <2>3, <2>5, WritingKept, Zenon
<1>9. CASE PingRegister
  <2> DEFINE q == MaxRecv + probes + 1
             p == stack[1].payload
  <2>0. q \in Probes /\ q > MaxRecv + probes
    <3>1. probes < MaxProbe
      BY Zenon, <1>9 DEF PingRegister
    <3> QED BY SMTT(30), <3>1, <1>0, NextProbe, BoundsAssumption DEF TypePings
  <2>1. closed' = closed /\ p \in Payloads /\ fut[q] = "free" /\ stack # <<>>
    BY Zenon, <1>9, <1>0, <2>0, TopTypes DEF PingRegister, ProbesNumbered
  <2>2. ASSUME NEW i \in DOMAIN stack, IsWrite(i), ~closed
        PROVE  Undisturbed(i) /\ (pending_pings[p] = NoFuture => stack[i].payload # p)
    <3>1. /\ stack[i].probe \in Probes /\ fut[stack[i].probe] = "pending"
          /\ pending_pings[stack[i].payload] = stack[i].probe
      BY Zenon, <2>2 DEF WritingRegistered
    <3>2. stack[i].probe # q /\ stack[i].probe # NoFuture /\ stack[i].probe \in Futures
      BY Zenon, <2>1, <3>1, FutureKinds
    <3>3. fut'[stack[i].probe] = fut[stack[i].probe] /\ payload'[stack[i].probe] = payload[stack[i].probe]
      BY Zenon, <1>9, <1>0, <3>1, <3>2 DEF PingRegister, TypePings
    <3>4. pending_pings[p] = NoFuture => stack[i].payload # p
      BY Zenon, <3>1, <3>2
    <3>5. pending_pings'[stack[i].payload] = pending_pings[stack[i].payload]
      BY Zenon, <1>9, <1>0, <3>4, <2>2, WritingTypes DEF PingRegister, TypePings
    <3> QED BY Zenon, <3>3, <3>4, <3>5 DEF Undisturbed
  <2>3. CASE closed \/ ~transport \/ pending_pings[p] # NoFuture
    <3>1. stack' = Tail(stack)
      BY Zenon, <1>9, <2>3 DEF PingRegister
    <3>2. Pops
      BY Zenon, <1>0, <2>1, <3>1, StackMoves
    <3>3. closed' \/ \A i \in DOMAIN stack : Undisturbed(i)
      BY Zenon, <2>1, <2>2 DEF Undisturbed
    <3> QED BY <1>0, <2>1, <3>2, <3>3, WritingKept, Zenon
  <2>4. CASE ~(closed \/ ~transport \/ pending_pings[p] # NoFuture)
    <3> DEFINE f == PingFrame("write", p, q)
    <3>0. f.op = "ping" /\ f.at = "write" /\ f.payload = p /\ f.probe = q
      BY Zenon DEF PingFrame
    <3>1. fut'[q] = "pending" /\ pending_pings'[p] = q /\ payload'[q] = p /\ stack' = Replace(f)
      BY Zenon, <1>9, <1>0, <2>0, <2>1, <2>4, FutureKinds DEF PingRegister, TypePings
    <3> HIDE DEF f
    <3>2. Swaps(f)
      <4>1. f \in Frame
        BY Zenon, <2>0, <2>1, FrameTypes DEF f
      <4> QED BY Zenon, <1>0, <2>1, <3>1, <4>1, StackMoves
    <3>3. 1 \in DOMAIN stack' /\ stack'[1] = f /\ DOMAIN stack' = DOMAIN stack
      BY Zenon, <1>0, <3>2, SwapsTop, StackMoves DEF Swaps
    <3>4. \A i \in DOMAIN stack' : i # 1 => stack'[i] = stack[i] /\ (IsWrite(i)' <=> IsWrite(i))
      <4>1. Len(stack) \in Nat /\ DOMAIN stack' = 1..Len(stack) /\ \A i \in 2..Len(stack) : stack'[i] = stack[i]
        BY Zenon, <1>0, <3>2, StackMoves DEF Swaps
      <4>2. \A i \in DOMAIN stack' : i # 1 => stack'[i] = stack[i]
        BY SMTT(30), <4>1
      <4> QED BY Zenon, <4>2 DEF IsWrite
    <3>5. \A i \in DOMAIN stack' : i # 1 /\ IsWrite(i)' => stack'[i].payload # p
      BY Zenon, <2>2, <2>4, <3>3, <3>4
    <3>6. ASSUME NEW i \in DOMAIN stack', IsWrite(i)', ~closed'
          PROVE  /\ stack'[i].probe \in Probes /\ fut'[stack'[i].probe] = "pending"
                 /\ pending_pings'[stack'[i].payload] = stack'[i].probe
                 /\ payload'[stack'[i].probe] = stack'[i].payload
                 /\ \A j \in DOMAIN stack' :
                      IsWrite(j)' /\ stack'[j].payload = stack'[i].payload => i = j
      <4>1. CASE i = 1
        BY Zenon, <2>0, <3>0, <3>1, <3>3, <3>5, <4>1
      <4>2. CASE i # 1
        <5>1. i \in DOMAIN stack /\ IsWrite(i) /\ stack'[i] = stack[i] /\ ~closed
          BY Zenon, <2>1, <3>3, <3>4, <3>6, <4>2
        <5>2. Undisturbed(i) /\ stack[i].payload # p
          BY Zenon, <2>2, <2>4, <5>1
        <5>3. \A j \in DOMAIN stack' : IsWrite(j)' /\ stack'[j].payload = stack'[i].payload => i = j
          <6> SUFFICES ASSUME NEW j \in DOMAIN stack', IsWrite(j)', stack'[j].payload = stack'[i].payload
                       PROVE  i = j
            BY Zenon
          <6>1. j # 1
            BY Zenon, <3>0, <3>3, <5>1, <5>2
          <6>2. j \in DOMAIN stack /\ IsWrite(j) /\ stack[j].payload = stack[i].payload
            BY Zenon, <3>3, <3>4, <5>1, <6>1
          <6> QED BY Zenon, <5>1, <6>2 DEF WritingRegistered
        <5>4. /\ stack[i].probe \in Probes /\ fut[stack[i].probe] = "pending"
              /\ pending_pings[stack[i].payload] = stack[i].probe
              /\ payload[stack[i].probe] = stack[i].payload
          BY Zenon, <5>1 DEF WritingRegistered
        <5> QED BY Zenon, <5>1, <5>2, <5>3, <5>4 DEF Undisturbed
      <4> QED BY Zenon, <4>1, <4>2
    <3> QED BY <3>6, Zenon DEF WritingRegistered
  <2> QED BY Zenon, <2>3, <2>4
<1>10. CASE PingWritten \/ FlushReturn
  <2>1. closed' = closed /\ UNCHANGED <<fut, pending_pings, payload>>
    BY Zenon, <1>10 DEF PingWritten, FlushReturn
  <2>2. Pops
    BY <1>10, ActionMoves, Zenon
  <2>3. \A i \in DOMAIN stack : Undisturbed(i)
    BY Zenon, <2>1 DEF Undisturbed
  <2> QED BY <1>0, <2>1, <2>2, <2>3, WritingKept, Zenon
<1>11. CASE PingWriteFails
  <2>1. closed' = closed /\ payload' = payload
    BY Zenon, <1>11 DEF PingWriteFails
  <2>2. PlainFrame(FlushFrame("lost", {}, FALSE))
    BY Zenon DEF PlainFrame, FlushFrame
  <2>3. \E f \in Frame : PlainFrame(f) /\ Swaps(f)
    BY <1>11, <2>2, ActionMoves, Zenon DEF Swaps
  <2>4. ASSUME NEW i \in DOMAIN stack, i # 1, IsWrite(i), ~closed
        PROVE  Undisturbed(i)
    <3>1. 1 \in DOMAIN stack /\ IsWrite(1)
      BY Zenon, <1>11, <1>0, HasTop DEF PingWriteFails, IsWrite
    <3>2. stack[i].payload # stack[1].payload
      BY Zenon, <2>4, <3>1 DEF WritingRegistered
    <3>3. /\ payload[stack[i].probe] = stack[i].payload /\ payload[stack[1].probe] = stack[1].payload
          /\ stack[i].probe \in Probes
      BY Zenon, <2>4, <3>1 DEF WritingRegistered
    <3>4. stack[i].probe # stack[1].probe /\ stack[i].probe \in Futures
      BY Zenon, <3>2, <3>3, FutureKinds
    <3>5. fut'[stack[i].probe] = fut[stack[i].probe]
      BY Zenon, <1>11, <1>0, <3>4 DEF PingWriteFails, Settle
    <3>6. pending_pings'[stack[i].payload] = pending_pings[stack[i].payload]
      BY Zenon, <1>11, <1>0, <3>2, <2>4, WritingTypes DEF PingWriteFails, TypePings
    <3> QED BY Zenon, <2>1, <3>5, <3>6 DEF Undisturbed
  <2>5. closed' \/ \A i \in DOMAIN stack : i # 1 => Undisturbed(i)
    BY Zenon, <2>1, <2>4 DEF Undisturbed
  <2> QED BY <1>0, <2>1, <2>3, <2>5, WritingKept, Zenon
<1>12. ASSUME NEW q \in Probes, RunCleanup(q) PROVE WritingRegistered'
  <2>1. Stays /\ stack = <<>> /\ closed' = closed
    BY Zenon, <1>12 DEF RunCleanup, Stays
  <2>2. \A i \in DOMAIN stack : Undisturbed(i)
    BY <1>0, <2>1, StackMoves
  <2> QED BY <1>0, <2>1, <2>2, WritingKept, Zenon
<1>13. CASE DataReceived
  <2>1. stack = <<>> /\ closed' = closed
    BY Zenon, <1>13 DEF DataReceived
  <2>2. \A i \in DOMAIN stack : Undisturbed(i)
    BY SMTT(30), <1>0, <2>1, StackMoves
  <2>3. \A fast \in BOOLEAN : PlainFrame(DataFrame(fast, {}, 0))
    BY Zenon DEF PlainFrame, DataFrame
  <2>4. \E f \in Frame : PlainFrame(f) /\ Pushes(f)
    BY <1>13, <2>3, ActionMoves, Zenon DEF Pushes
  <2> QED BY <1>0, <2>1, <2>2, <2>4, WritingKept, Zenon
<1>14. CASE HandshakeIn \/ DataEnd
  <2>1. Mode("data") /\ closed' = closed
    BY Zenon, <1>14 DEF HandshakeIn, DataEnd, NextFrame
  <2>2. \A i \in DOMAIN stack : Undisturbed(i)
    BY <1>0, <2>1, ParsingWritesNothing, Zenon DEF Undisturbed
  <2>4. PlainFrame(FlushFrame("return", {}, FALSE))
    BY Zenon DEF PlainFrame, FlushFrame
  <2>3. Stays \/ \E f \in Frame : PlainFrame(f) /\ Swaps(f)
    BY <1>14, <2>4, ActionMoves, Zenon DEF Swaps
  <2> QED BY <1>0, <2>1, <2>2, <2>3, WritingKept, Zenon
<1>15. CASE MessageIn \/ OtherIn
  <2>1. Mode("data") /\ closed' = closed
    BY Zenon, <1>15 DEF MessageIn, OtherIn, NextFrame
  <2>2. \A i \in DOMAIN stack : Undisturbed(i)
    BY <1>0, <2>1, ParsingWritesNothing, Zenon DEF Undisturbed
  <2>3. Stays
    BY Zenon, <1>15 DEF MessageIn, OtherIn, Stays
  <2> QED BY <1>0, <2>1, <2>2, <2>3, WritingKept, Zenon
<1>16. CASE MessageRejected
  BY Zenon, <1>16 DEF MessageRejected, Stock
<1>17. CASE PingIn
  <2>1. Mode("data") /\ closed' = closed
    BY Zenon, <1>17 DEF PingIn, NextFrame
  <2>2. \A i \in DOMAIN stack : Undisturbed(i)
    BY <1>0, <2>1, ParsingWritesNothing, Zenon DEF Undisturbed
  <2>4. \A fast, acks, n : PlainFrame(DataFrame(fast, acks, n))
    BY Zenon DEF PlainFrame, DataFrame
  <2>3. Stays \/ \E f \in Frame : PlainFrame(f) /\ Swaps(f)
    BY <1>17, <2>4, ActionMoves, Zenon DEF Swaps
  <2> QED BY <1>0, <2>1, <2>2, <2>3, WritingKept, Zenon
<1>18. ASSUME NEW p \in Payloads, PongIn(p) PROVE WritingRegistered'
  <2>1. Mode("data") /\ closed' = closed
    BY Zenon, <1>18 DEF PongIn, NextFrame
  <2>2. \A i \in DOMAIN stack : Undisturbed(i)
    BY <1>0, <2>1, ParsingWritesNothing, Zenon DEF Undisturbed
  <2>4. \A fast, acks, n : PlainFrame(DataFrame(fast, acks, n))
    BY Zenon DEF PlainFrame, DataFrame
  <2>3. Stays \/ \E f \in Frame : PlainFrame(f) /\ Swaps(f)
    BY <1>18, <2>4, PongMoves, Zenon DEF Swaps
  <2> QED BY <1>0, <2>1, <2>2, <2>3, WritingKept, Zenon
<1>19. CASE FallBack
  <2>1. Mode("data") /\ closed' = closed
    BY Zenon, <1>19 DEF FallBack, NextFrame
  <2>2. \A i \in DOMAIN stack : Undisturbed(i)
    BY <1>0, <2>1, ParsingWritesNothing, Zenon DEF Undisturbed
  <2>4. PlainFrame(DataFrame(FALSE, {}, 0))
    BY Zenon DEF PlainFrame, DataFrame
  <2>3. Stays \/ \E f \in Frame : PlainFrame(f) /\ Swaps(f)
    BY <1>19, <2>4, ActionMoves, Zenon DEF Swaps
  <2> QED BY <1>0, <2>1, <2>2, <2>3, WritingKept, Zenon
<1>20. CASE CloseIn \/ ProtocolErrorIn
  <2>1. closed'
    BY Zenon, <1>20 DEF CloseIn, ProtocolErrorIn, BeginClose
  <2> QED BY Zenon, <1>0, <2>1, WritingKept
<1>21. CASE FlushPop \/ CallbackReturn
  <2>1. closed' = closed /\ UNCHANGED <<fut, pending_pings, payload>>
    BY Zenon, <1>21 DEF FlushPop, CallbackReturn
  <2>2. PICK f \in Frame : Swaps(f) /\ SameFlush(f, stack[1])
    BY <1>21, ActionMoves, Zenon
  <2>3. PlainFrame(f)
    BY Zenon, <2>2 DEF SameFlush, PlainFrame
  <2>4. \A i \in DOMAIN stack : Undisturbed(i)
    BY Zenon, <2>1 DEF Undisturbed
  <2> QED BY <1>0, <2>1, <2>2, <2>3, <2>4, WritingKept, Zenon
<1>22. CASE FlushApplyClose
  <2>1. closed /\ closed' = closed
    BY Zenon, <1>22, <1>0, HasTop DEF FlushApplyClose, StackShape, IsTeardown
  <2> QED BY Zenon, <1>0, <2>1, WritingKept
<1>23. CASE ConnectionLost
  <2>1. stack = <<>> /\ closed' = closed
    BY Zenon, <1>23 DEF ConnectionLost
  <2>2. \A i \in DOMAIN stack : Undisturbed(i)
    BY SMTT(30), <1>0, <2>1, StackMoves
  <2>3. PlainFrame(FlushFrame("lost", {}, FALSE))
    BY Zenon DEF PlainFrame, FlushFrame
  <2>4. \E f \in Frame : PlainFrame(f) /\ Pushes(f)
    BY <1>23, <2>3, ActionMoves, Zenon DEF Pushes
  <2> QED BY <1>0, <2>1, <2>2, <2>4, WritingKept, Zenon
<1>24. CASE FlushLost
  <2>1. closed'
    BY Zenon, <1>24 DEF FlushLost
  <2> QED BY Zenon, <1>0, <2>1, WritingKept
<1>25. CASE UNCHANGED vars
  BY <1>25, ZenonT(30) DEF vars, WritingRegistered, IsWrite
<1> QED BY Zenon, <1>1, <1>2, <1>3, <1>4, <1>5, <1>6, <1>7, <1>8, <1>9, <1>10, <1>11, <1>12, <1>13,
     <1>14, <1>15, <1>16, <1>17, <1>18, <1>19, <1>20, <1>21, <1>22, <1>23, <1>24, <1>25 DEF Next,
     InnerStep, Application, EventLoop

Holds(f, x) == (f.op = "flush" /\ x \in f.pending) \/ (f.op = "data" /\ x \in f.acks)
InFrames(x) == \E i \in DOMAIN stack : Holds(stack[i], x)

(* PendingReachable in terms of the futures held by frames. *)
LEMMA ReachableParts ==
  PendingReachable <=> \A x \in Futures : fut[x] = "pending" => x \in TakePending \/ InFrames(x)
BY Zenon DEF PendingReachable, InFrames, Holds

(* PendingReachable after a step, future by future. *)
LEMMA ReachableNext ==
  PendingReachable' <=> \A x \in Futures : fut'[x] = "pending" => x \in TakePending' \/ InFrames(x)'
BY Zenon DEF PendingReachable, InFrames, Holds

(* A future held by a frame is still held after a move that does not drop the frame. *)
LEMMA InFramesKept ==
  ASSUME TypeStack, NEW x, InFrames(x),
         \/ Stays
         \/ \E f \in Frame : Pushes(f)
         \/ Pops /\ ~Holds(stack[1], x)
         \/ \E f \in Frame : Swaps(f) /\ (Holds(stack[1], x) => Holds(f, x))
  PROVE  InFrames(x)'
<1>1. PICK i \in DOMAIN stack : Holds(stack[i], x)
  BY Zenon DEF InFrames
<1>2. DOMAIN stack = 1..Len(stack) /\ Len(stack) \in Nat
  BY Zenon, StackMoves
<1>3. CASE Stays
  <2>1. i \in DOMAIN stack' /\ stack'[i] = stack[i]
    BY Zenon, <1>1, <1>3 DEF Stays
  <2> QED BY <1>1, <2>1, Zenon DEF InFrames
<1>4. CASE \E f \in Frame : Pushes(f)
  <2>1. i + 1 \in DOMAIN stack' /\ stack'[i + 1] = stack[i]
    BY <1>2, <1>4 DEF Pushes
  <2> QED BY <1>1, <2>1, Zenon DEF InFrames
<1>5. CASE Pops /\ ~Holds(stack[1], x)
  <2>1. i # 1
    BY Zenon, <1>1, <1>5
  <2>2. i - 1 \in DOMAIN stack' /\ stack'[i - 1] = stack[i]
    BY <1>2, <1>5, <2>1 DEF Pops
  <2> QED BY <1>1, <2>2, Zenon DEF InFrames
<1>6. ASSUME NEW f \in Frame, Swaps(f), Holds(stack[1], x) => Holds(f, x) PROVE InFrames(x)'
  <2>1. i \in DOMAIN stack' /\ (i # 1 => stack'[i] = stack[i]) /\ stack'[1] = f
    BY SMTT(30), <1>1, <1>2, <1>6 DEF Swaps
  <2>2. Holds(stack'[i], x)
    BY Zenon, <1>1, <1>6, <2>1
  <2> QED BY <2>1, <2>2, Zenon DEF InFrames
<1> QED BY <1>3, <1>4, <1>5, <1>6, Zenon

(* The new innermost frame holds what it was given. *)
LEMMA InNewTop == ASSUME TypeStack, NEW f, Swaps(f), NEW x, Holds(f, x) PROVE InFrames(x)'
<1>1. 1 \in DOMAIN stack' /\ stack'[1] = f
  BY Zenon, SwapsTop
<1> QED BY <1>1, Zenon DEF InFrames

(* When only the innermost frame holds futures, those are the ones it loses. *)
LEMMA InTopOnly ==
  TypeStack /\ StackShape /\ Mode("data") =>
    /\ \A x : InFrames(x) => x \in stack[1].acks
    /\ stack[1].acks # {} => stack[1].fast /\ handshake_done
<1> SUFFICES ASSUME TypeStack, StackShape, Mode("data")
             PROVE  /\ \A x : InFrames(x) => x \in stack[1].acks
                    /\ stack[1].acks # {} => stack[1].fast /\ handshake_done
  OBVIOUS
<1>1. DOMAIN stack = {1}
  BY Zenon, ParsingAlone
<1>2. \A x : InFrames(x) => x \in stack[1].acks
  BY Zenon, <1>1 DEF InFrames, Holds
<1>3. stack[1].acks # {} => stack[1].fast /\ handshake_done
  BY <1>1, Zenon DEF StackShape, IsData
<1> QED BY Zenon, <1>2, <1>3

(* No handler loses track of an unsettled future. *)
LEMMA PendingReachableStep ==
  TypeOK /\ StackShape /\ ClosedEmpty /\ WritingRegistered /\ ProbesNumbered /\ PendingReachable /\ Stock /\ [Next]_vars => PendingReachable'
<1> SUFFICES ASSUME TypeOK, StackShape, ClosedEmpty, WritingRegistered, ProbesNumbered, PendingReachable, Stock, [Next]_vars PROVE PendingReachable'
  OBVIOUS
<1>0. /\ TypeParked /\ TypePings /\ TypeStack /\ TypeFlags
      /\ fut \in [Futures -> Status] /\ Probes \subseteq Futures
      /\ \A x \in Futures : fut[x] = "pending" => x \in TakePending \/ InFrames(x)
  BY Zenon, ReachableParts, FutureKinds DEF TypeOK, TypeFutures
<1>1. CASE ConnectionMade \/ HelperReturn \/ RecvReady \/ OtherIn
  <2> SUFFICES ASSUME NEW x \in Futures, fut'[x] = "pending" PROVE x \in TakePending' \/ InFrames(x)'
    BY Zenon, ReachableNext
  <2>1. fut[x] = "pending"
    BY Zenon, <1>1, <1>0 DEF ConnectionMade, HelperReturn, RecvReady, OtherIn
  <2>2. TakePending' = TakePending
    <3>1. UNCHANGED <<pending_recv, unprobeable_recv, handshake_fut, pending_pings>>
      BY Zenon, <1>1 DEF ConnectionMade, HelperReturn, RecvReady, OtherIn
    <3> QED BY Zenon, <3>1 DEF TakePending
  <2>3. Stays
    BY Zenon, <1>1 DEF ConnectionMade, HelperReturn, RecvReady, OtherIn, Stays
  <2> QED BY <1>0, <2>1, <2>2, <2>3, InFramesKept, Zenon
<1>2. CASE Close \/ HelperRaise
  <2> SUFFICES ASSUME NEW x \in Futures, fut'[x] = "pending" PROVE x \in TakePending' \/ InFrames(x)'
    BY Zenon, ReachableNext
  <2>1. fut[x] = "pending" /\ x \notin TakePending
    BY Zenon, <1>2, <1>0 DEF Close, HelperRaise, DoClose, Settle
  <2>2. Stays
    BY Zenon, <1>2 DEF Close, HelperRaise, DoClose, Stays
  <2> QED BY <1>0, <2>1, <2>2, InFramesKept, Zenon
<1>3. CASE RecvCall \/ DataReceived \/ ConnectionLost
  <2> SUFFICES ASSUME NEW x \in Futures, fut'[x] = "pending" PROVE x \in TakePending' \/ InFrames(x)'
    BY Zenon, ReachableNext
  <2>1. fut[x] = "pending"
    BY Zenon, <1>3, <1>0 DEF RecvCall, DataReceived, ConnectionLost
  <2>2. TakePending' = TakePending
    <3>1. UNCHANGED <<pending_recv, unprobeable_recv, handshake_fut, pending_pings>>
      BY Zenon, <1>3 DEF RecvCall, DataReceived, ConnectionLost
    <3> QED BY Zenon, <3>1 DEF TakePending
  <2>3. \E f \in Frame : Pushes(f)
    BY <1>3, ActionMoves, Zenon DEF Pushes
  <2> QED BY <1>0, <2>1, <2>2, <2>3, InFramesKept, Zenon
<1>4. CASE RecvPark
  <2> SUFFICES ASSUME NEW x \in Futures, fut'[x] = "pending" PROVE x \in TakePending' \/ InFrames(x)'
    BY Zenon, ReachableNext
  <2> DEFINE r == recvs + 1
  <2>1. CASE x = r
    BY Zenon, <1>4, <2>1 DEF RecvPark, TakePending
  <2>2. CASE x # r
    <3>1. fut[x] = "pending"
      BY Zenon, <1>4, <1>0, <2>2 DEF RecvPark
    <3>2. CASE x \in TakePending
      <4>1. x \in pending_recv => x \in LiveReceivers \/ x \in Unprobeable
        BY Zenon, <3>1 DEF LiveReceivers, Live
      <4>2. UNCHANGED <<handshake_fut, pending_pings>>
        BY Zenon, <1>4 DEF RecvPark
      <4>3. x \in pending_recv \cup unprobeable_recv => x \in pending_recv' \cup unprobeable_recv'
        BY Zenon, <1>4, <4>1 DEF RecvPark
      <4> QED BY Zenon, <3>2, <4>2, <4>3 DEF TakePending
    <3>3. CASE InFrames(x)
      <4>1. Pops
        BY <1>4, ActionMoves, Zenon
      <4>2. ~Holds(stack[1], x)
        BY Zenon, <1>4 DEF RecvPark, Holds
      <4> QED BY <1>0, <3>3, <4>1, <4>2, InFramesKept, Zenon
    <3> QED BY Zenon, <1>0, <3>1, <3>2, <3>3
  <2> QED BY Zenon, <2>1, <2>2
<1>5. ASSUME NEW f \in Receivers \cup Probes, Cancel(f) PROVE PendingReachable'
  <2> SUFFICES ASSUME NEW x \in Futures, fut'[x] = "pending" PROVE x \in TakePending' \/ InFrames(x)'
    BY Zenon, ReachableNext
  <2>1. fut[x] = "pending"
    BY Zenon, <1>5, <1>0 DEF Cancel
  <2>2. TakePending' = TakePending
    <3>1. UNCHANGED <<pending_recv, unprobeable_recv, handshake_fut, pending_pings>>
      BY Zenon, <1>5 DEF Cancel
    <3> QED BY Zenon, <3>1 DEF TakePending
  <2>3. Stays
    BY Zenon, <1>5 DEF Cancel, Stays
  <2> QED BY <1>0, <2>1, <2>2, <2>3, InFramesKept, Zenon
<1>6. ASSUME NEW p \in Payloads, PingCall(p) PROVE PendingReachable'
  <2> SUFFICES ASSUME NEW x \in Futures, fut'[x] = "pending" PROVE x \in TakePending' \/ InFrames(x)'
    BY Zenon, ReachableNext
  <2>1. fut[x] = "pending"
    BY Zenon, <1>6, <1>0 DEF PingCall
  <2>2. TakePending' = TakePending
    <3>1. UNCHANGED <<pending_recv, unprobeable_recv, handshake_fut, pending_pings>>
      BY Zenon, <1>6 DEF PingCall
    <3> QED BY Zenon, <3>1 DEF TakePending
  <2>3. \E f \in Frame : Pushes(f)
    BY <1>6, ActionMoves, Zenon DEF Pushes
  <2> QED BY <1>0, <2>1, <2>2, <2>3, InFramesKept, Zenon
<1>7. CASE PingDone
  <2> SUFFICES ASSUME NEW x \in Futures, fut'[x] = "pending" PROVE x \in TakePending' \/ InFrames(x)'
    BY Zenon, ReachableNext
  <2>1. fut[x] = "pending"
    BY Zenon, <1>7 DEF PingDone
  <2>2. CASE x \in TakePending
    <3>1. x # NoFuture
      BY Zenon, FutureKinds
    <3>2. UNCHANGED <<pending_recv, unprobeable_recv, handshake_fut>>
      BY Zenon, <1>7 DEF PingDone
    <3>3. \A p \in Payloads : pending_pings[p] = x => pending_pings'[p] = x
      BY Zenon, <1>7, <1>0, <2>1, <3>1 DEF PingDone, TypePings
    <3> QED BY Zenon, <2>2, <3>1, <3>2, <3>3 DEF TakePending
  <2>3. CASE InFrames(x)
    <3>1. ~Holds(stack[1], x)
      BY Zenon, <1>7 DEF PingDone, Holds
    <3>2. \/ Pops /\ ~Holds(stack[1], x)
          \/ \E f \in Frame : Swaps(f) /\ (Holds(stack[1], x) => Holds(f, x))
      BY <1>7, <3>1, ActionMoves, Zenon DEF Swaps
    <3> QED BY <1>0, <2>3, <3>2, InFramesKept, Zenon
  <2> QED BY Zenon, <1>0, <2>1, <2>2, <2>3
<1>8. CASE PingRegister
  <2> SUFFICES ASSUME NEW x \in Futures, fut'[x] = "pending" PROVE x \in TakePending' \/ InFrames(x)'
    BY Zenon, ReachableNext
  <2> DEFINE q == MaxRecv + probes + 1
             p == stack[1].payload
  <2>0. p \in Payloads /\ q \in Futures /\ q # NoFuture /\ x # NoFuture
    BY Zenon, <1>8, <1>0, NextProbe, FutureKinds, TopTypes DEF PingRegister
  <2>1. UNCHANGED <<pending_recv, unprobeable_recv, handshake_fut>>
    BY Zenon, <1>8 DEF PingRegister
  <2>2. CASE x = q
    <3>1. fut' = [fut EXCEPT ![q] = "pending"] /\ pending_pings' = [pending_pings EXCEPT ![p] = q]
      BY Zenon, <1>8, <1>0, <2>0, <2>2 DEF PingRegister
    <3>2. pending_pings'[p] = x
      BY Zenon, <1>0, <2>0, <2>2, <3>1 DEF TypePings
    <3> QED BY Zenon, <2>0, <3>2 DEF TakePending
  <2>3. CASE x # q
    <3>1. fut[x] = "pending"
      BY Zenon, <1>8, <1>0, <2>3 DEF PingRegister
    <3>2. CASE x \in TakePending
      <4>1. \A y \in Payloads : pending_pings[y] = x => pending_pings'[y] = x
        BY Zenon, <1>8, <1>0, <2>0 DEF PingRegister, TypePings
      <4> QED BY ZenonT(30), <2>0, <2>1, <3>2, <4>1 DEF TakePending
    <3>3. CASE InFrames(x)
      <4>1. ~Holds(stack[1], x)
        BY Zenon, <1>8 DEF PingRegister, Holds
      <4>2. \/ Pops /\ ~Holds(stack[1], x)
            \/ \E f \in Frame : Swaps(f) /\ (Holds(stack[1], x) => Holds(f, x))
        BY <1>8, <4>1, ActionMoves, Zenon DEF Swaps
      <4> QED BY <1>0, <3>3, <4>2, InFramesKept, Zenon
    <3> QED BY Zenon, <1>0, <3>1, <3>2, <3>3
  <2> QED BY Zenon, <2>2, <2>3
<1>9. CASE PingWritten
  <2> SUFFICES ASSUME NEW x \in Futures, fut'[x] = "pending" PROVE x \in TakePending' \/ InFrames(x)'
    BY Zenon, ReachableNext
  <2>1. fut[x] = "pending"
    BY Zenon, <1>9, <1>0 DEF PingWritten
  <2>2. TakePending' = TakePending
    <3>1. UNCHANGED <<pending_recv, unprobeable_recv, handshake_fut, pending_pings>>
      BY Zenon, <1>9 DEF PingWritten
    <3> QED BY Zenon, <3>1 DEF TakePending
  <2>3. Pops /\ ~Holds(stack[1], x)
    <3>1. Pops
      BY <1>9, ActionMoves, Zenon
    <3> QED BY Zenon, <1>9, <3>1 DEF PingWritten, Holds
  <2> QED BY <1>0, <2>1, <2>2, <2>3, InFramesKept, Zenon
<1>10. CASE PingWriteFails
  <2> SUFFICES ASSUME NEW x \in Futures, fut'[x] = "pending" PROVE x \in TakePending' \/ InFrames(x)'
    BY Zenon, ReachableNext
  <2> DEFINE q == stack[1].probe
             p == stack[1].payload
  <2>0. p \in Payloads /\ x # NoFuture /\ 1 \in DOMAIN stack /\ IsWrite(1)
    BY Zenon, <1>10, <1>0, FutureKinds, TopTypes, HasTop DEF PingWriteFails, IsWrite
  <2>1. fut[x] = "pending" /\ x # q
    BY Zenon, <1>10, <1>0 DEF PingWriteFails, Settle
  <2>2. pending_pings[p] # x
    <3>1. CASE closed
      BY Zenon, <2>0, <3>1 DEF ClosedEmpty
    <3>2. CASE ~closed
      BY Zenon, <2>0, <2>1, <3>2 DEF WritingRegistered
    <3> QED BY Zenon, <3>1, <3>2
  <2>3. CASE x \in TakePending
    <3>1. UNCHANGED <<pending_recv, unprobeable_recv, handshake_fut>>
      BY Zenon, <1>10 DEF PingWriteFails
    <3>2. \A y \in Payloads : pending_pings[y] = x => pending_pings'[y] = x
      BY Zenon, <1>10, <1>0, <2>2 DEF PingWriteFails, TypePings
    <3> QED BY ZenonT(30), <2>0, <2>3, <3>1, <3>2 DEF TakePending
  <2>4. CASE InFrames(x)
    <3>1. ~Holds(stack[1], x)
      BY Zenon, <1>10 DEF PingWriteFails, Holds
    <3>2. \E f \in Frame : Swaps(f) /\ (Holds(stack[1], x) => Holds(f, x))
      BY <1>10, <3>1, ActionMoves, Zenon DEF Swaps
    <3> QED BY <1>0, <2>4, <3>2, InFramesKept, Zenon
  <2> QED BY Zenon, <1>0, <2>1, <2>3, <2>4
<1>11. ASSUME NEW q \in Probes, RunCleanup(q) PROVE PendingReachable'
  <2> SUFFICES ASSUME NEW x \in Futures, fut'[x] = "pending" PROVE x \in TakePending' \/ InFrames(x)'
    BY Zenon, ReachableNext
  <2>1. fut[x] = "pending" /\ x # q /\ x # NoFuture
    BY Zenon, <1>11, FutureKinds DEF RunCleanup, ProbesNumbered
  <2>2. \A y \in Payloads : pending_pings[y] = x => pending_pings'[y] = x
    BY Zenon, <1>11, <1>0, <2>1 DEF RunCleanup, OwnEntry, TypePings
  <2>3. UNCHANGED <<pending_recv, unprobeable_recv, handshake_fut>> /\ Stays
    BY Zenon, <1>11 DEF RunCleanup, Stays
  <2>4. x \in TakePending => x \in TakePending'
    BY Zenon, <2>1, <2>2, <2>3 DEF TakePending
  <2> QED BY <1>0, <2>1, <2>3, <2>4, InFramesKept, Zenon
<1>12. CASE HandshakeIn
  <2> SUFFICES ASSUME NEW x \in Futures, fut'[x] = "pending" PROVE x \in TakePending' \/ InFrames(x)'
    BY Zenon, ReachableNext
  <2>0. Mode("data") /\ ~handshake_done
    BY Zenon, <1>12 DEF HandshakeIn, NextFrame
  <2>1. fut[x] = "pending" /\ (handshake_fut => x # Handshake)
    BY Zenon, <1>12, <1>0 DEF HandshakeIn, Settle
  <2>2. UNCHANGED <<pending_recv, unprobeable_recv, pending_pings>>
    BY Zenon, <1>12 DEF HandshakeIn
  <2>3. x \in TakePending
    BY Zenon, <1>0, <2>0, <2>1, InTopOnly
  <2> QED BY Zenon, <2>1, <2>2, <2>3 DEF TakePending
<1>13. CASE MessageIn
  <2> SUFFICES ASSUME NEW x \in Futures, fut'[x] = "pending" PROVE x \in TakePending' \/ InFrames(x)'
    BY Zenon, ReachableNext
  <2>1. fut[x] = "pending"
    BY Zenon, <1>13, <1>0 DEF MessageIn, Settle
  <2>2. UNCHANGED <<handshake_fut, pending_pings>> /\ Stays
    BY Zenon, <1>13 DEF MessageIn, Stays
  <2>3. x \in pending_recv \cup unprobeable_recv => x \in pending_recv' \cup unprobeable_recv'
    <3>1. \/ UNCHANGED <<pending_recv, unprobeable_recv>>
          \/ TakeLiveReceiver(0)
          \/ \E r \in pending_recv : TakeLiveReceiver(r) /\ fut' = Settle(fut, {r}, "result")
      BY Zenon, <1>13 DEF MessageIn
    <3>2. CASE UNCHANGED <<pending_recv, unprobeable_recv>>
      BY Zenon, <3>2
    <3>3. CASE TakeLiveReceiver(0)
      BY Zenon, <2>1, <3>3 DEF TakeLiveReceiver, LiveReceivers, Live
    <3>4. ASSUME NEW r \in pending_recv, TakeLiveReceiver(r), fut' = Settle(fut, {r}, "result")
          PROVE  x \in pending_recv \cup unprobeable_recv => x \in pending_recv' \cup unprobeable_recv'
      <4>1. x # r /\ r \in Receivers /\ r # 0 /\ pending_recv \subseteq Receivers
        BY SMTT(30), <1>0, <3>4 DEF Settle, TypeParked, Receivers
      <4>2. \A y \in pending_recv : y # r /\ y <= r => ~Live(y)
        BY SMTT(30), <3>4, <4>1 DEF TakeLiveReceiver, LiveReceivers, Receivers
      <4> QED BY Zenon, <2>1, <3>4, <4>1, <4>2 DEF TakeLiveReceiver, Live
    <3> QED BY Zenon, <3>1, <3>2, <3>3, <3>4
  <2>4. x \in TakePending => x \in TakePending'
    BY Zenon, <2>2, <2>3 DEF TakePending
  <2> QED BY <1>0, <2>1, <2>2, <2>4, InFramesKept, Zenon
<1>14. CASE MessageRejected
  BY Zenon, <1>14 DEF MessageRejected, Stock
<1>15. CASE PingIn
  <2> SUFFICES ASSUME NEW x \in Futures, fut'[x] = "pending" PROVE x \in TakePending' \/ InFrames(x)'
    BY Zenon, ReachableNext
  <2>1. fut[x] = "pending"
    BY Zenon, <1>15, <1>0 DEF PingIn
  <2>2. TakePending' = TakePending
    <3>1. UNCHANGED <<pending_recv, unprobeable_recv, handshake_fut, pending_pings>>
      BY Zenon, <1>15 DEF PingIn
    <3> QED BY Zenon, <3>1 DEF TakePending
  <2>3. Stays \/ \E f \in Frame : Swaps(f) /\ (Holds(stack[1], x) => Holds(f, x))
    <3>1. Mode("data")
      BY Zenon, <1>15 DEF PingIn, NextFrame
    <3>2. \A n : Holds(stack[1], x) => Holds(DataFrame(stack[1].fast, stack[1].acks, n), x)
      BY Zenon, <3>1 DEF Holds, DataFrame
    <3> QED BY <1>15, <3>2, ActionMoves, Zenon DEF Swaps
  <2> QED BY <1>0, <2>1, <2>2, <2>3, InFramesKept, Zenon
<1>16. ASSUME NEW p \in Payloads, PongIn(p) PROVE PendingReachable'
  <2> SUFFICES ASSUME NEW x \in Futures, fut'[x] = "pending" PROVE x \in TakePending' \/ InFrames(x)'
    BY Zenon, ReachableNext
  <2> DEFINE acks == stack[1].acks \cup ({pending_pings[p]} \ {NoFuture})
             f == DataFrame(stack[1].fast, acks, stack[1].pongs)
  <2>0. Mode("data") /\ pending_pings' = [pending_pings EXCEPT ![p] = NoFuture] /\ x # NoFuture
    BY Zenon, <1>16, FutureKinds DEF PongIn, NextFrame
  <2>1. f.op = "data" /\ f.acks = acks
    BY Zenon DEF DataFrame
  <2>2. (stack[1].fast => Swaps(f)) /\ (~stack[1].fast => Stays)
    BY <1>16, PongMoves, Zenon
  <2> HIDE DEF f
  <2>3. fut[x] = "pending" /\ (~stack[1].fast => x # pending_pings[p])
    <3>1. (stack[1].fast => fut' = fut) /\ (~stack[1].fast => fut' = Settle(fut, {pending_pings[p]} \ {NoFuture}, "result"))
      BY <1>16, Zenon DEF PongIn
    <3> QED BY Zenon, <1>0, <2>0, <3>1 DEF Settle
  <2>4. CASE x = pending_pings[p]
    <3>1. stack[1].fast /\ x \in acks
      BY Zenon, <2>0, <2>3, <2>4
    <3> QED BY <1>0, <2>1, <2>2, <3>1, InNewTop, Zenon DEF Holds
  <2>5. CASE x # pending_pings[p]
    <3>1. UNCHANGED <<pending_recv, unprobeable_recv, handshake_fut>>
      BY Zenon, <1>16 DEF PongIn
    <3>2. x \in TakePending => x \in TakePending'
      BY Zenon, <1>0, <2>0, <2>5, <3>1 DEF TakePending, TypePings
    <3>3. f \in Frame \/ ~stack[1].fast
      BY <2>2, Zenon DEF Swaps
    <3>4. Holds(stack[1], x) => Holds(f, x)
      BY Zenon, <2>0, <2>1 DEF Holds
    <3> QED BY <1>0, <2>2, <2>3, <3>2, <3>3, <3>4, InFramesKept, Zenon
  <2> QED BY Zenon, <2>4, <2>5
<1>17. CASE DataEnd
  <2> SUFFICES ASSUME NEW x \in Futures, fut'[x] = "pending" PROVE x \in TakePending' \/ InFrames(x)'
    BY Zenon, ReachableNext
  <2>1. fut[x] = "pending" /\ x \notin stack[1].acks /\ Mode("data")
    BY Zenon, <1>17, <1>0 DEF DataEnd, EndScan, Settle
  <2>2. TakePending' = TakePending
    <3>1. UNCHANGED <<pending_recv, unprobeable_recv, handshake_fut, pending_pings>>
      BY Zenon, <1>17 DEF DataEnd
    <3> QED BY Zenon, <3>1 DEF TakePending
  <2> QED BY <1>0, <2>1, <2>2, InTopOnly, Zenon
<1>18. CASE FallBack
  <2> SUFFICES ASSUME NEW x \in Futures, fut'[x] = "pending" PROVE x \in TakePending' \/ InFrames(x)'
    BY Zenon, ReachableNext
  <2>1. fut[x] = "pending" /\ x \notin stack[1].acks /\ Mode("data")
    BY Zenon, <1>18, <1>0 DEF FallBack, EndScan, Settle
  <2>2. TakePending' = TakePending
    <3>1. UNCHANGED <<pending_recv, unprobeable_recv, handshake_fut, pending_pings>>
      BY Zenon, <1>18 DEF FallBack
    <3> QED BY Zenon, <3>1 DEF TakePending
  <2> QED BY <1>0, <2>1, <2>2, InTopOnly, Zenon
<1>19. CASE CloseIn
  <2> SUFFICES ASSUME NEW x \in Futures, fut'[x] = "pending" PROVE x \in TakePending' \/ InFrames(x)'
    BY Zenon, ReachableNext
  <2>1. fut[x] = "pending" /\ x \notin stack[1].acks /\ Mode("data")
    BY Zenon, <1>19, <1>0 DEF CloseIn, NextFrame, EndScan, Settle
  <2>2. x \in TakePending
    BY <1>0, <2>1, InTopOnly, Zenon
  <2> DEFINE f == FlushFrame("peer_close", TakePending, transport)
  <2>3. f.op = "flush" /\ f.pending = TakePending
    BY Zenon DEF FlushFrame
  <2> HIDE DEF f
  <2>4. Swaps(f)
    BY <1>19, ActionMoves, Zenon DEF f
  <2>5. Holds(f, x)
    BY Zenon, <2>2, <2>3 DEF Holds
  <2> QED BY <1>0, <2>4, <2>5, InNewTop, Zenon
<1>20. CASE ProtocolErrorIn
  <2> SUFFICES ASSUME NEW x \in Futures, fut'[x] = "pending" PROVE x \in TakePending' \/ InFrames(x)'
    BY Zenon, ReachableNext
  <2>0. fut[x] = "pending" /\ Mode("data") /\ ~stack[1].fast
    BY Zenon, <1>20 DEF ProtocolErrorIn, NextFrame
  <2>1. fut[x] = "pending" /\ x \notin stack[1].acks /\ Mode("data")
    BY Zenon, <1>0, <2>0, InTopOnly
  <2>2. x \in TakePending
    BY <1>0, <2>1, InTopOnly, Zenon
  <2> DEFINE f == FlushFrame("protocol_error", TakePending, transport)
  <2>3. f.op = "flush" /\ f.pending = TakePending
    BY Zenon DEF FlushFrame
  <2> HIDE DEF f
  <2>4. Swaps(f)
    BY <1>20, ActionMoves, Zenon DEF f
  <2>5. Holds(f, x)
    BY Zenon, <2>2, <2>3 DEF Holds
  <2> QED BY <1>0, <2>4, <2>5, InNewTop, Zenon
<1>21. CASE FlushPop \/ CallbackReturn
  <2> SUFFICES ASSUME NEW x \in Futures, fut'[x] = "pending" PROVE x \in TakePending' \/ InFrames(x)'
    BY Zenon, ReachableNext
  <2>1. fut[x] = "pending"
    BY Zenon, <1>21, <1>0 DEF FlushPop, CallbackReturn
  <2>2. TakePending' = TakePending
    <3>1. UNCHANGED <<pending_recv, unprobeable_recv, handshake_fut, pending_pings>>
      BY Zenon, <1>21 DEF FlushPop, CallbackReturn
    <3> QED BY Zenon, <3>1 DEF TakePending
  <2>3. \E f \in Frame : Swaps(f) /\ (Holds(stack[1], x) => Holds(f, x))
    <3>1. PICK f \in Frame : Swaps(f) /\ SameFlush(f, stack[1])
      BY <1>21, ActionMoves, Zenon
    <3>3. stack[1].op = "flush"
      BY Zenon, <1>21 DEF FlushPop, CallbackReturn
    <3>2. Holds(stack[1], x) => Holds(f, x)
      BY Zenon, <3>1, <3>3 DEF SameFlush, Holds
    <3> QED BY Zenon, <3>1, <3>2
  <2> QED BY <1>0, <2>1, <2>2, <2>3, InFramesKept, Zenon
<1>22. CASE FlushReturn
  <2> SUFFICES ASSUME NEW x \in Futures, fut'[x] = "pending" PROVE x \in TakePending' \/ InFrames(x)'
    BY Zenon, ReachableNext
  <2>1. fut[x] = "pending"
    BY Zenon, <1>22, <1>0 DEF FlushReturn
  <2>2. TakePending' = TakePending
    <3>1. UNCHANGED <<pending_recv, unprobeable_recv, handshake_fut, pending_pings>>
      BY Zenon, <1>22 DEF FlushReturn
    <3> QED BY Zenon, <3>1 DEF TakePending
  <2>3. Pops /\ ~Holds(stack[1], x)
    <3>1. Pops
      BY <1>22, ActionMoves, Zenon
    <3> QED BY Zenon, <1>22, <1>0, <3>1, HasTop DEF FlushReturn, Holds, StackShape, IsTeardown
  <2> QED BY <1>0, <2>1, <2>2, <2>3, InFramesKept, Zenon
<1>23. CASE FlushApplyClose
  <2> SUFFICES ASSUME NEW x \in Futures, fut'[x] = "pending" PROVE x \in TakePending' \/ InFrames(x)'
    BY Zenon, ReachableNext
  <2>1. fut[x] = "pending" /\ x \notin stack[1].pending /\ stack[1].op = "flush"
    BY Zenon, <1>23, <1>0 DEF FlushApplyClose, Settle
  <2>2. TakePending' = TakePending
    <3>1. UNCHANGED <<pending_recv, unprobeable_recv, handshake_fut, pending_pings>>
      BY Zenon, <1>23 DEF FlushApplyClose
    <3> QED BY Zenon, <3>1 DEF TakePending
  <2>3. Pops /\ ~Holds(stack[1], x)
    <3>1. Pops
      BY <1>23, ActionMoves, Zenon
    <3> QED BY Zenon, <2>1, <3>1 DEF Holds
  <2> QED BY <1>0, <2>1, <2>2, <2>3, InFramesKept, Zenon
<1>24. CASE FlushLost
  <2> SUFFICES ASSUME NEW x \in Futures, fut'[x] = "pending" PROVE x \in TakePending' \/ InFrames(x)'
    BY Zenon, ReachableNext
  <2>1. fut[x] = "pending" /\ x \notin TakePending
    BY Zenon, <1>24, <1>0 DEF FlushLost, Settle
  <2>2. Pops
    BY <1>24, ActionMoves, Zenon
  <2>3. ~Holds(stack[1], x)
    BY Zenon, <1>24, <1>0, HasTop DEF FlushLost, Holds, StackShape, IsTeardown
  <2> QED BY <1>0, <2>1, <2>2, <2>3, InFramesKept, Zenon
<1>25. CASE UNCHANGED vars
  BY <1>25, Zenon DEF vars, PendingReachable, TakePending
<1> QED BY Zenon, <1>1, <1>2, <1>3, <1>4, <1>5, <1>6, <1>7, <1>8, <1>9, <1>10, <1>11, <1>12, <1>13,
     <1>14, <1>15, <1>16, <1>17, <1>18, <1>19, <1>20, <1>21, <1>22, <1>23, <1>24, <1>25 DEF Next,
     InnerStep, Application, EventLoop

-----------------------------------------------------------------------------
(* Messages, receivers, callbacks and Close frames.                         *)

(* Appending to and taking from a queue of messages. *)
LEMMA QueueFacts ==
  \A s \in Seq(Nat) :
    /\ Len(s) \in Nat /\ (s = <<>> <=> Len(s) = 0) /\ (\A i \in 1..Len(s) : s[i] \in Nat)
    /\ \A n \in Nat : /\ Append(s, n) \in Seq(Nat) /\ Append(s, n) # <<>>
                      /\ Len(Append(s, n)) = Len(s) + 1 /\ Append(s, n)[Len(s) + 1] = n
                      /\ \A i \in 1..Len(s) : Append(s, n)[i] = s[i]
    /\ s # <<>> => /\ Head(s) = s[1] /\ Len(s) >= 1 /\ Tail(s) \in Seq(Nat)
                   /\ Len(Tail(s)) = Len(s) - 1
                   /\ \A i \in 1..(Len(s) - 1) : Tail(s)[i] = s[i + 1]
<1> TAKE s \in Seq(Nat)
<1>1. Len(s) \in Nat /\ (s = <<>> <=> Len(s) = 0) /\ (\A i \in 1..Len(s) : s[i] \in Nat)
  OBVIOUS
<1>2. ASSUME NEW n \in Nat
      PROVE  /\ Append(s, n) \in Seq(Nat) /\ Append(s, n) # <<>>
             /\ Len(Append(s, n)) = Len(s) + 1 /\ Append(s, n)[Len(s) + 1] = n
             /\ \A i \in 1..Len(s) : Append(s, n)[i] = s[i]
  BY AppendProperties
<1>3. ASSUME s # <<>>
      PROVE  /\ Head(s) = s[1] /\ Len(s) >= 1 /\ Tail(s) \in Seq(Nat)
             /\ Len(Tail(s)) = Len(s) - 1
             /\ \A i \in 1..(Len(s) - 1) : Tail(s)[i] = s[i + 1]
  BY <1>3
<1> QED BY Zenon, <1>1, <1>2, <1>3

(* The empty queue. *)
LEMMA NoQueue == Len(<<>>) = 0 /\ <<>> \in Seq(Nat)
OBVIOUS

(* When a live receiver is parked the backlog is empty, so the message it takes is the next one. *)
LEMMA LiveMeansDrained ==
  TypeOK /\ NoLostWakeup =>
    \A r \in pending_recv : TakeLiveReceiver(r) => Live(r) /\ r \in Receivers /\ backlog = <<>>
<1> SUFFICES ASSUME TypeOK, NoLostWakeup, NEW r \in pending_recv, TakeLiveReceiver(r)
             PROVE  Live(r) /\ r \in Receivers /\ backlog = <<>>
  OBVIOUS
<1>1. r \in Receivers /\ r # 0
  BY DEF TypeOK, TypeParked, Receivers
<1>2. Live(r)
  BY Zenon, <1>1 DEF TakeLiveReceiver, LiveReceivers
<1> QED BY Zenon, <1>1, <1>2 DEF NoLostWakeup, Live

(* Every handler keeps the messages parsed in order, each once, across the three queues. *)
LEMMA StreamStep ==
  TypeOK /\ StackShape /\ NoLostWakeup /\ Stream /\ Stock /\ [Next]_vars => Stream'
<1> SUFFICES ASSUME TypeOK, StackShape, NoLostWakeup, Stream, Stock, [Next]_vars PROVE Stream'
  OBVIOUS
<1>0. /\ backlog \in Seq(Nat) /\ pending_callback_msgs \in Seq(Nat) /\ delivered \in Seq(Nat)
      /\ arrived \in Nat /\ dropped \in Nat /\ TypeStack /\ Stream
  BY Zenon DEF TypeOK, TypeMsgs
<1>a. Advances
  BY Zenon, AlwaysAdvances
<1>b. /\ \A i \in 1..Len(delivered) : delivered[i] = i
      /\ \A i \in 1..Len(backlog) : backlog[i] = Len(delivered) + i
      /\ \A i \in 1..Len(pending_callback_msgs) :
           pending_callback_msgs[i] = Len(delivered) + Len(backlog) + i
      /\ Len(delivered) + Len(backlog) + Len(pending_callback_msgs) = arrived - dropped
      /\ on_message => backlog = <<>>
      /\ ~on_message => pending_callback_msgs = <<>>
      /\ dropped > 0 => closed
      /\ Len(delivered) \in Nat /\ Len(backlog) \in Nat /\ Len(pending_callback_msgs) \in Nat
  BY Zenon, <1>0, QueueFacts DEF Stream
<1>d. /\ Len(delivered) + Len(backlog) + Len(pending_callback_msgs) = arrived - dropped
      /\ Len(delivered) \in Nat /\ Len(backlog) \in Nat /\ Len(pending_callback_msgs) \in Nat
      /\ arrived \in Nat /\ dropped \in Nat
  BY Zenon, <1>0, <1>b
<1>1. CASE ConnectionMade \/ HelperReturn \/ RecvCall \/ RecvPark \/ PingDone \/ PingRegister
  <2>1. UNCHANGED <<delivered, backlog, pending_callback_msgs, arrived, dropped, on_message>> /\ (closed => closed')
    BY Zenon, <1>1, <1>a DEF ConnectionMade, HelperReturn, RecvCall, RecvPark, PingDone, PingRegister,
         Advances
  <2> QED BY Zenon, <1>0, <2>1 DEF Stream
<1>2. CASE Close \/ HelperRaise
  <2>1. closed'
    BY Zenon, <1>2, <1>0, HasTop DEF Close, HelperRaise, DoClose
  <2>2. /\ pending_callback_msgs' = <<>> /\ dropped' = dropped + Len(pending_callback_msgs)
        /\ ~on_message' /\ UNCHANGED <<delivered, backlog, arrived>>
    BY Zenon, <1>2 DEF Close, HelperRaise, DoClose, ReleaseReferences
  <2>3. Len(delivered) \in Nat /\ Len(backlog) \in Nat /\ Len(pending_callback_msgs) \in Nat
    BY Zenon, <1>0, QueueFacts
  <2> QED BY SMTT(30), <1>0, <2>1, <2>2, <2>3, NoQueue DEF Stream
<1>3. CASE RecvReady
  <2>1. /\ backlog # <<>> /\ delivered' = Append(delivered, Head(backlog)) /\ backlog' = Tail(backlog)
        /\ UNCHANGED <<pending_callback_msgs, arrived, dropped, on_message, closed>>
    BY Zenon, <1>3 DEF RecvReady
  <2>2. Head(backlog) = Len(delivered) + 1 /\ Head(backlog) \in Nat /\ Len(delivered) \in Nat
    BY <1>0, <2>1, QueueFacts DEF Stream
  <2>3. /\ Len(delivered') = Len(delivered) + 1 /\ Len(backlog') = Len(backlog) - 1
        /\ \A i \in 1..Len(delivered) : delivered'[i] = delivered[i]
        /\ delivered'[Len(delivered) + 1] = Len(delivered) + 1
        /\ \A i \in 1..(Len(backlog) - 1) : backlog'[i] = backlog[i + 1]
        /\ Len(backlog) \in Nat /\ Len(pending_callback_msgs) \in Nat
    BY SMTT(30), <1>0, <2>1, <2>2, QueueFacts
  <2>4. on_message => FALSE
    BY Zenon, <1>0, <2>1 DEF Stream
  <2>11. \A i \in 1..Len(delivered') : delivered'[i] = i
    BY SMTT(30), <1>0, <2>1, <2>2, <2>3, <2>4, <1>b
  <2>12. \A i \in 1..Len(backlog') : backlog'[i] = Len(delivered') + i
    BY <1>0, <2>1, <2>2, <2>3, <2>4, <1>b
  <2>13. \A i \in 1..Len(pending_callback_msgs') :
          pending_callback_msgs'[i] = Len(delivered') + Len(backlog') + i
    BY SMTT(30), <1>0, <2>1, <2>2, <2>3, <2>4, <1>b
  <2>14. Len(delivered') + Len(backlog') + Len(pending_callback_msgs') = arrived' - dropped'
    BY SMTT(30), <2>1, <2>2, <2>3, <2>4, <1>d
  <2>15. /\ on_message' => backlog' = <<>>
         /\ ~on_message' => pending_callback_msgs' = <<>>
         /\ dropped' > 0 => closed'
    BY Zenon, <1>0, <2>1, <2>2, <2>3, <2>4, <1>b
  <2> QED BY <2>11, <2>12, <2>13, <2>14, <2>15, Zenon DEF Stream
<1>4. ASSUME NEW f \in Receivers \cup Probes, Cancel(f) PROVE Stream'
  <2>1. UNCHANGED <<delivered, backlog, pending_callback_msgs, arrived, dropped, on_message>> /\ (closed => closed')
    BY Zenon, <1>4, <1>a DEF Cancel, Advances
  <2> QED BY Zenon, <1>0, <2>1 DEF Stream
<1>5. ASSUME NEW p \in Payloads, PingCall(p) PROVE Stream'
  <2>1. UNCHANGED <<delivered, backlog, pending_callback_msgs, arrived, dropped, on_message>> /\ (closed => closed')
    BY Zenon, <1>5, <1>a DEF PingCall, Advances
  <2> QED BY Zenon, <1>0, <2>1 DEF Stream
<1>6. CASE PingWritten \/ PingWriteFails \/ DataReceived \/ HandshakeIn \/ PingIn \/ OtherIn
  <2>1. UNCHANGED <<delivered, backlog, pending_callback_msgs, arrived, dropped, on_message>> /\ (closed => closed')
    BY Zenon, <1>6, <1>a DEF PingWritten, PingWriteFails, DataReceived, HandshakeIn, PingIn, OtherIn,
         Advances
  <2> QED BY Zenon, <1>0, <2>1 DEF Stream
<1>7. ASSUME NEW q \in Probes, RunCleanup(q) PROVE Stream'
  <2>1. UNCHANGED <<delivered, backlog, pending_callback_msgs, arrived, dropped, on_message>> /\ (closed => closed')
    BY Zenon, <1>7, <1>a DEF RunCleanup, Advances
  <2> QED BY Zenon, <1>0, <2>1 DEF Stream
<1>8. CASE MessageIn
  <2>1. ~closed /\ dropped = 0
    BY <1>8, <1>0, ParsingAlone DEF MessageIn, NextFrame, Stream
  <2>2. arrived' = arrived + 1 /\ UNCHANGED <<dropped, on_message, closed>>
    BY Zenon, <1>8 DEF MessageIn
  <2>3. Len(delivered) \in Nat /\ Len(backlog) \in Nat /\ Len(pending_callback_msgs) \in Nat
    BY Zenon, <1>0, QueueFacts
  <2>4. CASE on_message /\ pending_callback_msgs' = Append(pending_callback_msgs, arrived + 1)
               /\ UNCHANGED <<backlog, delivered>>
    <3>1. /\ Len(pending_callback_msgs') = Len(pending_callback_msgs) + 1
          /\ pending_callback_msgs'[Len(pending_callback_msgs) + 1] = arrived + 1
          /\ \A i \in 1..Len(pending_callback_msgs) : pending_callback_msgs'[i] = pending_callback_msgs[i]
      BY SMTT(30), <1>0, <2>4, QueueFacts
    <3>11. \A i \in 1..Len(delivered') : delivered'[i] = i
      BY Zenon, <1>0, <2>1, <2>2, <2>3, <2>4, <3>1, <1>b
    <3>12. \A i \in 1..Len(backlog') : backlog'[i] = Len(delivered') + i
      BY Zenon, <1>0, <2>1, <2>2, <2>3, <2>4, <3>1, <1>b
    <3>13. \A i \in 1..Len(pending_callback_msgs') :
          pending_callback_msgs'[i] = Len(delivered') + Len(backlog') + i
      <4>1. arrived + 1 = Len(delivered) + Len(backlog) + (Len(pending_callback_msgs) + 1)
        BY <1>d, <2>1
      <4>2. Len(delivered') = Len(delivered) /\ Len(backlog') = Len(backlog)
        BY Zenon, <2>4
      <4> QED BY SMTT(30), <1>b, <2>3, <3>1, <4>1, <4>2
    <3>14. Len(delivered') + Len(backlog') + Len(pending_callback_msgs') = arrived' - dropped'
      BY <2>1, <2>2, <2>3, <2>4, <3>1, <1>d
    <3>15. /\ on_message' => backlog' = <<>>
           /\ ~on_message' => pending_callback_msgs' = <<>>
           /\ dropped' > 0 => closed'
      BY Zenon, <1>0, <2>1, <2>2, <2>3, <2>4, <3>1, <1>b
    <3> QED BY <3>11, <3>12, <3>13, <3>14, <3>15, Zenon DEF Stream
  <2>5. CASE ~on_message /\ backlog' = Append(backlog, arrived + 1)
               /\ UNCHANGED <<pending_callback_msgs, delivered>>
    <3>1. /\ Len(backlog') = Len(backlog) + 1 /\ backlog'[Len(backlog) + 1] = arrived + 1
          /\ \A i \in 1..Len(backlog) : backlog'[i] = backlog[i]
      BY SMTT(30), <1>0, <2>5, QueueFacts
    <3>2. pending_callback_msgs = <<>> /\ Len(pending_callback_msgs) = 0
      BY Zenon, <1>0, <2>5, NoQueue DEF Stream
    <3>11. \A i \in 1..Len(delivered') : delivered'[i] = i
      BY Zenon, <1>0, <2>1, <2>2, <2>3, <2>5, <3>1, <3>2, <1>b
    <3>12. \A i \in 1..Len(backlog') : backlog'[i] = Len(delivered') + i
      <4>1. arrived + 1 = Len(delivered) + (Len(backlog) + 1) /\ Len(delivered') = Len(delivered)
        BY SMTT(30), <1>d, <2>1, <2>5, <3>2
      <4> QED BY SMTT(30), <1>b, <2>3, <3>1, <4>1
    <3>13. \A i \in 1..Len(pending_callback_msgs') :
          pending_callback_msgs'[i] = Len(delivered') + Len(backlog') + i
      BY SMTT(30), <1>0, <2>1, <2>2, <2>3, <2>5, <3>1, <3>2, <1>b
    <3>14. Len(delivered') + Len(backlog') + Len(pending_callback_msgs') = arrived' - dropped'
      BY SMTT(30), <2>1, <2>2, <2>3, <2>5, <3>1, <3>2, <1>d
    <3>15. /\ on_message' => backlog' = <<>>
           /\ ~on_message' => pending_callback_msgs' = <<>>
           /\ dropped' > 0 => closed'
      BY Zenon, <1>0, <2>1, <2>2, <2>3, <2>5, <3>1, <3>2, <1>b
    <3> QED BY <3>11, <3>12, <3>13, <3>14, <3>15, Zenon DEF Stream
  <2>6. CASE ~on_message /\ backlog = <<>> /\ delivered' = Append(delivered, arrived + 1)
               /\ UNCHANGED <<backlog, pending_callback_msgs>>
    <3>1. /\ Len(delivered') = Len(delivered) + 1 /\ delivered'[Len(delivered) + 1] = arrived + 1
          /\ \A i \in 1..Len(delivered) : delivered'[i] = delivered[i]
      BY SMTT(30), <1>0, <2>6, QueueFacts
    <3>2. pending_callback_msgs = <<>> /\ Len(pending_callback_msgs) = 0 /\ Len(backlog) = 0
      BY Zenon, <1>0, <2>6, NoQueue DEF Stream
    <3>11. \A i \in 1..Len(delivered') : delivered'[i] = i
      BY SMTT(30), <1>0, <2>1, <2>2, <2>3, <2>6, <3>1, <3>2, <1>b
    <3>12. \A i \in 1..Len(backlog') : backlog'[i] = Len(delivered') + i
      BY SMTT(30), <1>0, <2>1, <2>2, <2>3, <2>6, <3>1, <3>2, <1>b
    <3>13. \A i \in 1..Len(pending_callback_msgs') :
          pending_callback_msgs'[i] = Len(delivered') + Len(backlog') + i
      BY SMTT(30), <1>0, <2>1, <2>2, <2>3, <2>6, <3>1, <3>2, <1>b
    <3>14. Len(delivered') + Len(backlog') + Len(pending_callback_msgs') = arrived' - dropped'
      BY SMTT(30), <2>1, <2>2, <2>3, <2>6, <3>1, <3>2, <1>d
    <3>15. /\ on_message' => backlog' = <<>>
           /\ ~on_message' => pending_callback_msgs' = <<>>
           /\ dropped' > 0 => closed'
      BY Zenon, <1>0, <2>1, <2>2, <2>3, <2>6, <3>1, <3>2, <1>b
    <3> QED BY <3>11, <3>12, <3>13, <3>14, <3>15, Zenon DEF Stream
  <2>7. ASSUME ~on_message, NEW r \in pending_recv \ Rejecting, TakeLiveReceiver(r),
               IF fut[r] = "pending"
               THEN /\ got' = [got EXCEPT ![r] = arrived + 1]
                    /\ delivered' = Append(delivered, arrived + 1)
               ELSE UNCHANGED <<got, delivered>>,
               UNCHANGED <<backlog, pending_callback_msgs>>
        PROVE  Stream'
    <3>1. Live(r) /\ backlog = <<>>
      BY Zenon, <2>7, LiveMeansDrained
    <3> QED BY Zenon, <2>6, <2>7, <3>1 DEF Live
  <2> QED BY Zenon, <1>8, <2>4, <2>5, <2>7 DEF MessageIn
<1>9. CASE MessageRejected
  BY Zenon, <1>9 DEF MessageRejected, Stock
<1>10. ASSUME NEW p \in Payloads, PongIn(p) PROVE Stream'
  <2>1. UNCHANGED <<delivered, backlog, pending_callback_msgs, arrived, dropped, on_message>> /\ (closed => closed')
    BY Zenon, <1>10, <1>a DEF PongIn, Advances
  <2> QED BY Zenon, <1>0, <2>1 DEF Stream
<1>11. CASE DataEnd \/ FallBack \/ CallbackReturn \/ FlushReturn \/ ConnectionLost
  <2>1. UNCHANGED <<delivered, backlog, pending_callback_msgs, arrived, dropped, on_message>> /\ (closed => closed')
    BY Zenon, <1>11, <1>a DEF DataEnd, FallBack, CallbackReturn, FlushReturn, ConnectionLost, Advances
  <2> QED BY Zenon, <1>0, <2>1 DEF Stream
<1>12. CASE CloseIn \/ ProtocolErrorIn
  <2>1. UNCHANGED <<delivered, backlog, pending_callback_msgs, arrived, dropped, on_message>> /\ (closed => closed')
    BY Zenon, <1>12, <1>a DEF CloseIn, ProtocolErrorIn, BeginClose, Advances
  <2> QED BY Zenon, <1>0, <2>1 DEF Stream
<1>13. CASE FlushPop
  <2>1. /\ on_message /\ pending_callback_msgs # <<>>
        /\ delivered' = Append(delivered, Head(pending_callback_msgs))
        /\ pending_callback_msgs' = Tail(pending_callback_msgs)
        /\ UNCHANGED <<backlog, arrived, dropped, on_message, closed>>
    BY Zenon, <1>13 DEF FlushPop
  <2>2. backlog = <<>> /\ Len(backlog) = 0
    BY Zenon, <1>0, <2>1, NoQueue DEF Stream
  <2>3. Head(pending_callback_msgs) = Len(delivered) + 1 /\ Len(delivered) \in Nat
    BY SMTT(30), <1>0, <2>1, <2>2, QueueFacts DEF Stream
  <2>4. /\ Len(delivered') = Len(delivered) + 1
        /\ Len(pending_callback_msgs') = Len(pending_callback_msgs) - 1
        /\ \A i \in 1..Len(delivered) : delivered'[i] = delivered[i]
        /\ delivered'[Len(delivered) + 1] = Len(delivered) + 1
        /\ \A i \in 1..(Len(pending_callback_msgs) - 1) :
             pending_callback_msgs'[i] = pending_callback_msgs[i + 1]
        /\ Len(pending_callback_msgs) \in Nat
    BY SMTT(30), <1>0, <2>1, <2>3, QueueFacts
  <2>11. \A i \in 1..Len(delivered') : delivered'[i] = i
    BY SMTT(30), <1>0, <2>1, <2>2, <2>3, <2>4, <1>b
  <2>12. \A i \in 1..Len(backlog') : backlog'[i] = Len(delivered') + i
    BY SMTT(30), <1>0, <2>1, <2>2, <2>3, <2>4, <1>b
  <2>13. \A i \in 1..Len(pending_callback_msgs') :
          pending_callback_msgs'[i] = Len(delivered') + Len(backlog') + i
    BY SMTT(30), <1>0, <2>1, <2>2, <2>3, <2>4, <1>b
  <2>14. Len(delivered') + Len(backlog') + Len(pending_callback_msgs') = arrived' - dropped'
    BY SMTT(30), <2>1, <2>2, <2>3, <2>4, <1>d
  <2>15. /\ on_message' => backlog' = <<>>
         /\ ~on_message' => pending_callback_msgs' = <<>>
         /\ dropped' > 0 => closed'
    BY Zenon, <1>0, <2>1, <2>2, <2>3, <2>4, <1>b
  <2> QED BY <2>11, <2>12, <2>13, <2>14, <2>15, Zenon DEF Stream
<1>14. CASE FlushApplyClose
  <2>1. closed'
    BY Zenon, <1>14, <1>0, HasTop DEF FlushApplyClose, StackShape, IsTeardown
  <2>2. /\ pending_callback_msgs' = <<>> /\ dropped' = dropped + Len(pending_callback_msgs)
        /\ ~on_message' /\ UNCHANGED <<delivered, backlog, arrived>>
    BY Zenon, <1>14 DEF FlushApplyClose, ReleaseReferences
  <2>3. Len(delivered) \in Nat /\ Len(backlog) \in Nat /\ Len(pending_callback_msgs) \in Nat
    BY Zenon, <1>0, QueueFacts
  <2> QED BY SMTT(30), <1>0, <2>1, <2>2, <2>3, NoQueue DEF Stream
<1>15. CASE FlushLost
  <2>1. closed'
    BY Zenon, <1>15, <1>0, HasTop DEF FlushLost
  <2>2. /\ pending_callback_msgs' = <<>> /\ dropped' = dropped + Len(pending_callback_msgs)
        /\ ~on_message' /\ UNCHANGED <<delivered, backlog, arrived>>
    BY Zenon, <1>15 DEF FlushLost, ReleaseReferences
  <2>3. Len(delivered) \in Nat /\ Len(backlog) \in Nat /\ Len(pending_callback_msgs) \in Nat
    BY Zenon, <1>0, QueueFacts
  <2> QED BY SMTT(30), <1>0, <2>1, <2>2, <2>3, NoQueue DEF Stream
<1>16. CASE UNCHANGED vars
  BY Zenon, <1>16, <1>0 DEF vars, Stream
<1> QED BY Zenon, <1>1, <1>2, <1>3, <1>4, <1>5, <1>6, <1>7, <1>8, <1>9, <1>10, <1>11, <1>12, <1>13,
     <1>14, <1>15, <1>16 DEF Next, InnerStep, Application, EventLoop

(* No handler leaves a live receiver parked beside a message. *)
LEMMA NoLostWakeupStep ==
  TypeOK /\ StackShape /\ NoLostWakeup /\ Stock /\ [Next]_vars => NoLostWakeup'
<1> SUFFICES ASSUME TypeOK, StackShape, NoLostWakeup, Stock, [Next]_vars PROVE NoLostWakeup'
  OBVIOUS
<1>0. /\ TypeParked /\ TypePings /\ TypeStack /\ NoLostWakeup
      /\ fut \in [Futures -> Status] /\ pending_recv \subseteq Receivers /\ Receivers \subseteq Futures
  BY Zenon, FutureKinds DEF TypeOK, TypeFutures, TypeParked
<1>1. CASE ConnectionMade \/ HelperReturn \/ RecvCall \/ PingDone \/ PingWritten \/ DataReceived
  <2>1. UNCHANGED <<backlog, pending_recv>>
    BY Zenon, <1>1 DEF ConnectionMade, HelperReturn, RecvCall, PingDone, PingWritten, DataReceived
  <2>2. \A r \in pending_recv : fut'[r] = "pending" => fut[r] = "pending"
    BY Zenon, <1>1, <1>0 DEF ConnectionMade, HelperReturn, RecvCall, PingDone, PingWritten, DataReceived
  <2> QED BY Zenon, <1>0, <2>1, <2>2 DEF NoLostWakeup
<1>2. CASE Close \/ HelperRaise
  <2>1. pending_recv' = {}
    BY Zenon, <1>2 DEF Close, HelperRaise, ClearPending, DoClose
  <2> QED BY Zenon, <2>1 DEF NoLostWakeup
<1>3. CASE RecvReady
  <2>1. pending_recv' = pending_recv /\ backlog # <<>>
    BY Zenon, <1>3 DEF RecvReady
  <2>2. \A r \in pending_recv : fut'[r] = "pending" => fut[r] = "pending"
    BY Zenon, <1>3, <1>0 DEF RecvReady
  <2> QED BY Zenon, <1>0, <2>1, <2>2 DEF NoLostWakeup
<1>4. CASE RecvPark
  <2>1. backlog = <<>> /\ backlog' = backlog
    <3>1. Mode("recv") /\ backlog' = backlog
      BY Zenon, <1>4 DEF RecvPark
    <3> QED BY Zenon, <3>1, <1>0, HasTop DEF Mode, StackShape
  <2> QED BY Zenon, <2>1 DEF NoLostWakeup
<1>5. ASSUME NEW f \in Receivers \cup Probes, Cancel(f) PROVE NoLostWakeup'
  <2>1. UNCHANGED <<backlog, pending_recv>>
    BY Zenon, <1>5 DEF Cancel
  <2>2. \A r \in pending_recv : fut'[r] = "pending" => fut[r] = "pending"
    BY Zenon, <1>5, <1>0 DEF Cancel, Settle
  <2> QED BY Zenon, <1>0, <2>1, <2>2 DEF NoLostWakeup
<1>6. ASSUME NEW p \in Payloads, PingCall(p) PROVE NoLostWakeup'
  <2>1. UNCHANGED <<backlog, pending_recv>>
    BY Zenon, <1>6 DEF PingCall
  <2>2. \A r \in pending_recv : fut'[r] = "pending" => fut[r] = "pending"
    BY Zenon, <1>6, <1>0 DEF PingCall
  <2> QED BY Zenon, <1>0, <2>1, <2>2 DEF NoLostWakeup
<1>7. CASE PingRegister
  <2>1. UNCHANGED <<backlog, pending_recv>>
    BY Zenon, <1>7 DEF PingRegister
  <2>2. MaxRecv + probes + 1 \notin Receivers
    BY Zenon, <1>7, <1>0, NextProbe, FutureKinds DEF PingRegister
  <2>3. \A r \in pending_recv : fut'[r] = fut[r]
    BY Zenon, <1>7, <1>0, <2>2 DEF PingRegister
  <2> QED BY Zenon, <1>0, <2>1, <2>3 DEF NoLostWakeup
<1>8. CASE PingWriteFails \/ HandshakeIn \/ FlushApplyClose
  <2>1. UNCHANGED <<backlog, pending_recv>>
    BY Zenon, <1>8 DEF PingWriteFails, HandshakeIn, FlushApplyClose
  <2>2. \A r \in pending_recv : fut'[r] = "pending" => fut[r] = "pending"
    BY Zenon, <1>8, <1>0 DEF PingWriteFails, HandshakeIn, FlushApplyClose, Settle
  <2> QED BY Zenon, <1>0, <2>1, <2>2 DEF NoLostWakeup
<1>9. ASSUME NEW q \in Probes, RunCleanup(q) PROVE NoLostWakeup'
  <2>1. UNCHANGED <<backlog, pending_recv>>
    BY Zenon, <1>9 DEF RunCleanup
  <2>2. \A r \in pending_recv : fut'[r] = "pending" => fut[r] = "pending"
    BY Zenon, <1>9, <1>0 DEF RunCleanup
  <2> QED BY Zenon, <1>0, <2>1, <2>2 DEF NoLostWakeup
<1>10. CASE MessageIn
  <2>1. \/ UNCHANGED <<pending_recv, fut, backlog>>
        \/ TakeLiveReceiver(0)
        \/ \E r \in pending_recv : /\ TakeLiveReceiver(r) /\ fut' = Settle(fut, {r}, "result")
                                   /\ UNCHANGED backlog
    BY Zenon, <1>10 DEF MessageIn
  <2>2. CASE UNCHANGED <<pending_recv, fut, backlog>>
    BY Zenon, <1>0, <2>2 DEF NoLostWakeup
  <2>3. CASE TakeLiveReceiver(0)
    BY Zenon, <2>3 DEF TakeLiveReceiver, NoLostWakeup
  <2>4. ASSUME NEW r \in pending_recv, TakeLiveReceiver(r), UNCHANGED backlog PROVE NoLostWakeup'
    <3>1. backlog = <<>>
      BY Zenon, <2>4, LiveMeansDrained
    <3> QED BY Zenon, <2>4, <3>1 DEF NoLostWakeup
  <2> QED BY Zenon, <2>1, <2>2, <2>3, <2>4
<1>11. CASE MessageRejected
  BY Zenon, <1>11 DEF MessageRejected, Stock
<1>12. CASE PingIn \/ OtherIn \/ FlushPop \/ CallbackReturn \/ FlushReturn \/ ConnectionLost
  <2>1. UNCHANGED <<backlog, pending_recv>>
    BY Zenon, <1>12 DEF PingIn, OtherIn, FlushPop, CallbackReturn, FlushReturn, ConnectionLost
  <2>2. \A r \in pending_recv : fut'[r] = "pending" => fut[r] = "pending"
    BY Zenon, <1>12, <1>0 DEF PingIn, OtherIn, FlushPop, CallbackReturn, FlushReturn, ConnectionLost
  <2> QED BY Zenon, <1>0, <2>1, <2>2 DEF NoLostWakeup
<1>13. ASSUME NEW p \in Payloads, PongIn(p) PROVE NoLostWakeup'
  <2>1. UNCHANGED <<backlog, pending_recv>>
    BY Zenon, <1>13 DEF PongIn
  <2>2. \A r \in pending_recv : fut'[r] = "pending" => fut[r] = "pending"
    BY Zenon, <1>13, <1>0 DEF PongIn, Settle
  <2> QED BY Zenon, <1>0, <2>1, <2>2 DEF NoLostWakeup
<1>14. CASE DataEnd \/ FallBack
  <2>1. UNCHANGED <<backlog, pending_recv>>
    BY Zenon, <1>14 DEF DataEnd, FallBack, EndScan
  <2>2. \A r \in pending_recv : fut'[r] = "pending" => fut[r] = "pending"
    BY Zenon, <1>14, <1>0 DEF DataEnd, FallBack, EndScan, Settle
  <2> QED BY Zenon, <1>0, <2>1, <2>2 DEF NoLostWakeup
<1>15. CASE CloseIn
  <2>1. pending_recv' = {}
    BY Zenon, <1>15 DEF CloseIn, BeginClose, EndScan, ClearPending
  <2> QED BY Zenon, <2>1 DEF NoLostWakeup
<1>16. CASE ProtocolErrorIn
  <2>1. pending_recv' = {}
    BY Zenon, <1>16 DEF ProtocolErrorIn, BeginClose, ClearPending
  <2> QED BY Zenon, <2>1 DEF NoLostWakeup
<1>17. CASE FlushLost
  <2>1. pending_recv' = {}
    BY Zenon, <1>17 DEF FlushLost, ClearPending
  <2> QED BY Zenon, <2>1 DEF NoLostWakeup
<1>18. CASE UNCHANGED vars
  BY Zenon, <1>18, <1>0 DEF vars, NoLostWakeup
<1> QED BY Zenon, <1>1, <1>2, <1>3, <1>4, <1>5, <1>6, <1>7, <1>8, <1>9, <1>10, <1>11, <1>12, <1>13,
     <1>14, <1>15, <1>16, <1>17, <1>18 DEF Next, InnerStep, Application, EventLoop

(* A handler that serves no receiver keeps the order in which they are served. *)
LEMMA OrderKept ==
  ASSUME TypeOK, Served, ReceiverFifo, got' = got, recvs' = recvs, Len(delivered') >= Len(delivered),
         Len(delivered) \in Nat, Len(delivered') \in Nat, pending_recv' \subseteq pending_recv,
         \A r \in pending_recv' : fut'[r] = "pending" => fut[r] = "pending"
  PROVE  (Served /\ ReceiverFifo)'
<1>1. Served'
  BY DEF Served, TypeOK, TypeFutures
<1>2. ReceiverFifo'
  BY Zenon DEF ReceiverFifo
<1> QED BY Zenon, <1>1, <1>2

(* A message goes to the longest-waiting live receiver. *)
LEMMA ReceiverFifoStep ==
  TypeOK /\ StackShape /\ Stream /\ NoLostWakeup /\ Served /\ ReceiverFifo /\ Stock /\ [Next]_vars => (Served /\ ReceiverFifo)'
<1> SUFFICES ASSUME TypeOK, StackShape, Stream, NoLostWakeup, Served, ReceiverFifo, Stock, [Next]_vars PROVE (Served /\ ReceiverFifo)'
  OBVIOUS
<1>0. /\ TypeParked /\ TypePings /\ TypeStack /\ recvs \in Nat /\ got \in [Receivers -> Nat]
      /\ fut \in [Futures -> Status] /\ pending_recv \subseteq Receivers /\ Receivers \subseteq Futures
      /\ delivered \in Seq(Nat) /\ backlog \in Seq(Nat) /\ Receivers \subseteq Nat \ {0}
      /\ Len(delivered) \in Nat
  BY FutureKinds, QueueFacts DEF TypeOK, TypeFutures, TypeParked, TypeMsgs, Receivers
<1>1. CASE ConnectionMade \/ HelperReturn \/ RecvCall \/ PingDone \/ PingWritten \/ DataReceived
  <2>1. pending_recv' = pending_recv /\ UNCHANGED <<got, recvs, delivered>>
    BY Zenon, <1>1 DEF ConnectionMade, HelperReturn, RecvCall, PingDone, PingWritten, DataReceived
  <2>2. \A r \in pending_recv' : fut'[r] = "pending" => fut[r] = "pending"
    BY Zenon, <1>1, <1>0, <2>1 DEF ConnectionMade, HelperReturn, RecvCall, PingDone, PingWritten,
         DataReceived
  <2> QED BY SMTT(30), <1>0, <2>1, <2>2, OrderKept
<1>2. CASE Close \/ HelperRaise
  <2>1. pending_recv' = {} /\ UNCHANGED <<got, recvs, delivered>>
    BY Zenon, <1>2 DEF Close, HelperRaise, ClearPending, DoClose
  <2>2. \A r \in pending_recv' : fut'[r] = "pending" => fut[r] = "pending"
    BY Zenon, <2>1
  <2> QED BY SMTT(30), <1>0, <2>1, <2>2, OrderKept
<1>3. CASE RecvReady
  <2> DEFINE n == recvs + 1
  <2>1. /\ n \in Receivers /\ recvs' = n /\ pending_recv' = pending_recv /\ backlog # <<>>
        /\ got' = [got EXCEPT ![n] = Head(backlog)] /\ delivered' = Append(delivered, Head(backlog))
        /\ fut' = [fut EXCEPT ![n] = "result"]
    BY Zenon, <1>3, <1>0, NextReceiver DEF RecvReady
  <2>2. Head(backlog) = Len(delivered) + 1 /\ Head(backlog) \in Nat
    BY <1>0, <2>1, QueueFacts DEF Stream
  <2>3. Len(delivered') = Len(delivered) + 1
    BY Zenon, <1>0, <2>1, <2>2, QueueFacts
  <2>4. got'[n] = Len(delivered) + 1 /\ \A s \in Receivers : s # n => got'[s] = got[s]
    BY Zenon, <1>0, <2>1, <2>2
  <2>5. \A s \in Receivers : got[s] # 0 => s <= recvs /\ got[s] <= Len(delivered)
    BY Zenon DEF Served
  <2>6. Served'
    <3>1. \A r \in pending_recv : r <= recvs
      BY Zenon DEF Served
    <3> QED BY <1>0, <2>1, <2>3, <2>4, <2>5, <3>1 DEF Served
  <2>7. \A r \in pending_recv : fut'[r] # "pending" \/ r \in Unprobeable
    BY Zenon, <1>0, <2>1 DEF NoLostWakeup
  <2>8. \A s \in Receivers : got[s] \in Nat
    BY Zenon, <1>0
  <2>9. ASSUME NEW r \in Receivers, NEW s \in Receivers, r < s, got'[s] # 0 PROVE got'[r] < got'[s]
    <3>1. CASE s = n
      <4>1. r # n /\ got'[r] = got[r] /\ got[r] <= Len(delivered)
        BY SMTT(30), <1>0, <2>4, <2>5, <2>8, <2>9, <3>1
      <4> QED BY SMTT(30), <1>0, <2>4, <2>8, <3>1, <4>1
    <3>2. CASE s # n
      <4>1. got[s] # 0 /\ got'[s] = got[s] /\ r # n
        BY <1>0, <2>4, <2>5, <2>9, <3>2
      <4> QED BY Zenon, <2>4, <2>9, <4>1 DEF ReceiverFifo
    <3> QED BY Zenon, <3>1, <3>2
  <2> QED BY Zenon, <2>1, <2>6, <2>7, <2>9 DEF ReceiverFifo
<1>4. CASE RecvPark
  <2> DEFINE n == recvs + 1
  <2>1. /\ n \in Receivers /\ recvs' = n /\ pending_recv' \subseteq pending_recv \cup {n}
        /\ UNCHANGED <<got, delivered>> /\ fut' = [fut EXCEPT ![n] = "pending"]
    BY Zenon, <1>4, <1>0, NextReceiver DEF RecvPark, LiveReceivers
  <2>2. Served'
    BY <1>0, <2>1 DEF Served
  <2>3. ASSUME NEW r \in Receivers, NEW s \in Receivers, r < s, got'[s] # 0
        PROVE  got'[r] < got'[s] /\ (r \in pending_recv' => fut'[r] # "pending" \/ r \in Unprobeable)
    <3>1. s <= recvs /\ r # n
      BY <1>0, <2>1, <2>3 DEF Served
    <3>2. fut'[r] = fut[r] /\ (r \in pending_recv' => r \in pending_recv)
      BY Zenon, <1>0, <2>1, <3>1
    <3> QED BY Zenon, <2>1, <2>3, <3>2 DEF ReceiverFifo
  <2> QED BY Zenon, <2>2, <2>3 DEF ReceiverFifo
<1>5. ASSUME NEW f \in Receivers \cup Probes, Cancel(f) PROVE (Served /\ ReceiverFifo)'
  <2>1. pending_recv' = pending_recv /\ UNCHANGED <<got, recvs, delivered>>
    BY Zenon, <1>5 DEF Cancel
  <2>2. \A r \in pending_recv' : fut'[r] = "pending" => fut[r] = "pending"
    BY Zenon, <1>5, <1>0, <2>1 DEF Cancel, Settle
  <2> QED BY SMTT(30), <1>0, <2>1, <2>2, OrderKept
<1>6. ASSUME NEW p \in Payloads, PingCall(p) PROVE (Served /\ ReceiverFifo)'
  <2>1. pending_recv' = pending_recv /\ UNCHANGED <<got, recvs, delivered>>
    BY Zenon, <1>6 DEF PingCall
  <2>2. \A r \in pending_recv' : fut'[r] = "pending" => fut[r] = "pending"
    BY Zenon, <1>6, <1>0, <2>1 DEF PingCall
  <2> QED BY SMTT(30), <1>0, <2>1, <2>2, OrderKept
<1>7. CASE PingRegister
  <2>1. UNCHANGED <<got, recvs, pending_recv, delivered>>
    BY Zenon, <1>7 DEF PingRegister
  <2>2. MaxRecv + probes + 1 \notin Receivers
    BY Zenon, <1>7, <1>0, NextProbe, FutureKinds DEF PingRegister
  <2>3. \A r \in pending_recv : fut'[r] = fut[r]
    BY Zenon, <1>7, <1>0, <2>2 DEF PingRegister
  <2> QED BY SMTT(30), <1>0, <2>1, <2>3, OrderKept
<1>8. CASE PingWriteFails \/ HandshakeIn \/ FlushApplyClose
  <2>1. pending_recv' = pending_recv /\ UNCHANGED <<got, recvs, delivered>>
    BY Zenon, <1>8 DEF PingWriteFails, HandshakeIn, FlushApplyClose
  <2>2. \A r \in pending_recv' : fut'[r] = "pending" => fut[r] = "pending"
    BY Zenon, <1>8, <1>0, <2>1 DEF PingWriteFails, HandshakeIn, FlushApplyClose, Settle
  <2> QED BY SMTT(30), <1>0, <2>1, <2>2, OrderKept
<1>9. ASSUME NEW q \in Probes, RunCleanup(q) PROVE (Served /\ ReceiverFifo)'
  <2>1. pending_recv' = pending_recv /\ UNCHANGED <<got, recvs, delivered>>
    BY Zenon, <1>9 DEF RunCleanup
  <2>2. \A r \in pending_recv' : fut'[r] = "pending" => fut[r] = "pending"
    BY Zenon, <1>9, <1>0, <2>1 DEF RunCleanup
  <2> QED BY SMTT(30), <1>0, <2>1, <2>2, OrderKept
<1>10. CASE MessageIn
  <2>1. recvs' = recvs
    BY Zenon, <1>10 DEF MessageIn
  <2>2. CASE UNCHANGED <<pending_recv, fut, got, delivered>>
    BY SMTT(30), <1>0, <2>1, <2>2, OrderKept
  <2>3. CASE TakeLiveReceiver(0) /\ UNCHANGED <<fut, got, delivered>>
    <3>1. pending_recv' \subseteq pending_recv
      BY Zenon, <2>3 DEF TakeLiveReceiver
    <3> QED BY SMTT(30), <1>0, <2>1, <2>3, <3>1, OrderKept
  <2>4. ASSUME NEW n \in pending_recv, TakeLiveReceiver(n), fut' = Settle(fut, {n}, "result"),
               got' = [got EXCEPT ![n] = arrived + 1], delivered' = Append(delivered, arrived + 1),
               ~on_message
        PROVE  (Served /\ ReceiverFifo)'
    <3>1. Live(n) /\ n \in Receivers /\ backlog = <<>> /\ pending_callback_msgs = <<>> /\ n # 0
      BY Zenon, <1>0, <2>4, LiveMeansDrained DEF Stream
    <3>2. ~closed /\ dropped = 0 /\ arrived \in Nat
      BY SMTT(30), <1>10, <1>0, ParsingAlone DEF MessageIn, NextFrame, Stream, TypeOK, TypeMsgs
    <3>3. arrived = Len(delivered)
      <4>1. Len(delivered) + Len(backlog) + Len(pending_callback_msgs) = arrived - dropped
        BY Zenon DEF Stream
      <4>2. Len(backlog) = 0 /\ Len(pending_callback_msgs) = 0
        BY Zenon, <3>1, NoQueue
      <4> QED BY <1>0, <3>2, <4>1, <4>2
    <3>4. Len(delivered') = Len(delivered) + 1 /\ got'[n] = Len(delivered) + 1
          /\ \A s \in Receivers : s # n => got'[s] = got[s]
      BY SMTT(30), <1>0, <2>4, <3>1, <3>2, <3>3, QueueFacts
    <3>5. \A s \in Receivers : got[s] \in Nat /\ (got[s] # 0 => s <= recvs /\ got[s] <= Len(delivered))
      BY Zenon, <1>0 DEF Served
    <3>6. pending_recv' = {q \in pending_recv : ~(q <= n)}
      BY Zenon, <2>4, <3>1 DEF TakeLiveReceiver
    <3>7. Served'
      BY SMTT(30), <1>0, <2>1, <2>4, <3>1, <3>4, <3>5, <3>6 DEF Served
    <3>8. ASSUME NEW r \in Receivers, NEW s \in Receivers, r < s, got'[s] # 0
          PROVE  got'[r] < got'[s] /\ (r \in pending_recv' => fut'[r] # "pending" \/ r \in Unprobeable)
      <4>1. CASE s = n
        <5>1. r # n /\ got'[r] = got[r] /\ got[r] <= Len(delivered) /\ r \notin pending_recv'
          BY SMTT(30), <1>0, <3>4, <3>5, <3>6, <3>8, <4>1
        <5> QED BY SMTT(30), <1>0, <3>4, <3>5, <4>1, <5>1
      <4>2. CASE s # n
        <5>1. got[s] # 0 /\ got'[s] = got[s]
          BY Zenon, <3>4, <3>8, <4>2
        <5>2. r # n
          BY Zenon, <3>1, <3>8, <5>1 DEF ReceiverFifo, Live
        <5>3. got'[r] = got[r] /\ (fut'[r] = "pending" => fut[r] = "pending")
          BY Zenon, <1>0, <2>4, <3>4, <5>2 DEF Settle
        <5> QED BY Zenon, <3>6, <3>8, <5>1, <5>3 DEF ReceiverFifo
      <4> QED BY Zenon, <4>1, <4>2
    <3> QED BY Zenon, <3>7, <3>8 DEF ReceiverFifo
  <2>5. \/ UNCHANGED <<pending_recv, fut, got, delivered>>
        \/ TakeLiveReceiver(0) /\ UNCHANGED <<fut, got, delivered>>
        \/ \E n \in pending_recv :
             /\ TakeLiveReceiver(n) /\ fut' = Settle(fut, {n}, "result") /\ ~on_message
             /\ IF fut[n] = "pending"
                THEN /\ got' = [got EXCEPT ![n] = arrived + 1]
                     /\ delivered' = Append(delivered, arrived + 1)
                ELSE UNCHANGED <<got, delivered>>
    BY Zenon, <1>10 DEF MessageIn
  <2>6. \A n \in pending_recv : TakeLiveReceiver(n) => fut[n] = "pending"
    BY Zenon, LiveMeansDrained DEF Live
  <2> QED BY Zenon, <2>2, <2>3, <2>4, <2>5, <2>6
<1>11. CASE MessageRejected
  BY Zenon, <1>11 DEF MessageRejected, Stock
<1>12. CASE PingIn \/ OtherIn \/ CallbackReturn \/ FlushReturn \/ ConnectionLost
  <2>1. pending_recv' = pending_recv /\ UNCHANGED <<got, recvs, delivered>>
    BY Zenon, <1>12 DEF PingIn, OtherIn, CallbackReturn, FlushReturn, ConnectionLost
  <2>2. \A r \in pending_recv' : fut'[r] = "pending" => fut[r] = "pending"
    BY Zenon, <1>12, <1>0, <2>1 DEF PingIn, OtherIn, CallbackReturn, FlushReturn, ConnectionLost
  <2> QED BY SMTT(30), <1>0, <2>1, <2>2, OrderKept
<1>13. ASSUME NEW p \in Payloads, PongIn(p) PROVE (Served /\ ReceiverFifo)'
  <2>1. pending_recv' = pending_recv /\ UNCHANGED <<got, recvs, delivered>>
    BY Zenon, <1>13 DEF PongIn
  <2>2. \A r \in pending_recv' : fut'[r] = "pending" => fut[r] = "pending"
    BY Zenon, <1>13, <1>0, <2>1 DEF PongIn, Settle
  <2> QED BY SMTT(30), <1>0, <2>1, <2>2, OrderKept
<1>14. CASE DataEnd \/ FallBack
  <2>1. pending_recv' = pending_recv /\ UNCHANGED <<got, recvs, delivered>>
    BY Zenon, <1>14 DEF DataEnd, FallBack
  <2>2. \A r \in pending_recv' : fut'[r] = "pending" => fut[r] = "pending"
    BY Zenon, <1>14, <1>0, <2>1 DEF DataEnd, FallBack, EndScan, Settle
  <2> QED BY SMTT(30), <1>0, <2>1, <2>2, OrderKept
<1>15. CASE CloseIn \/ ProtocolErrorIn
  <2>1. pending_recv' = {} /\ UNCHANGED <<got, recvs, delivered>>
    BY Zenon, <1>15 DEF CloseIn, ProtocolErrorIn, BeginClose, ClearPending
  <2>2. \A r \in pending_recv' : fut'[r] = "pending" => fut[r] = "pending"
    BY Zenon, <2>1
  <2> QED BY SMTT(30), <1>0, <2>1, <2>2, OrderKept
<1>16. CASE FlushPop
  <2>1. UNCHANGED <<got, recvs, pending_recv, fut>> /\ delivered' = Append(delivered, Head(pending_callback_msgs))
    BY Zenon, <1>16 DEF FlushPop
  <2>2. Head(pending_callback_msgs) \in Nat
    BY Zenon, <1>16, QueueType DEF FlushPop, TypeOK, TypeMsgs
  <2>3. Len(delivered') = Len(delivered) + 1
    BY Zenon, <1>0, <2>1, <2>2, QueueFacts
  <2> QED BY <1>0, <2>1, <2>3, OrderKept
<1>17. CASE FlushLost
  <2>1. pending_recv' = {} /\ UNCHANGED <<got, recvs, delivered>>
    BY Zenon, <1>17 DEF FlushLost, ClearPending
  <2>2. \A r \in pending_recv' : fut'[r] = "pending" => fut[r] = "pending"
    BY Zenon, <2>1
  <2> QED BY SMTT(30), <1>0, <2>1, <2>2, OrderKept
<1>18. CASE UNCHANGED vars
  BY <1>18, Zenon DEF vars, Served, ReceiverFifo
<1> QED BY Zenon, <1>1, <1>2, <1>3, <1>4, <1>5, <1>6, <1>7, <1>8, <1>9, <1>10, <1>11, <1>12, <1>13,
     <1>14, <1>15, <1>16, <1>17, <1>18 DEF Next, InnerStep, Application, EventLoop

(* A teardown drops queued callbacks only after close() or after a callback raised. *)
LEMMA CallbacksStep ==
  TypeOK /\ Stream /\ CallbacksBeforeTeardown /\ Stock /\ [Next]_vars => CallbacksBeforeTeardown'
<1> SUFFICES ASSUME TypeOK, Stream, CallbacksBeforeTeardown, Stock, [Next]_vars PROVE CallbacksBeforeTeardown'
  OBVIOUS
<1>0. /\ TypeFlags /\ dropped \in Nat /\ Stream /\ CallbacksBeforeTeardown
  BY Zenon DEF TypeOK, TypeMsgs
<1>1. CASE ConnectionMade \/ HelperReturn \/ RecvReady \/ RecvCall \/ RecvPark \/ PingDone
  <2>1. dropped' = dropped /\ (excuse' = excuse \/ excuse')
    BY Zenon, <1>1 DEF ConnectionMade, HelperReturn, RecvReady, RecvCall, RecvPark, PingDone
  <2> QED BY Zenon, <1>0, <2>1 DEF CallbacksBeforeTeardown
<1>2. CASE Close \/ HelperRaise
  BY Zenon, <1>2 DEF Close, HelperRaise, CallbacksBeforeTeardown
<1>3. ASSUME NEW f \in Receivers \cup Probes, Cancel(f) PROVE CallbacksBeforeTeardown'
  <2>1. dropped' = dropped /\ (excuse' = excuse \/ excuse')
    BY Zenon, <1>3 DEF Cancel
  <2> QED BY Zenon, <1>0, <2>1 DEF CallbacksBeforeTeardown
<1>4. ASSUME NEW p \in Payloads, PingCall(p) PROVE CallbacksBeforeTeardown'
  <2>1. dropped' = dropped /\ (excuse' = excuse \/ excuse')
    BY Zenon, <1>4 DEF PingCall
  <2> QED BY Zenon, <1>0, <2>1 DEF CallbacksBeforeTeardown
<1>5. CASE PingRegister \/ PingWritten \/ PingWriteFails \/ DataReceived \/ HandshakeIn \/ MessageIn
  <2>1. dropped' = dropped /\ (excuse' = excuse \/ excuse')
    BY Zenon, <1>5 DEF PingRegister, PingWritten, PingWriteFails, DataReceived, HandshakeIn, MessageIn
  <2> QED BY Zenon, <1>0, <2>1 DEF CallbacksBeforeTeardown
<1>6. ASSUME NEW q \in Probes, RunCleanup(q) PROVE CallbacksBeforeTeardown'
  <2>1. dropped' = dropped /\ (excuse' = excuse \/ excuse')
    BY Zenon, <1>6 DEF RunCleanup
  <2> QED BY Zenon, <1>0, <2>1 DEF CallbacksBeforeTeardown
<1>7. CASE MessageRejected
  BY Zenon, <1>7 DEF MessageRejected, Stock
<1>8. CASE PingIn \/ OtherIn \/ DataEnd \/ FallBack \/ FlushPop \/ CallbackReturn
  <2>1. dropped' = dropped /\ (excuse' = excuse \/ excuse')
    BY Zenon, <1>8 DEF PingIn, OtherIn, DataEnd, FallBack, FlushPop, CallbackReturn
  <2> QED BY Zenon, <1>0, <2>1 DEF CallbacksBeforeTeardown
<1>9. ASSUME NEW p \in Payloads, PongIn(p) PROVE CallbacksBeforeTeardown'
  <2>1. dropped' = dropped /\ (excuse' = excuse \/ excuse')
    BY Zenon, <1>9 DEF PongIn
  <2> QED BY Zenon, <1>0, <2>1 DEF CallbacksBeforeTeardown
<1>10. CASE CloseIn \/ ProtocolErrorIn
  <2>1. dropped' = dropped /\ (excuse' = excuse \/ excuse')
    BY Zenon, <1>10 DEF CloseIn, ProtocolErrorIn, BeginClose
  <2> QED BY Zenon, <1>0, <2>1 DEF CallbacksBeforeTeardown
<1>11. CASE FlushReturn
  <2>1. dropped' = dropped /\ (excuse' = excuse \/ excuse')
    BY Zenon, <1>11 DEF FlushReturn, FlushEnds
  <2> QED BY Zenon, <1>0, <2>1 DEF CallbacksBeforeTeardown
<1>12. CASE FlushApplyClose \/ FlushLost
  <2>1. FlushEnds /\ dropped' = dropped + Len(pending_callback_msgs)
    BY Zenon, <1>12 DEF FlushApplyClose, FlushLost, ReleaseReferences
  <2>2. CASE excuse'
    BY Zenon, <2>2 DEF CallbacksBeforeTeardown
  <2>3. CASE ~excuse'
    <3>1. UNCHANGED excuse /\ pending_callback_msgs = <<>>
      BY Zenon, <1>0, <2>1, <2>3 DEF FlushEnds, Stream
    <3>2. dropped' = dropped
      BY SMTT(30), <1>0, <2>1, <3>1
    <3> QED BY Zenon, <1>0, <3>1, <3>2 DEF CallbacksBeforeTeardown
  <2> QED BY Zenon, <2>2, <2>3
<1>13. CASE ConnectionLost
  <2>1. dropped' = dropped /\ (excuse' = excuse \/ excuse')
    BY Zenon, <1>13 DEF ConnectionLost
  <2> QED BY Zenon, <1>0, <2>1 DEF CallbacksBeforeTeardown
<1>14. CASE UNCHANGED vars
  BY Zenon, <1>14, <1>0 DEF vars, CallbacksBeforeTeardown
<1> QED BY Zenon, <1>1, <1>2, <1>3, <1>4, <1>5, <1>6, <1>7, <1>8, <1>9, <1>10, <1>11, <1>12, <1>13, <1>14
     DEF Next, InnerStep, Application, EventLoop

WireClean == \A i \in DOMAIN wire : wire[i] # "close"
FailsProtocol(f) == f.op = "flush" /\ f.then = "protocol_error"
HasErr == \E i \in DOMAIN stack : FailsProtocol(stack[i])

(* CloseSubmitted: no Close on the wire yet, or closed with no protocol error left to report. *)
LEMMA CloseSubmittedParts == CloseSubmitted <=> WireClean \/ (closed /\ ~HasErr)
BY Zenon DEF CloseSubmitted, WireClean, HasErr, IsTeardown, FailsProtocol

(* What appending pings, pongs and one Close does to a wire without a Close. *)
LEMMA WireGrows ==
  ASSUME wire \in Seq(Control), WireClean
  PROVE  /\ \A x \in Control \ {"close"} : wire' = Append(wire, x) => WireClean'
         /\ \A n \in Nat : wire' = wire \o [i \in 1..n |-> "pong"] => WireClean'
         /\ wire' = Append(wire, "close") => CloseFrameLast'
         /\ CloseFrameLast
<1>1. ASSUME NEW x \in Control, wire' = Append(wire, x)
      PROVE  /\ DOMAIN wire' = 1..Len(wire') /\ Len(wire') = Len(wire) + 1 /\ wire'[Len(wire) + 1] = x
             /\ \A i \in 1..Len(wire) : wire'[i] = wire[i] /\ wire[i] # "close"
  BY <1>1, AppendProperties DEF WireClean
<1>2. \A x \in Control \ {"close"} : wire' = Append(wire, x) => WireClean'
  BY <1>1 DEF WireClean
<1>3. wire' = Append(wire, "close") => CloseFrameLast'
  BY <1>1 DEF CloseFrameLast, Control
<1>4. ASSUME NEW n \in Nat, wire' = wire \o [i \in 1..n |-> "pong"] PROVE WireClean'
  <2> DEFINE t == [i \in 1..n |-> "pong"]
  <2>1. t \in Seq(Control) /\ Len(t) = n /\ \A i \in 1..n : t[i] = "pong"
    BY SMTT(30) DEF Control
  <2>2. /\ DOMAIN wire' = 1..(Len(wire) + n)
        /\ \A i \in 1..(Len(wire) + n) : wire'[i] = IF i <= Len(wire) THEN wire[i] ELSE t[i - Len(wire)]
    BY <1>4, <2>1, ConcatProperties
  <2> QED BY <2>1, <2>2 DEF WireClean
<1>5. CloseFrameLast
  BY Zenon DEF WireClean, CloseFrameLast
<1> QED BY Zenon, <1>2, <1>3, <1>4, <1>5

(* Only ProtocolErrorIn puts a protocol-error teardown on the stack. *)
LEMMA NoNewError ==
  ASSUME TypeStack,
         \/ Stays
         \/ Pops
         \/ \E f \in Frame : Pushes(f) /\ ~FailsProtocol(f)
         \/ \E f \in Frame : Swaps(f) /\ (~FailsProtocol(f) \/ (SameFlush(f, stack[1]) /\ Mode("flush"))),
         HasErr'
  PROVE  HasErr
<1>1. PICK i \in DOMAIN stack' : FailsProtocol(stack'[i])
  BY Zenon DEF HasErr, FailsProtocol
<1>2. DOMAIN stack = 1..Len(stack) /\ Len(stack) \in Nat /\ \A j \in DOMAIN stack : stack[j] \in Frame
  BY Zenon, StackMoves
<1>3. CASE Stays
  BY Zenon, <1>1, <1>3 DEF HasErr, Stays
<1>4. CASE Pops
  <2>1. i + 1 \in DOMAIN stack /\ stack'[i] = stack[i + 1]
    BY SMTT(30), <1>1, <1>2, <1>4 DEF Pops
  <2> QED BY Zenon, <1>1, <2>1 DEF HasErr
<1>5. ASSUME NEW f \in Frame, Pushes(f), ~FailsProtocol(f) PROVE HasErr
  <2>1. i # 1
    BY Zenon, <1>1, <1>5 DEF Pushes
  <2>2. i - 1 \in DOMAIN stack /\ stack'[i] = stack[i - 1]
    BY SMTT(30), <1>1, <1>2, <1>5, <2>1 DEF Pushes
  <2> QED BY Zenon, <1>1, <2>2 DEF HasErr
<1>6. ASSUME NEW f \in Frame, Swaps(f), ~FailsProtocol(f) \/ (SameFlush(f, stack[1]) /\ Mode("flush")) PROVE HasErr
  <2>0. Len(stack) >= 1 /\ DOMAIN stack' = 1..Len(stack) /\ stack'[1] = f
        /\ \A j \in 2..Len(stack) : stack'[j] = stack[j]
    BY <1>6, Zenon DEF Swaps
  <2>1. CASE i = 1
    <3>1. stack'[1] = f /\ 1 \in DOMAIN stack
      BY SMTT(30), <1>2, <2>0
    <3>2. SameFlush(f, stack[1]) /\ Mode("flush")
      BY Zenon, <1>1, <1>6, <2>1, <3>1
    <3>3. f.then = "protocol_error" /\ stack[1].then = "protocol_error"
      BY Zenon, <1>1, <2>1, <3>1, <3>2 DEF FailsProtocol, SameFlush
    <3>4. stack[1].op = "flush"
      BY Zenon, <3>2
    <3> QED BY Zenon, <3>1, <3>3, <3>4 DEF HasErr, FailsProtocol
  <2>2. CASE i # 1
    <3>1. i \in DOMAIN stack /\ stack'[i] = stack[i]
      BY SMTT(30), <1>1, <1>2, <2>0, <2>2
    <3> QED BY Zenon, <1>1, <3>1 DEF HasErr
  <2> QED BY Zenon, <2>1, <2>2
<1> QED BY Zenon, <1>3, <1>4, <1>5, <1>6

(* A handler that writes nothing and starts no protocol error keeps the Close frame last. *)
LEMMA CloseKept ==
  ASSUME CloseSubmitted, CloseFrameLast, wire' = wire, closed => closed', HasErr' => HasErr
  PROVE  (CloseSubmitted /\ CloseFrameLast)'
BY Zenon, CloseSubmittedParts DEF CloseSubmitted, CloseFrameLast, HasErr, IsTeardown, FailsProtocol

(* Without a Close frame on the wire there is nothing to show. *)
LEMMA StillClean == WireClean' => (CloseSubmitted /\ CloseFrameLast)'
BY Zenon DEF CloseSubmitted, CloseFrameLast, WireClean

(* A Close just submitted by a closed client with no protocol error pending is the last frame. *)
LEMMA ClosesOnce == CloseFrameLast' /\ closed' /\ ~HasErr' => (CloseSubmitted /\ CloseFrameLast)'
BY Zenon DEF CloseSubmitted, HasErr, IsTeardown, FailsProtocol

(* Every handler submits control frames only before the Close frame, and one Close at most. *)
LEMMA CloseFramesStep ==
  TypeOK /\ StackShape /\ CloseSubmitted /\ CloseFrameLast /\ Stock /\ [Next]_vars => (CloseSubmitted /\ CloseFrameLast)'
<1> SUFFICES ASSUME TypeOK, StackShape, CloseSubmitted, CloseFrameLast, Stock, [Next]_vars PROVE (CloseSubmitted /\ CloseFrameLast)'
  OBVIOUS
<1>a. Advances
  BY Zenon, AlwaysAdvances
<1>0. /\ TypeStack /\ wire \in Seq(Control) /\ CloseSubmitted /\ CloseFrameLast
      /\ (WireClean \/ (closed /\ ~HasErr)) /\ (closed => closed')
  BY Zenon, <1>a, CloseSubmittedParts DEF TypeOK, TypeMsgs, Advances
<1>1. CASE ConnectionMade \/ HelperReturn \/ RecvReady \/ MessageIn \/ OtherIn
  <2>1. Stays
    BY Zenon, <1>1 DEF ConnectionMade, HelperReturn, RecvReady, MessageIn, OtherIn, Stays
  <2>2. wire' = wire
    BY Zenon, <1>1 DEF ConnectionMade, HelperReturn, RecvReady, MessageIn, OtherIn
  <2>3. HasErr' => HasErr
    BY <1>0, <2>1, NoNewError, Zenon
  <2> QED BY Zenon, <1>0, <2>2, <2>3, CloseKept
<1>2. CASE Close \/ HelperRaise
  <2>1. Stays /\ closed' /\ (wire' = wire \/ (~closed /\ wire' = Append(wire, "close")))
    BY Zenon, <1>2 DEF Close, HelperRaise, DoClose, SendsClose, Stays
  <2>3. HasErr' => HasErr
    BY <1>0, <2>1, NoNewError, Zenon
  <2>4. CASE wire' = wire
    BY Zenon, <1>0, <2>3, <2>4, CloseKept
  <2>5. CASE ~closed /\ wire' = Append(wire, "close")
    <3>1. CloseFrameLast'
      BY Zenon, <1>0, <2>5, WireGrows
    <3>2. ~HasErr
      BY Zenon, <2>5 DEF HasErr, FailsProtocol, StackShape, IsTeardown
    <3> QED BY Zenon, <2>1, <2>3, <3>1, <3>2, ClosesOnce
  <2> QED BY Zenon, <2>1, <2>4, <2>5
<1>3. CASE RecvCall \/ DataReceived \/ ConnectionLost
  <2>0. \A at, w, g, b, S : ~FailsProtocol(RecvFrame) /\ ~FailsProtocol(PingFrame(at, w, g))
                              /\ ~FailsProtocol(FlushFrame("lost", {}, FALSE)) /\ ~FailsProtocol(DataFrame(b, S, 0))
    BY Zenon DEF FlushFrame, RecvFrame, PingFrame, DataFrame, FailsProtocol
  <2>1. \E f \in Frame : Pushes(f) /\ ~FailsProtocol(f)
    BY <1>3, <2>0, ActionMoves, Zenon DEF Pushes
  <2>2. wire' = wire
    BY Zenon, <1>3 DEF RecvCall, DataReceived, ConnectionLost
  <2>3. HasErr' => HasErr
    BY <1>0, <2>1, NoNewError, Zenon
  <2> QED BY Zenon, <1>0, <2>2, <2>3, CloseKept
<1>4. CASE RecvPark \/ PingWritten \/ FlushReturn \/ FlushLost
  <2>1. Pops
    BY <1>4, ActionMoves, Zenon
  <2>2. wire' = wire
    BY Zenon, <1>4 DEF RecvPark, PingWritten, FlushReturn, FlushLost
  <2>3. HasErr' => HasErr
    BY <1>0, <2>1, NoNewError, Zenon
  <2> QED BY Zenon, <1>0, <2>2, <2>3, CloseKept
<1>5. ASSUME NEW f \in Receivers \cup Probes, Cancel(f) PROVE (CloseSubmitted /\ CloseFrameLast)'
  <2>1. Stays
    BY Zenon, <1>5 DEF Cancel, Stays
  <2>2. wire' = wire
    BY Zenon, <1>5 DEF Cancel
  <2>3. HasErr' => HasErr
    BY <1>0, <2>1, NoNewError, Zenon
  <2> QED BY Zenon, <1>0, <2>2, <2>3, CloseKept
<1>6. ASSUME NEW p \in Payloads, PingCall(p) PROVE (CloseSubmitted /\ CloseFrameLast)'
  <2>0. \A at, w, g, b, S : ~FailsProtocol(RecvFrame) /\ ~FailsProtocol(PingFrame(at, w, g))
                              /\ ~FailsProtocol(FlushFrame("lost", {}, FALSE)) /\ ~FailsProtocol(DataFrame(b, S, 0))
    BY Zenon DEF FlushFrame, RecvFrame, PingFrame, DataFrame, FailsProtocol
  <2>1. \E f \in Frame : Pushes(f) /\ ~FailsProtocol(f)
    BY <1>6, <2>0, ActionMoves, Zenon DEF Pushes
  <2>2. wire' = wire
    BY Zenon, <1>6 DEF PingCall
  <2>3. HasErr' => HasErr
    BY <1>0, <2>1, NoNewError, Zenon
  <2> QED BY Zenon, <1>0, <2>2, <2>3, CloseKept
<1>7. CASE PingDone \/ PingWriteFails \/ HandshakeIn
  <2>0. \A at, w, g, b, S, n : ~FailsProtocol(FlushFrame("return", {}, FALSE)) /\ ~FailsProtocol(PingFrame(at, w, g))
                              /\ ~FailsProtocol(FlushFrame("lost", {}, FALSE)) /\ ~FailsProtocol(DataFrame(b, S, n))
    BY Zenon DEF FlushFrame, RecvFrame, PingFrame, DataFrame, FailsProtocol
  <2>1. \/ Stays \/ Pops
        \/ \E f \in Frame : Swaps(f) /\ ~FailsProtocol(f)
    BY <1>7, <2>0, ActionMoves, Zenon DEF Swaps
  <2>2. wire' = wire
    BY Zenon, <1>7 DEF PingDone, PingWriteFails, HandshakeIn
  <2>3. HasErr' => HasErr
    BY <1>0, <2>1, NoNewError, Zenon
  <2> QED BY Zenon, <1>0, <2>2, <2>3, CloseKept
<1>8. CASE PingRegister
  <2>0. \A at, w, g : ~FailsProtocol(PingFrame(at, w, g))
    BY Zenon DEF FlushFrame, RecvFrame, PingFrame, DataFrame, FailsProtocol
  <2>1. \/ Stays \/ Pops
        \/ \E f \in Frame : Swaps(f) /\ ~FailsProtocol(f)
    BY <1>8, <2>0, ActionMoves, Zenon DEF Swaps
  <2>2. wire' = wire \/ (~closed /\ wire' = Append(wire, "ping"))
    BY Zenon, <1>8 DEF PingRegister
  <2>3. HasErr' => HasErr
    BY <1>0, <2>1, NoNewError, Zenon
  <2>4. CASE wire' = wire
    BY Zenon, <1>0, <2>3, <2>4, CloseKept
  <2>5. CASE ~closed /\ wire' = Append(wire, "ping")
    <3>1. "ping" \in Control \ {"close"}
      BY Zenon DEF Control
    <3>2. WireClean'
      BY Zenon, <1>0, <2>5, <3>1, WireGrows
    <3> QED BY Zenon, <3>2, StillClean
  <2> QED BY Zenon, <2>2, <2>4, <2>5
<1>9. ASSUME NEW q \in Probes, RunCleanup(q) PROVE (CloseSubmitted /\ CloseFrameLast)'
  <2>1. Stays
    BY Zenon, <1>9 DEF RunCleanup, Stays
  <2>2. wire' = wire
    BY Zenon, <1>9 DEF RunCleanup
  <2>3. HasErr' => HasErr
    BY <1>0, <2>1, NoNewError, Zenon
  <2> QED BY Zenon, <1>0, <2>2, <2>3, CloseKept
<1>10. CASE MessageRejected
  BY Zenon, <1>10 DEF MessageRejected, Stock
<1>11. CASE PingIn
  <2>1. Mode("data")
    BY Zenon, <1>11 DEF PingIn, NextFrame
  <2>2. WireClean
    BY Zenon, <1>0, <2>1, HasTop DEF StackShape, IsData
  <2>3. wire' = wire \/ wire' = Append(wire, "pong")
    BY Zenon, <1>11 DEF PingIn
  <2>4. "pong" \in Control \ {"close"}
    BY Zenon DEF Control
  <2>5. WireClean'
    BY Zenon, <1>0, <2>2, <2>3, <2>4, WireGrows DEF WireClean
  <2> QED BY Zenon, <2>5, StillClean
<1>12. ASSUME NEW p \in Payloads, PongIn(p) PROVE (CloseSubmitted /\ CloseFrameLast)'
  <2>0. \A at, w, g, b, S, n : ~FailsProtocol(FlushFrame("return", {}, FALSE)) /\ ~FailsProtocol(PingFrame(at, w, g))
                              /\ ~FailsProtocol(FlushFrame("lost", {}, FALSE)) /\ ~FailsProtocol(DataFrame(b, S, n))
    BY Zenon DEF FlushFrame, RecvFrame, PingFrame, DataFrame, FailsProtocol
  <2>1. \/ Stays \/ Pops
        \/ \E f \in Frame : Swaps(f) /\ ~FailsProtocol(f)
    BY <1>12, <2>0, PongMoves, Zenon DEF Swaps
  <2>2. wire' = wire
    BY Zenon, <1>12 DEF PongIn
  <2>3. HasErr' => HasErr
    BY <1>0, <2>1, NoNewError, Zenon
  <2> QED BY Zenon, <1>0, <2>2, <2>3, CloseKept
<1>13. CASE DataEnd \/ FallBack \/ CloseIn
  <2>1. Mode("data")
    BY Zenon, <1>13 DEF DataEnd, FallBack, CloseIn, NextFrame
  <2>2. WireClean
    BY Zenon, <1>0, <2>1, HasTop DEF StackShape, IsData
  <2>3. stack[1].pongs \in Nat
    BY Zenon, <1>0, <2>1, TopTypes
  <2>4. wire' = wire \o [i \in 1..stack[1].pongs |-> "pong"]
    BY Zenon, <1>13 DEF DataEnd, FallBack, CloseIn, EndScan
  <2>5. WireClean'
    BY Zenon, <1>0, <2>2, <2>3, <2>4, WireGrows
  <2> QED BY Zenon, <2>5, StillClean
<1>14. CASE ProtocolErrorIn
  <2>1. Mode("data")
    BY Zenon, <1>14 DEF ProtocolErrorIn, NextFrame
  <2>2. WireClean
    BY Zenon, <1>0, <2>1, HasTop DEF StackShape, IsData
  <2>5. WireClean'
    BY Zenon, <1>14, <2>2 DEF ProtocolErrorIn, WireClean
  <2> QED BY Zenon, <2>5, StillClean
<1>15. CASE FlushPop \/ CallbackReturn
  <2>0. Mode("flush")
    BY Zenon, <1>15 DEF FlushPop, CallbackReturn
  <2>1. \E f \in Frame : Swaps(f) /\ (~FailsProtocol(f) \/ (SameFlush(f, stack[1]) /\ Mode("flush")))
    BY <1>15, <2>0, ActionMoves, Zenon DEF Swaps
  <2>2. wire' = wire
    BY Zenon, <1>15 DEF FlushPop, CallbackReturn
  <2>3. HasErr' => HasErr
    BY <1>0, <2>1, NoNewError, Zenon
  <2> QED BY Zenon, <1>0, <2>2, <2>3, CloseKept
<1>16. CASE FlushApplyClose
  <2>1. Pops
    BY <1>16, ActionMoves, Zenon
  <2>2. 1 \in DOMAIN stack /\ IsTeardown(1)
    BY Zenon, <1>16, <1>0, HasTop DEF FlushApplyClose, IsTeardown
  <2>3. closed /\ Len(stack) = 1
    BY Zenon, <2>2 DEF StackShape
  <2>4. ~HasErr'
    BY <2>1, <2>3 DEF Pops, HasErr
  <2>5. CASE wire' = wire
    BY Zenon, <1>0, <2>4, <2>5, CloseKept
  <2>6. CASE stack[1].then = "protocol_error" /\ wire' = Append(wire, "close")
    <3>1. HasErr
      BY Zenon, <2>2, <2>6 DEF HasErr, FailsProtocol, IsTeardown
    <3>2. CloseFrameLast'
      BY Zenon, <1>0, <2>6, <3>1, WireGrows
    <3> QED BY Zenon, <1>0, <2>3, <2>4, <3>2, ClosesOnce
  <2> QED BY Zenon, <1>16, <2>5, <2>6 DEF FlushApplyClose
<1>17. CASE UNCHANGED vars
  BY Zenon, <1>17, <1>0 DEF vars, CloseSubmitted, CloseFrameLast, IsTeardown
<1> QED BY Zenon, <1>1, <1>2, <1>3, <1>4, <1>5, <1>6, <1>7, <1>8, <1>9, <1>10, <1>11, <1>12, <1>13,
     <1>14, <1>15, <1>16, <1>17 DEF Next, InnerStep, Application, EventLoop
=============================================================================

------------------------- MODULE NativeClientProofs -------------------------
(***************************************************************************)
(* Type correctness but for the call stack and the queues, the bound on     *)
(* retained receivers, the inductive invariant and the safety theorems of   *)
(* the native client.                                                       *)
(***************************************************************************)
EXTENDS NativeClientQueues, FiniteSetTheorems

USE DEF Mode, refs, parked, pings, msgs, outside

(* The deque of parked receivers is finite, so its length is a number. *)
LEMMA ReceiversFinite ==
  /\ IsFiniteSet(Receivers)
  /\ \A S \in SUBSET Receivers : \A r : /\ Cardinality(S) \in Nat
                                        /\ Cardinality(S \cup {r}) \in Nat
<1>1. IsFiniteSet(Receivers)
  BY BoundsAssumption, FS_Interval DEF Receivers
<1>2. ASSUME NEW S \in SUBSET Receivers, NEW r
      PROVE  Cardinality(S) \in Nat /\ Cardinality(S \cup {r}) \in Nat
  <2>1. IsFiniteSet(S)
    BY Zenon, <1>1, FS_Subset
  <2>2. IsFiniteSet(S \cup {r})
    BY Zenon, <2>1, FS_AddElement
  <2> QED BY Zenon, <2>1, <2>2, FS_CardinalityType
<1> QED BY Zenon, <1>1, <1>2

(* Every handler keeps the client's flags, the link and the helper in their types. *)
LEMMA TypeFlagsStep == TypeOK /\ [Next]_vars => TypeFlags'
<1> SUFFICES ASSUME TypeOK, [Next]_vars PROVE TypeFlags'
  OBVIOUS
<1> USE DEF TypeOK, TypeFlags
<1>1. CASE ConnectionMade
  BY Zenon, <1>1 DEF ConnectionMade
<1>2. CASE Close
  BY Zenon, <1>2 DEF Close, DoClose, ReleaseReferences, ClearPending, Closing
<1>3. CASE HelperRaise
  BY Zenon, <1>3 DEF HelperRaise, DoClose, ReleaseReferences, ClearPending, Closing
<1>4. CASE HelperReturn
  BY Zenon, <1>4 DEF HelperReturn
<1>5. CASE RecvReady
  BY Zenon, <1>5 DEF RecvReady
<1>6. CASE RecvCall
  BY Zenon, <1>6 DEF RecvCall
<1>7. CASE RecvPark
  BY SMTT(30), <1>7 DEF RecvPark
<1>8. ASSUME NEW f \in Receivers \cup Probes, Cancel(f) PROVE TypeFlags'
  BY Zenon, <1>8 DEF Cancel
<1>9. ASSUME NEW p \in Payloads, PingCall(p) PROVE TypeFlags'
  BY Zenon, <1>9 DEF PingCall
<1>10. CASE PingDone
  BY SMTT(30), <1>10 DEF PingDone
<1>11. CASE PingRegister
  BY SMTT(30), <1>11 DEF PingRegister
<1>12. CASE PingWritten
  BY SMTT(30), <1>12 DEF PingWritten
<1>13. CASE PingWriteFails
  BY Zenon, <1>13 DEF PingWriteFails, Closing
<1>14. ASSUME NEW q \in Probes, RunCleanup(q) PROVE TypeFlags'
  BY Zenon, <1>14 DEF RunCleanup
<1>15. CASE DataReceived
  BY Zenon, <1>15 DEF DataReceived
<1>16. CASE HandshakeIn
  BY Zenon, <1>16 DEF HandshakeIn, NextFrame
<1>17. CASE MessageIn
  BY Zenon, <1>17 DEF MessageIn, NextFrame, TakeLiveReceiver
<1>18. CASE MessageRejected
  BY Zenon, <1>18 DEF MessageRejected, NextFrame, TakeLiveReceiver, Closing
<1>19. CASE PingIn
  BY Zenon, <1>19 DEF PingIn, NextFrame
<1>20. ASSUME NEW p \in Payloads, PongIn(p) PROVE TypeFlags'
  BY Zenon, <1>20 DEF PongIn, NextFrame
<1>21. CASE OtherIn
  BY Zenon, <1>21 DEF OtherIn, NextFrame
<1>22. CASE DataEnd
  BY Zenon, <1>22 DEF DataEnd, EndScan
<1>23. CASE FallBack
  BY Zenon, <1>23 DEF FallBack, EndScan
<1>24. CASE CloseIn
  BY Zenon, <1>24 DEF CloseIn, NextFrame, EndScan, BeginClose, ClearPending
<1>25. CASE ProtocolErrorIn
  BY Zenon, <1>25 DEF ProtocolErrorIn, NextFrame, BeginClose, ClearPending
<1>26. CASE FlushPop
  BY Zenon, <1>26 DEF FlushPop
<1>27. CASE CallbackReturn
  BY <1>27 DEF CallbackReturn
<1>28. CASE FlushReturn
  BY Zenon, <1>28 DEF FlushReturn, FlushEnds, Closing, Raised
<1>29. CASE FlushApplyClose
  BY Zenon, <1>29 DEF FlushApplyClose, FlushEnds, ReleaseReferences, Closing, Raised
<1>30. CASE ConnectionLost
  BY Zenon, <1>30 DEF ConnectionLost
<1>31. CASE FlushLost
  BY Zenon, <1>31 DEF FlushLost, FlushEnds, ReleaseReferences, ClearPending
<1>32. CASE UNCHANGED vars
  BY SMTT(30), <1>32 DEF vars
<1> QED BY Zenon, <1>1, <1>2, <1>3, <1>4, <1>5, <1>6, <1>7, <1>8, <1>9, <1>10, <1>11, <1>12, <1>13,
     <1>14, <1>15, <1>16, <1>17, <1>18, <1>19, <1>20, <1>21, <1>22, <1>23, <1>24, <1>25, <1>26,
     <1>27, <1>28, <1>29, <1>30, <1>31, <1>32 DEF Next, InnerStep, Application, EventLoop

(* Parking, sweeping and taking receivers keeps the parked sets and the threshold typed. *)
LEMMA TypeParkedStep == TypeOK /\ [Next]_vars => TypeParked'
<1> SUFFICES ASSUME TypeOK, [Next]_vars PROVE TypeParked'
  OBVIOUS
<1> USE DEF TypeOK, TypeParked
<1>1. CASE ConnectionMade \/ HelperReturn \/ RecvCall \/ PingDone \/ PingRegister \/ PingWritten
  BY Zenon, <1>1 DEF ConnectionMade, HelperReturn, RecvCall, PingDone, PingRegister, PingWritten
<1>2. CASE Close \/ HelperRaise
  BY Zenon, <1>2 DEF Close, HelperRaise, DoClose, ReleaseReferences, ClearPending, Closing
<1>3. CASE RecvReady
  BY <1>3, BoundsAssumption DEF RecvReady
<1>4. CASE RecvPark
  <2>0. LiveReceivers \in SUBSET Receivers
    BY Zenon DEF LiveReceivers
  <2>1. recvs + 1 \in Receivers
    BY Zenon, <1>4, NextReceiver DEF RecvPark
  <2>2. Cardinality(LiveReceivers) \in Nat /\ Cardinality(LiveReceivers \cup {recvs + 1}) \in Nat
    BY Zenon, <2>0, ReceiversFinite
  <2>3. SweepAt(Cardinality(LiveReceivers)) \in Nat \ {0}
    BY <2>2, BoundsAssumption DEF SweepAt
  <2>4. pending_recv' \subseteq Receivers /\ unprobeable_recv' \subseteq Receivers
    BY Zenon, <1>4, <2>0, <2>1 DEF RecvPark
  <2>5. recv_sweep_at' \in Nat \ {0} /\ peak' \in Nat /\ recvs' \in 0..MaxRecv
    BY SMTT(30), <1>4, <2>2, <2>3, BoundsAssumption DEF RecvPark
  <2> QED BY Zenon, <2>4, <2>5
<1>5. ASSUME NEW f \in Receivers \cup Probes, Cancel(f) PROVE TypeParked'
  BY Zenon, <1>5 DEF Cancel
<1>6. ASSUME NEW p \in Payloads, PingCall(p) PROVE TypeParked'
  BY Zenon, <1>6 DEF PingCall
<1>7. CASE PingWriteFails
  BY Zenon, <1>7 DEF PingWriteFails, Closing
<1>8. ASSUME NEW q \in Probes, RunCleanup(q) PROVE TypeParked'
  BY Zenon, <1>8 DEF RunCleanup
<1>9. CASE DataReceived \/ FlushPop \/ CallbackReturn \/ ConnectionLost
  BY Zenon, <1>9 DEF DataReceived, FlushPop, CallbackReturn, ConnectionLost
<1>10. CASE HandshakeIn \/ PingIn \/ OtherIn
  BY Zenon, <1>10 DEF HandshakeIn, PingIn, OtherIn, NextFrame
<1>11. CASE MessageIn
  BY Zenon, <1>11 DEF MessageIn, NextFrame, TakeLiveReceiver
<1>12. CASE MessageRejected
  BY Zenon, <1>12 DEF MessageRejected, NextFrame, TakeLiveReceiver, Closing
<1>13. ASSUME NEW p \in Payloads, PongIn(p) PROVE TypeParked'
  BY Zenon, <1>13 DEF PongIn, NextFrame
<1>14. CASE DataEnd \/ FallBack
  BY Zenon, <1>14 DEF DataEnd, FallBack, EndScan
<1>15. CASE CloseIn
  BY Zenon, <1>15 DEF CloseIn, NextFrame, EndScan, BeginClose, ClearPending
<1>16. CASE ProtocolErrorIn
  BY Zenon, <1>16 DEF ProtocolErrorIn, NextFrame, BeginClose, ClearPending
<1>17. CASE FlushReturn
  BY Zenon, <1>17 DEF FlushReturn, FlushEnds, Closing, Raised
<1>18. CASE FlushApplyClose
  BY Zenon, <1>18 DEF FlushApplyClose, FlushEnds, ReleaseReferences, Closing, Raised
<1>19. CASE FlushLost
  BY Zenon, <1>19 DEF FlushLost, FlushEnds, ReleaseReferences, ClearPending
<1>20. CASE UNCHANGED vars
  BY Zenon, <1>20 DEF vars
<1> QED BY Zenon, <1>1, <1>2, <1>3, <1>4, <1>5, <1>6, <1>7, <1>8, <1>9, <1>10, <1>11, <1>12, <1>13,
     <1>14, <1>15, <1>16, <1>17, <1>18, <1>19, <1>20 DEF Next, InnerStep, Application, EventLoop

(* ping_waiter(), PingCleanup and Pongs keep the probe registry typed. *)
LEMMA TypePingsStep == TypeOK /\ [Next]_vars => TypePings'
<1> SUFFICES ASSUME TypeOK, [Next]_vars PROVE TypePings'
  OBVIOUS
<1> USE DEF TypeOK, TypePings
<1>1. CASE ConnectionMade \/ HelperReturn \/ RecvReady \/ RecvCall \/ RecvPark \/ PingWritten
  BY Zenon, <1>1 DEF ConnectionMade, HelperReturn, RecvReady, RecvCall, RecvPark, PingWritten
<1>2. CASE Close \/ HelperRaise
  BY Zenon, <1>2 DEF Close, HelperRaise, DoClose, ReleaseReferences, ClearPending, Closing, Unsettled
<1>3. ASSUME NEW f \in Receivers \cup Probes, Cancel(f) PROVE TypePings'
  BY Zenon, <1>3 DEF Cancel, Unsettled
<1>4. ASSUME NEW p \in Payloads, PingCall(p) PROVE TypePings'
  BY Zenon, <1>4 DEF PingCall
<1>5. CASE PingDone
  BY Zenon, <1>5 DEF PingDone, Unsettled
<1>6. CASE PingRegister
  <2>1. stack[1].payload \in Payloads
    BY SMTT(30), <1>6 DEF PingRegister, TypeStack, Frame
  <2>2. MaxRecv + probes + 1 \in Probes /\ probes + 1 \in 0..MaxProbe
    BY SMTT(30), <1>6, BoundsAssumption DEF PingRegister, Probes
  <2> QED BY Zenon, <1>6, <2>1, <2>2 DEF PingRegister
<1>7. CASE PingWriteFails
  BY Zenon, <1>7 DEF PingWriteFails, Closing, Unsettled
<1>8. ASSUME NEW q \in Probes, RunCleanup(q) PROVE TypePings'
  BY Zenon, <1>8 DEF RunCleanup, Unsettled
<1>9. CASE DataReceived \/ FlushPop \/ CallbackReturn \/ ConnectionLost
  BY Zenon, <1>9 DEF DataReceived, FlushPop, CallbackReturn, ConnectionLost
<1>10. CASE HandshakeIn \/ PingIn \/ OtherIn
  BY Zenon, <1>10 DEF HandshakeIn, PingIn, OtherIn, NextFrame
<1>11. CASE MessageIn
  BY Zenon, <1>11 DEF MessageIn, NextFrame, TakeLiveReceiver
<1>12. CASE MessageRejected
  BY Zenon, <1>12 DEF MessageRejected, NextFrame, TakeLiveReceiver, Closing
<1>13. ASSUME NEW p \in Payloads, PongIn(p) PROVE TypePings'
  BY Zenon, <1>13 DEF PongIn, NextFrame, Unsettled
<1>14. CASE DataEnd \/ FallBack
  BY Zenon, <1>14 DEF DataEnd, FallBack, EndScan
<1>15. CASE CloseIn
  BY Zenon, <1>15 DEF CloseIn, NextFrame, EndScan, BeginClose, ClearPending, Unsettled
<1>16. CASE ProtocolErrorIn
  BY Zenon, <1>16 DEF ProtocolErrorIn, NextFrame, BeginClose, ClearPending, Unsettled
<1>17. CASE FlushReturn
  BY Zenon, <1>17 DEF FlushReturn, FlushEnds, Closing, Raised
<1>18. CASE FlushApplyClose
  BY Zenon, <1>18 DEF FlushApplyClose, FlushEnds, ReleaseReferences, Closing, Raised, Unsettled
<1>19. CASE FlushLost
  BY Zenon, <1>19 DEF FlushLost, FlushEnds, ReleaseReferences, ClearPending, Unsettled
<1>20. CASE UNCHANGED vars
  BY Zenon, <1>20 DEF vars
<1> QED BY Zenon, <1>1, <1>2, <1>3, <1>4, <1>5, <1>6, <1>7, <1>8, <1>9, <1>10, <1>11, <1>12, <1>13,
     <1>14, <1>15, <1>16, <1>17, <1>18, <1>19, <1>20 DEF Next, InnerStep, Application, EventLoop

(* A future only takes the five statuses. *)
LEMMA TypeFuturesStep == TypeOK /\ [Next]_vars => TypeFutures'
<1> SUFFICES ASSUME TypeOK, [Next]_vars PROVE TypeFutures'
  OBVIOUS
<1> USE DEF TypeOK, TypeFutures
<1>1. CASE ConnectionMade \/ HelperReturn \/ RecvCall \/ PingDone \/ PingWritten \/ DataReceived
  BY Zenon, <1>1 DEF ConnectionMade, HelperReturn, RecvCall, PingDone, PingWritten, DataReceived
<1>2. CASE Close \/ HelperRaise
  BY Zenon, <1>2 DEF Close, HelperRaise, DoClose, ReleaseReferences, ClearPending, Closing, Settle, Status
<1>3. CASE RecvReady
  <2>1. Head(backlog) \in Nat
    BY <1>3 DEF RecvReady, TypeMsgs
  <2> QED BY Zenon, <1>3, <2>1 DEF RecvReady, Status
<1>4. CASE RecvPark \/ PingRegister
  BY Zenon, <1>4 DEF RecvPark, PingRegister, Settle, Status
<1>5. ASSUME NEW f \in Receivers \cup Probes, Cancel(f) PROVE TypeFutures'
  BY Zenon, <1>5 DEF Cancel, Settle, Status
<1>6. ASSUME NEW p \in Payloads, PingCall(p) PROVE TypeFutures'
  BY Zenon, <1>6 DEF PingCall
<1>7. CASE PingWriteFails
  BY Zenon, <1>7 DEF PingWriteFails, Closing, Settle, Status
<1>8. ASSUME NEW q \in Probes, RunCleanup(q) PROVE TypeFutures'
  BY Zenon, <1>8 DEF RunCleanup
<1>9. CASE HandshakeIn
  BY Zenon, <1>9 DEF HandshakeIn, NextFrame, Settle, Status
<1>10. CASE MessageIn
  <2>1. arrived + 1 \in Nat
    BY SMTT(30) DEF TypeMsgs
  <2> QED BY <1>10, <2>1 DEF MessageIn, NextFrame, TakeLiveReceiver, Settle, Status
<1>11. CASE MessageRejected
  BY Zenon, <1>11 DEF MessageRejected, NextFrame, TakeLiveReceiver, Closing
<1>12. CASE PingIn \/ OtherIn
  BY Zenon, <1>12 DEF PingIn, OtherIn, NextFrame
<1>13. ASSUME NEW p \in Payloads, PongIn(p) PROVE TypeFutures'
  BY Zenon, <1>13 DEF PongIn, NextFrame, Settle, Status
<1>14. CASE DataEnd \/ FallBack
  BY Zenon, <1>14 DEF DataEnd, FallBack, EndScan, Settle, Status
<1>15. CASE CloseIn
  BY Zenon, <1>15 DEF CloseIn, NextFrame, EndScan, BeginClose, ClearPending, Settle, Status
<1>16. CASE ProtocolErrorIn
  BY Zenon, <1>16 DEF ProtocolErrorIn, NextFrame, BeginClose, ClearPending
<1>17. CASE FlushPop \/ CallbackReturn \/ ConnectionLost
  BY Zenon, <1>17 DEF FlushPop, CallbackReturn, ConnectionLost
<1>18. CASE FlushReturn
  BY Zenon, <1>18 DEF FlushReturn, FlushEnds, Closing, Raised
<1>19. CASE FlushApplyClose
  BY Zenon, <1>19 DEF FlushApplyClose, FlushEnds, ReleaseReferences, Closing, Raised, Settle, Status
<1>20. CASE FlushLost
  BY Zenon, <1>20 DEF FlushLost, FlushEnds, ReleaseReferences, ClearPending, Settle, Status
<1>21. CASE UNCHANGED vars
  BY Zenon, <1>21 DEF vars
<1> QED BY Zenon, <1>1, <1>2, <1>3, <1>4, <1>5, <1>6, <1>7, <1>8, <1>9, <1>10, <1>11, <1>12, <1>13,
     <1>14, <1>15, <1>16, <1>17, <1>18, <1>19, <1>20, <1>21 DEF Next, InnerStep, Application,
     EventLoop

(* Sets of receivers have a size. *)
LEMMA ReceiversCount ==
  \A S \in SUBSET Receivers : IsFiniteSet(S) /\ Cardinality(S) \in Nat
BY Zenon, ReceiversFinite, FS_Subset, FS_CardinalityType

(* Taking receivers out of the deque keeps the retention bound. *)
LEMMA RetentionKept ==
  ASSUME TypeOK, RetentionBounded, pending_recv' \subseteq pending_recv, UNCHANGED <<recv_sweep_at, peak>>
  PROVE  RetentionBounded'
<1>1. pending_recv \in SUBSET Receivers /\ pending_recv' \in SUBSET Receivers /\ recv_sweep_at \in Nat
  BY Zenon DEF TypeOK, TypeParked
<1>2. Cardinality(pending_recv') <= Cardinality(pending_recv)
  BY Zenon, <1>1, ReceiversCount, FS_Subset
<1>3. Cardinality(pending_recv') \in Nat /\ Cardinality(pending_recv) \in Nat
  BY Zenon, <1>1, ReceiversCount
<1> QED BY SMTT(30), <1>1, <1>2, <1>3 DEF RetentionBounded

(* park_receiver keeps the deque within a threshold that follows the peak of live receivers. *)
LEMMA RetentionStep ==
  TypeOK /\ RetentionBounded /\ Stock /\ [Next]_vars => RetentionBounded'
<1> SUFFICES ASSUME TypeOK, RetentionBounded, Stock, [Next]_vars PROVE RetentionBounded'
  OBVIOUS
<1>1. CASE ConnectionMade \/ HelperReturn \/ RecvReady \/ RecvCall \/ PingDone \/ PingRegister
  <2>1. pending_recv' \subseteq pending_recv /\ UNCHANGED <<recv_sweep_at, peak>>
    BY Zenon, <1>1 DEF ConnectionMade, HelperReturn, RecvReady, RecvCall, PingDone, PingRegister
  <2> QED BY Zenon, <2>1, RetentionKept
<1>2. CASE Close \/ HelperRaise
  <2>1. pending_recv' \subseteq pending_recv /\ UNCHANGED <<recv_sweep_at, peak>>
    BY Zenon, <1>2 DEF Close, HelperRaise, ClearPending, DoClose
  <2> QED BY Zenon, <2>1, RetentionKept
<1>3. CASE RecvPark
  <2> DEFINE r == recvs + 1
             sweep == Cardinality(pending_recv) >= recv_sweep_at
             kept == IF sweep THEN LiveReceivers ELSE pending_recv
             live == Cardinality(LiveReceivers \cup {r})
  <2>1. /\ pending_recv' = kept \cup {r} /\ r \in Receivers
        /\ recv_sweep_at' = IF sweep THEN SweepAt(Cardinality(LiveReceivers)) ELSE recv_sweep_at
        /\ peak' = IF live > peak THEN live ELSE peak
    <3>1. r \in Receivers
      BY Zenon, <1>3, NextReceiver DEF RecvPark, TypeOK, TypeParked
    <3> QED BY Zenon, <1>3, <3>1 DEF RecvPark
  <2>2. /\ pending_recv \in SUBSET Receivers /\ LiveReceivers \in SUBSET Receivers
        /\ LiveReceivers \cup {r} \in SUBSET Receivers /\ kept \in SUBSET Receivers
        /\ recv_sweep_at \in Nat \ {0} /\ peak \in Nat
    BY Zenon, <2>1 DEF TypeOK, TypeParked, LiveReceivers
  <2>3. /\ IsFiniteSet(pending_recv) /\ IsFiniteSet(LiveReceivers) /\ IsFiniteSet(kept)
        /\ Cardinality(pending_recv) \in Nat /\ Cardinality(LiveReceivers) \in Nat
        /\ IsFiniteSet(LiveReceivers \cup {r}) /\ live \in Nat /\ Cardinality(kept) \in Nat
    BY Zenon, <2>2, ReceiversCount
  <2>4. Cardinality(LiveReceivers) <= live
    BY Zenon, <2>3, FS_Subset
  <2>5. Cardinality(kept \cup {r}) \in Nat /\ Cardinality(kept \cup {r}) <= Cardinality(kept) + 1
    <3>1. CASE r \in kept
      <4>1. kept \cup {r} = kept
        BY Zenon, <3>1
      <4> QED BY <2>3, <4>1
    <3>2. CASE r \notin kept
      <4>1. Cardinality(kept \cup {r}) = Cardinality(kept) + 1
        BY Zenon, <2>3, <3>2, FS_AddElement
      <4> QED BY SMTT(30), <2>3, <4>1
    <3> QED BY Zenon, <3>1, <3>2
  <2>6. SweepMin \in Nat \ {0}
    BY Zenon, BoundsAssumption
  <2> HIDE DEF r, live
  <2>7. CASE sweep
    <3>1. recv_sweep_at' = SweepAt(Cardinality(LiveReceivers)) /\ kept = LiveReceivers
      BY Zenon, <2>1, <2>7
    <3>2. Cardinality(LiveReceivers) + 1 <= recv_sweep_at' /\ recv_sweep_at' \in Nat
      BY SMTT(30), <2>3, <2>6, <3>1 DEF SweepAt
    <3>3. recv_sweep_at' <= SweepMin \/ recv_sweep_at' <= 2 * peak'
      BY SMTT(30), <2>1, <2>2, <2>3, <2>4, <2>6, <3>1 DEF SweepAt
    <3>4. Cardinality(pending_recv') <= recv_sweep_at'
      BY SMTT(30), <2>1, <2>3, <2>5, <3>1, <3>2
    <3> QED BY Zenon, <3>3, <3>4 DEF RetentionBounded
  <2>8. CASE ~sweep
    <3>1. recv_sweep_at' = recv_sweep_at /\ kept = pending_recv /\ Cardinality(pending_recv) + 1 <= recv_sweep_at
      BY SMTT(30), <2>1, <2>2, <2>3, <2>8
    <3>2. recv_sweep_at' <= SweepMin \/ recv_sweep_at' <= 2 * peak'
      BY SMTT(30), <2>1, <2>2, <2>3, <2>6, <3>1 DEF RetentionBounded
    <3>3. Cardinality(pending_recv') <= recv_sweep_at'
      BY SMTT(30), <2>1, <2>2, <2>3, <2>5, <3>1
    <3> QED BY Zenon, <3>2, <3>3 DEF RetentionBounded
  <2> QED BY Zenon, <2>7, <2>8
<1>4. ASSUME NEW f \in Receivers \cup Probes, Cancel(f) PROVE RetentionBounded'
  <2>1. pending_recv' \subseteq pending_recv /\ UNCHANGED <<recv_sweep_at, peak>>
    BY Zenon, <1>4 DEF Cancel
  <2> QED BY Zenon, <2>1, RetentionKept
<1>5. ASSUME NEW p \in Payloads, PingCall(p) PROVE RetentionBounded'
  <2>1. pending_recv' \subseteq pending_recv /\ UNCHANGED <<recv_sweep_at, peak>>
    BY Zenon, <1>5 DEF PingCall
  <2> QED BY Zenon, <2>1, RetentionKept
<1>6. CASE PingWritten \/ PingWriteFails \/ DataReceived \/ HandshakeIn \/ PingIn \/ OtherIn
  <2>1. pending_recv' \subseteq pending_recv /\ UNCHANGED <<recv_sweep_at, peak>>
    BY Zenon, <1>6 DEF PingWritten, PingWriteFails, DataReceived, HandshakeIn, PingIn, OtherIn
  <2> QED BY Zenon, <2>1, RetentionKept
<1>7. ASSUME NEW q \in Probes, RunCleanup(q) PROVE RetentionBounded'
  <2>1. pending_recv' \subseteq pending_recv /\ UNCHANGED <<recv_sweep_at, peak>>
    BY Zenon, <1>7 DEF RunCleanup
  <2> QED BY Zenon, <2>1, RetentionKept
<1>8. CASE MessageIn
  <2>1. pending_recv' \subseteq pending_recv /\ UNCHANGED <<recv_sweep_at, peak>>
    BY Zenon, <1>8 DEF MessageIn, TakeLiveReceiver
  <2> QED BY Zenon, <2>1, RetentionKept
<1>9. CASE MessageRejected
  BY Zenon, <1>9 DEF MessageRejected, Stock
<1>10. ASSUME NEW p \in Payloads, PongIn(p) PROVE RetentionBounded'
  <2>1. pending_recv' \subseteq pending_recv /\ UNCHANGED <<recv_sweep_at, peak>>
    BY Zenon, <1>10 DEF PongIn
  <2> QED BY Zenon, <2>1, RetentionKept
<1>11. CASE DataEnd \/ FallBack \/ FlushPop \/ CallbackReturn \/ FlushReturn \/ FlushApplyClose
  <2>1. pending_recv' \subseteq pending_recv /\ UNCHANGED <<recv_sweep_at, peak>>
    BY Zenon, <1>11 DEF DataEnd, FallBack, FlushPop, CallbackReturn, FlushReturn, FlushApplyClose
  <2> QED BY Zenon, <2>1, RetentionKept
<1>12. CASE CloseIn \/ ProtocolErrorIn
  <2>1. pending_recv' \subseteq pending_recv /\ UNCHANGED <<recv_sweep_at, peak>>
    BY Zenon, <1>12 DEF CloseIn, ProtocolErrorIn, BeginClose, ClearPending
  <2> QED BY Zenon, <2>1, RetentionKept
<1>13. CASE ConnectionLost
  <2>1. pending_recv' \subseteq pending_recv /\ UNCHANGED <<recv_sweep_at, peak>>
    BY Zenon, <1>13 DEF ConnectionLost
  <2> QED BY Zenon, <2>1, RetentionKept
<1>14. CASE FlushLost
  <2>1. pending_recv' \subseteq pending_recv /\ UNCHANGED <<recv_sweep_at, peak>>
    BY Zenon, <1>14 DEF FlushLost, ClearPending
  <2> QED BY Zenon, <2>1, RetentionKept
<1>15. CASE UNCHANGED vars
  BY Zenon, <1>15 DEF vars, RetentionBounded
<1> QED BY Zenon, <1>1, <1>2, <1>3, <1>4, <1>5, <1>6, <1>7, <1>8, <1>9, <1>10, <1>11, <1>12, <1>13,
     <1>14, <1>15 DEF Next, InnerStep, Application, EventLoop

-----------------------------------------------------------------------------
(* The inductive invariant and the theorems.                                *)

(* The initial state of a new client is well typed. *)
LEMMA TypeInit == Init => TypeOK
<1> SUFFICES ASSUME Init PROVE TypeOK
  OBVIOUS
<1>1. on_message \in BOOLEAN
  BY ModesAssumption, Zenon DEF Init
<1>2. TypeFlags
  BY Zenon, <1>1 DEF Init, TypeFlags
<1>3. TypeParked
  BY BoundsAssumption DEF Init, TypeParked
<1>4. TypePings
  BY BoundsAssumption DEF Init, TypePings
<1>5. fut \in [Futures -> Status]
  BY Zenon DEF Init, Status
<1>6. got \in [Receivers -> Nat]
  BY Zenon DEF Init
<1>7. TypeMsgs
  <2>1. <<>> \in Seq(Nat) /\ <<>> \in Seq(Control)
    OBVIOUS
  <2> QED BY <2>1, BoundsAssumption DEF Init, TypeMsgs
<1>8. TypeStack
  BY DEF Init, TypeStack
<1> QED BY Zenon, <1>2, <1>3, <1>4, <1>5, <1>6, <1>7, <1>8 DEF TypeOK, TypeFutures

(* Type correctness of the client for every bound, whatever futures raise and   *)
(* wherever Python code calls back: in particular recv_sweep_at, on which       *)
(* park_receiver's amortised sweep relies, never becomes 0.                     *)
THEOREM TypeCorrect == Spec => []TypeOK
<1>1. TypeOK /\ [Next]_vars => TypeOK'
  BY Zenon, TypeFlagsStep, TypeParkedStep, TypePingsStep, TypeFuturesStep, TypeMsgsStep, TypeStackStep
     DEF TypeOK
<1> QED BY TypeInit, <1>1, PTL DEF Spec
(* A new client satisfies the invariant. *)
LEMMA InitInv == Init => IInv
<1> SUFFICES ASSUME Init PROVE IInv
  OBVIOUS
<1>1. TypeOK
  BY Zenon, TypeInit
<1>2. stack = <<>> /\ DOMAIN stack = {}
  BY DEF Init
<1>3. StackShape /\ WritingRegistered
  BY Zenon, <1>2 DEF StackShape, WritingRegistered
<1>4. Lifecycle
  BY Zenon, <1>2, FutureKinds DEF Init, Lifecycle
<1>5. ClosedEmpty /\ NoLostWakeup /\ CallbacksBeforeTeardown
  BY DEF Init, ClosedEmpty, NoLostWakeup, CallbacksBeforeTeardown
<1>6. ProbesNumbered
  <2>1. \A q \in Probes : q # Handshake /\ q \in Futures
    BY Zenon, FutureKinds
  <2> QED BY Zenon, <2>1 DEF Init, ProbesNumbered
<1>7. PendingReachable
  BY Zenon DEF Init, PendingReachable, TakePending
<1>8. Stream
  BY NoQueue DEF Init, Stream
<1>9. Served /\ ReceiverFifo
  BY Zenon DEF Init, Served, ReceiverFifo
<1>10. CloseSubmitted /\ CloseFrameLast
  BY DEF Init, CloseSubmitted, CloseFrameLast
<1>11. RetentionBounded
  <2>1. Cardinality({}) = 0
    BY Zenon, FS_EmptySet
  <2> QED BY <2>1, BoundsAssumption DEF Init, RetentionBounded
<1> QED BY Zenon, <1>1, <1>3, <1>4, <1>5, <1>6, <1>7, <1>8, <1>9, <1>10, <1>11 DEF IInv

(* Every handler preserves the invariant. *)
LEMMA InvStep == Stock /\ IInv /\ [Next]_vars => IInv'
<1> SUFFICES ASSUME Stock, IInv, [Next]_vars PROVE IInv'
  OBVIOUS
<1>1. /\ TypeOK /\ StackShape /\ Lifecycle /\ ClosedEmpty
      /\ WritingRegistered /\ ProbesNumbered /\ PendingReachable
      /\ Stream /\ NoLostWakeup /\ Served /\ ReceiverFifo
      /\ CloseSubmitted /\ CloseFrameLast
      /\ CallbacksBeforeTeardown /\ RetentionBounded
  BY Zenon DEF IInv
<1>2. TypeOK'
  BY Zenon, <1>1, TypeFlagsStep, TypeParkedStep, TypePingsStep, TypeFuturesStep, TypeMsgsStep,
     TypeStackStep, Zenon DEF TypeOK
<1>3. StackShape'
  BY <1>1, StackShapeStep, Zenon
<1>4. Lifecycle'
  <2>1. LifeFlags' /\ (closed => Released \/ HasTeardown)'
    BY <1>1, LifeFlagsStep, LifeReleasedStep, Zenon
  <2> QED BY <2>1, Zenon DEF Lifecycle, LifeFlags, HasTeardown
<1>5. ClosedEmpty' /\ ProbesNumbered' /\ WritingRegistered' /\ PendingReachable'
  BY <1>1, ClosedEmptyStep, ProbesNumberedStep, WritingRegisteredStep, PendingReachableStep, Zenon
<1>6. Stream' /\ NoLostWakeup' /\ Served' /\ ReceiverFifo'
  BY <1>1, StreamStep, NoLostWakeupStep, ReceiverFifoStep, Zenon
<1>7. CallbacksBeforeTeardown' /\ RetentionBounded' /\ CloseSubmitted' /\ CloseFrameLast'
  BY <1>1, CallbacksStep, RetentionStep, CloseFramesStep, Zenon
<1> QED BY <1>2, <1>3, <1>4, <1>5, <1>6, <1>7, Zenon DEF IInv

(* The inductive invariant holds in every reachable state, for every number of   *)
(* receivers, probes, frames and nested calls, provided receivers are ordinary   *)
(* futures and create_future() in recv() does not call back.                      *)
THEOREM Inductive == ASSUME Stock PROVE Spec => []IInv
<1>1. IInv /\ [Next]_vars => IInv'
  BY Zenon, InvStep
<1> QED BY InitInv, <1>1, PTL DEF Spec

(* A closed connection with no call active has settled every recv(), ping_waiter() *)
(* and handshake future: nothing take_pending, an acknowledgment or a nested call   *)
(* did can leave an awaiter behind.                                                 *)
THEOREM NeverStranded == ASSUME Stock PROVE Spec => []NoStranded
<1>1. IInv => NoStranded
  <2> SUFFICES ASSUME IInv, closed, stack = <<>>, NEW f \in Futures, fut[f] = "pending" PROVE FALSE
    BY Zenon DEF NoStranded
  <2>1. DOMAIN stack = {}
    OBVIOUS
  <2>2. f \in TakePending
    BY Zenon, <2>1 DEF IInv, PendingReachable
  <2>3. TakePending = {}
    BY Zenon DEF IInv, ClosedEmpty, TakePending
  <2> QED BY Zenon, <2>2, <2>3
<1> QED BY <1>1, Inductive, PTL


(* Two consecutive runs of message numbers concatenate to one. *)
LEMMA RunsConcat ==
  ASSUME NEW s \in Seq(Nat), NEW t \in Seq(Nat),
         \A i \in 1..Len(s) : s[i] = i, \A i \in 1..Len(t) : t[i] = Len(s) + i
  PROVE  /\ s \o t \in Seq(Nat) /\ Len(s \o t) = Len(s) + Len(t)
         /\ \A i \in 1..Len(s \o t) : (s \o t)[i] = i
<1>1. /\ s \o t \in Seq(Nat) /\ Len(s \o t) = Len(s) + Len(t)
      /\ \A i \in 1..(Len(s) + Len(t)) : (s \o t)[i] = IF i <= Len(s) THEN s[i] ELSE t[i - Len(s)]
  BY Zenon, ConcatProperties
<1>2. Len(s) \in Nat /\ Len(t) \in Nat
  OBVIOUS
<1>3. ASSUME NEW i \in 1..(Len(s) + Len(t)) PROVE (s \o t)[i] = i
  <2>1. CASE i <= Len(s)
    <3>1. i \in 1..Len(s)
      BY <1>2, <2>1
    <3> QED BY Zenon, <1>1, <2>1, <3>1
  <2>2. CASE ~(i <= Len(s))
    <3>1. i - Len(s) \in 1..Len(t)
      BY <1>2, <2>2
    <3>2. t[i - Len(s)] = Len(s) + (i - Len(s))
      BY Zenon, <3>1
    <3> QED BY <1>1, <1>2, <2>2, <3>2
  <2> QED BY Zenon, <2>1, <2>2
<1> QED BY Zenon, <1>1, <1>3

(* Messages reach the application in arrival order, each exactly once, or are still *)
(* queued, or were cleared at close(): no cancelled or timed-out recv() costs one.  *)
THEOREM NothingLost == ASSUME Stock PROVE Spec => []NoLossNoReorder
<1>1. TypeOK /\ Stream => NoLossNoReorder
  <2> SUFFICES ASSUME TypeOK, Stream PROVE NoLossNoReorder
    OBVIOUS
  <2> DEFINE n == arrived - dropped
             whole == [i \in 1..n |-> i]
             db == delivered \o backlog
             all == db \o pending_callback_msgs
  <2>1. /\ delivered \in Seq(Nat) /\ backlog \in Seq(Nat) /\ pending_callback_msgs \in Seq(Nat)
        /\ arrived \in Nat /\ dropped \in Nat
    BY Zenon DEF TypeOK, TypeMsgs
  <2>2. /\ \A i \in 1..Len(delivered) : delivered[i] = i
        /\ \A i \in 1..Len(backlog) : backlog[i] = Len(delivered) + i
        /\ \A i \in 1..Len(pending_callback_msgs) :
             pending_callback_msgs[i] = Len(delivered) + Len(backlog) + i
        /\ Len(delivered) + Len(backlog) + Len(pending_callback_msgs) = n
    BY Zenon DEF Stream
  <2>3. /\ db \in Seq(Nat) /\ Len(db) = Len(delivered) + Len(backlog)
        /\ \A i \in 1..Len(db) : db[i] = i
    BY Zenon, <2>1, <2>2, RunsConcat
  <2> HIDE DEF db
  <2>4. \A i \in 1..Len(pending_callback_msgs) : pending_callback_msgs[i] = Len(db) + i
    BY Zenon, <2>2, <2>3
  <2>5. /\ all \in Seq(Nat) /\ Len(all) = Len(db) + Len(pending_callback_msgs)
        /\ \A i \in 1..Len(all) : all[i] = i
    BY Zenon, <2>1, <2>3, <2>4, RunsConcat
  <2> HIDE DEF all
  <2>6. Len(all) = n /\ n \in Nat
    BY <2>2, <2>3, <2>5
  <2>7. whole \in Seq(Nat) /\ Len(whole) = n /\ \A i \in 1..n : whole[i] = i
    BY <2>6
  <2> HIDE DEF whole, n
  <2>8. all = whole
    BY <2>5, <2>6, <2>7, SeqEqual
  <2> QED BY Zenon, <2>8 DEF NoLossNoReorder, all, db, whole, n
<1>2. IInv => NoLossNoReorder
  BY Zenon, <1>1 DEF IInv
<1> QED BY <1>2, Inductive, PTL

(* No message waits in the backlog beside a receiver that could take it, whatever *)
(* take_live_receiver popped and park_receiver swept.                              *)
THEOREM WakeupsKept == ASSUME Stock PROVE Spec => []NoLostWakeup
<1>1. IInv => NoLostWakeup
  BY Zenon DEF IInv
<1> QED BY <1>1, Inductive, PTL

(* recv() calls are served in the order they were made. *)
THEOREM ServedInOrder == ASSUME Stock PROVE Spec => []ReceiverFifo
<1>1. IInv => ReceiverFifo
  BY Zenon DEF IInv
<1> QED BY <1>1, Inductive, PTL

(* Cancelling, reusing or nesting probes never makes another future unreachable for *)
(* take_pending, an acknowledgment or the running teardown.                          *)
THEOREM ProbesReachable == ASSUME Stock PROVE Spec => []PendingReachable
<1>1. IInv => PendingReachable
  BY Zenon DEF IInv
<1> QED BY <1>1, Inductive, PTL

(* A peer's Close, a protocol error and a lost connection deliver the queued        *)
(* on_message calls before they release the callback.                                *)
THEOREM CallbacksFirst == ASSUME Stock PROVE Spec => []CallbacksBeforeTeardown
<1>1. IInv => CallbacksBeforeTeardown
  BY Zenon DEF IInv
<1> QED BY <1>1, Inductive, PTL

(* One Close frame at most is submitted, and no control frame after it. *)
THEOREM CloseIsLast == ASSUME Stock PROVE Spec => []CloseFrameLast
<1>1. IInv => CloseFrameLast
  BY Zenon DEF IInv
<1> QED BY <1>1, Inductive, PTL

(* Every terminal path releases transport, callback and loop, and leaves the asyncio *)
(* transport closing.                                                                 *)
THEOREM TerminalStatesRelease == ASSUME Stock PROVE Spec => []TerminalReleases
<1>1. IInv => TerminalReleases
  <2> SUFFICES ASSUME IInv, closed, stack = <<>> PROVE Released
    BY Zenon DEF TerminalReleases, Released
  <2>1. ~ \E i \in DOMAIN stack : IsTeardown(i)
    OBVIOUS
  <2>2. Lifecycle
    BY Zenon DEF IInv
  <2> QED BY <2>1, <2>2, Zenon DEF Lifecycle
<1> QED BY <1>1, Inductive, PTL

(* park_receiver retains at most the sweep threshold, which follows the peak of live receivers. *)
THEOREM RetentionIsBounded == ASSUME Stock PROVE Spec => []RetentionBounded
<1>1. IInv => RetentionBounded
  BY Zenon DEF IInv
<1> QED BY <1>1, Inductive, PTL
=============================================================================

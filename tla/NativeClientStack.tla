------------------------- MODULE NativeClientStack --------------------------
(***************************************************************************)
(* How each handler moves the call stack, the types of the stack and of the *)
(* message queues, and what follows from the moves: the shape of the stack  *)
(* and the lifecycle of the connection.                                     *)
(***************************************************************************)
EXTENDS NativeClientInv, TLAPS, SequenceTheorems

USE DEF Mode, refs, parked, pings, msgs, outside

(* Writing control frames keeps the wire a sequence of control frames. *)
LEMMA WireType ==
  \A w \in Seq(Control) :
    /\ \A c \in Control : Append(w, c) \in Seq(Control)
    /\ \A n \in Nat : w \o [i \in 1..n |-> "pong"] \in Seq(Control)
<1> TAKE w \in Seq(Control)
<1>1. \A c \in Control : Append(w, c) \in Seq(Control)
  BY Zenon, AppendProperties
<1>2. ASSUME NEW n \in Nat PROVE w \o [i \in 1..n |-> "pong"] \in Seq(Control)
  <2> DEFINE pongs == [i \in 1..n |-> "pong"]
  <2>1. pongs \in Seq(Control)
    BY IsASeq DEF Control
  <2> HIDE DEF pongs
  <2>2. w \o pongs \in Seq(Control)
    BY Zenon, <2>1, ConcatProperties
  <2> QED BY Zenon, <2>2 DEF pongs
<1> QED BY Zenon, <1>1, <1>2

(* The epilogue of the fast scan writes pongs only. *)
LEMMA EndScanType == TypeOK /\ Mode("data") /\ EndScan => wire' \in Seq(Control)
<1> SUFFICES ASSUME TypeOK, Mode("data"), EndScan PROVE wire' \in Seq(Control)
  OBVIOUS
<1>1. stack[1].pongs \in Nat
  BY DEF TypeOK, TypeStack, Frame
<1> QED BY Zenon, <1>1, WireType DEF EndScan, TypeOK, TypeMsgs

(* Popping the head of a message queue leaves a message queue. *)
LEMMA QueueType ==
  \A q \in Seq(Nat) : /\ \A n \in Nat : Append(q, n) \in Seq(Nat)
                      /\ q # <<>> => Head(q) \in Nat /\ Tail(q) \in Seq(Nat)
OBVIOUS

(* A frame counted by NextFrame stays within MaxEvents. *)
LEMMA EventsType == TypeMsgs /\ NextFrame => events' \in 0..MaxEvents
BY BoundsAssumption DEF TypeMsgs, NextFrame

(* Taking the tail of the call stack, or pushing a frame, gives a call stack. *)
LEMMA StackType ==
  \A s \in Seq(Frame) :
    /\ \A f \in Frame : <<f>> \o s \in Seq(Frame)
    /\ s # <<>> => s[1] \in Frame /\ Tail(s) \in Seq(Frame)
OBVIOUS

(* Replacing the innermost call gives a call stack. *)
LEMMA ReplaceType ==
  TypeStack /\ stack # <<>> => \A f \in Frame : Replace(f) \in Seq(Frame) /\ Push(f) \in Seq(Frame)
BY Zenon, StackType DEF TypeStack, Replace, Push

(* The frames the handlers push are frames. *)
LEMMA FrameTypes ==
  /\ \A fast \in BOOLEAN, acks \in SUBSET Probes, n \in Nat : DataFrame(fast, acks, n) \in Frame
  /\ \A then \in {"return", "peer_close", "protocol_error", "lost"}, S \in SUBSET Futures,
        tr \in BOOLEAN : FlushFrame(then, S, tr) \in Frame
  /\ RecvFrame \in Frame
  /\ \A at \in {"done", "create", "write"}, p \in Payloads, q \in Probes \cup {NoFuture} :
        PingFrame(at, p, q) \in Frame
BY Zenon DEF DataFrame, FlushFrame, RecvFrame, PingFrame, Frame

(* What the innermost call holds has the type its kind says. *)
LEMMA TopTypes ==
  ASSUME TypeStack, stack # <<>>
  PROVE  /\ stack[1].op = "data" => /\ stack[1].fast \in BOOLEAN
                                    /\ stack[1].acks \in SUBSET Probes
                                    /\ stack[1].pongs \in Nat
                                    /\ \A S \in SUBSET Probes : [stack[1] EXCEPT !.acks = S] \in Frame
                                    /\ \A n \in Nat : [stack[1] EXCEPT !.pongs = n] \in Frame
         /\ stack[1].op = "flush" => /\ stack[1].pending \in SUBSET Futures
                                     /\ \A b \in BOOLEAN : [stack[1] EXCEPT !.running = b] \in Frame
         /\ stack[1].op = "ping" => /\ stack[1].payload \in Payloads
                                    /\ stack[1].probe \in Probes \cup {NoFuture}
<1>1. stack[1] \in Frame
  BY Zenon, StackType DEF TypeStack
<1> QED BY Zenon, <1>1 DEF Frame

(* take_pending returns futures. *)
LEMMA TakePendingType == TypeOK => TakePending \in SUBSET Futures
BY Zenon DEF TypeOK, TypeParked, TypePings, TakePending, Futures, Handshake

(* What pushing, replacing and popping do to each position of a call stack. *)
LEMMA StackOps ==
  \A s \in Seq(Frame) :
    /\ \A f \in Frame : /\ Len(<<f>> \o s) = Len(s) + 1
                        /\ DOMAIN (<<f>> \o s) = 1..(Len(s) + 1)
                        /\ (<<f>> \o s)[1] = f
                        /\ \A i \in 2..(Len(s) + 1) : (<<f>> \o s)[i] = s[i - 1]
    /\ s # <<>> => /\ Len(s) >= 1 /\ Len(Tail(s)) = Len(s) - 1
                   /\ DOMAIN Tail(s) = 1..(Len(s) - 1)
                   /\ \A i \in 1..(Len(s) - 1) : Tail(s)[i] = s[i + 1]
    /\ DOMAIN s = 1..Len(s) /\ Len(s) \in Nat
    /\ \A i \in DOMAIN s : s[i] \in Frame
OBVIOUS

(* Replacing the innermost call changes position 1 only. *)
LEMMA Replaced ==
  TypeStack /\ stack # <<>> =>
    \A f \in Frame : /\ Len(Replace(f)) = Len(stack) /\ DOMAIN Replace(f) = 1..Len(stack)
                     /\ Replace(f)[1] = f
                     /\ \A i \in 2..Len(stack) : Replace(f)[i] = stack[i]
<1> SUFFICES ASSUME TypeStack, stack # <<>>, NEW f \in Frame
             PROVE  /\ Len(Replace(f)) = Len(stack) /\ DOMAIN Replace(f) = 1..Len(stack)
                    /\ Replace(f)[1] = f
                    /\ \A i \in 2..Len(stack) : Replace(f)[i] = stack[i]
  OBVIOUS
<1>1. Tail(stack) \in Seq(Frame)
  BY Zenon, StackType DEF TypeStack
<1> QED BY <1>1, StackOps DEF TypeStack, Replace

(* The innermost call is at position 1. *)
LEMMA HasTop ==
  TypeStack => /\ stack # <<>> => 1 \in DOMAIN stack
               /\ DOMAIN stack = 1..Len(stack) /\ Len(stack) \in Nat
BY StackOps DEF TypeStack

(* User calls and call-outs never run on top of a parsing handler. *)
LEMMA NotParsing ==
  TypeStack /\ StackShape /\ stack # <<>> /\ ~Mode("data") => \A i \in DOMAIN stack : ~IsData(i)
BY StackOps DEF StackShape, IsData, TypeStack

(* Where Python may call back, the innermost call is a callback or a probe. *)
LEMMA CalledOutFrames ==
  TypeStack /\ StackShape /\ Stock /\ CalledOut =>
    \A i \in DOMAIN stack : ~IsData(i) /\ stack[i].op # "recv"
<1> SUFFICES ASSUME TypeStack, StackShape, Stock, CalledOut, NEW i \in DOMAIN stack
             PROVE  ~IsData(i) /\ stack[i].op # "recv"
  OBVIOUS
<1>1. stack # <<>> /\ stack[1].op \in {"flush", "ping"}
  BY StackOps DEF CalledOut, Stock, TypeStack
<1> QED BY <1>1, StackOps DEF StackShape, IsData, TypeStack

(* While a frame is parsed the connection is open and no other call is active. *)
LEMMA ParsingAlone ==
  TypeStack /\ StackShape /\ Mode("data") => Len(stack) = 1 /\ ~closed /\ DOMAIN stack = {1}
BY StackOps DEF TypeStack, StackShape, IsData

Pushes(f) ==
  /\ f \in Frame /\ Len(stack') = Len(stack) + 1 /\ DOMAIN stack' = 1..(Len(stack) + 1)
  /\ stack'[1] = f /\ \A i \in 2..(Len(stack) + 1) : stack'[i] = stack[i - 1]
Swaps(f) ==
  /\ f \in Frame /\ Len(stack') = Len(stack) /\ DOMAIN stack' = 1..Len(stack) /\ Len(stack) >= 1
  /\ stack'[1] = f /\ \A i \in 2..Len(stack) : stack'[i] = stack[i]
Pops ==
  /\ Len(stack') = Len(stack) - 1 /\ DOMAIN stack' = 1..(Len(stack) - 1) /\ Len(stack) >= 1
  /\ \A i \in 1..(Len(stack) - 1) : stack'[i] = stack[i + 1]
Stays == stack' = stack

(* Every stack update is one of the four moves Pushes, Swaps, Pops and Stays. *)
LEMMA StackMoves ==
  TypeStack =>
    /\ \A f \in Frame : stack' = Push(f) => Pushes(f)
    /\ \A f \in Frame : stack # <<>> /\ stack' = Replace(f) => Swaps(f)
    /\ stack # <<>> /\ stack' = Tail(stack) => Pops
    /\ DOMAIN stack = 1..Len(stack) /\ Len(stack) \in Nat
    /\ stack = <<>> <=> Len(stack) = 0
    /\ \A i \in DOMAIN stack : stack[i] \in Frame
<1> SUFFICES ASSUME TypeStack
             PROVE /\ \A f \in Frame : stack' = Push(f) => Pushes(f)
                   /\ \A f \in Frame : stack # <<>> /\ stack' = Replace(f) => Swaps(f)
                   /\ stack # <<>> /\ stack' = Tail(stack) => Pops
                   /\ DOMAIN stack = 1..Len(stack) /\ Len(stack) \in Nat
                   /\ stack = <<>> <=> Len(stack) = 0
                   /\ \A i \in DOMAIN stack : stack[i] \in Frame
  OBVIOUS
<1>1. \A f \in Frame : stack' = Push(f) => Pushes(f)
  <2> TAKE f \in Frame
  <2> HAVE stack' = Push(f)
  <2>1. stack' = <<f>> \o stack /\ stack \in Seq(Frame)
    BY Zenon DEF Push, TypeStack
  <2>2. /\ Len(<<f>> \o stack) = Len(stack) + 1
        /\ DOMAIN (<<f>> \o stack) = 1..(Len(stack) + 1)
        /\ (<<f>> \o stack)[1] = f
        /\ \A i \in 2..(Len(stack) + 1) : (<<f>> \o stack)[i] = stack[i - 1]
    BY Zenon, <2>1, StackOps
  <2> QED BY <2>1, <2>2, Zenon DEF Pushes
<1>2. \A f \in Frame : stack # <<>> /\ stack' = Replace(f) => Swaps(f)
  <2>1. stack # <<>> => Len(stack) >= 1
    BY Zenon, StackOps DEF TypeStack
  <2> QED BY <2>1, Replaced DEF Swaps
<1>3. stack # <<>> /\ stack' = Tail(stack) => Pops
  BY StackOps DEF TypeStack, Pops
<1>4. DOMAIN stack = 1..Len(stack) /\ Len(stack) \in Nat /\ (\A i \in DOMAIN stack : stack[i] \in Frame)
  BY Zenon, StackOps DEF TypeStack
<1>5. stack = <<>> <=> Len(stack) = 0
  BY DEF TypeStack
<1> QED BY Zenon, <1>1, <1>2, <1>3, <1>4, <1>5

(* After a swap, the new frame is at the top. *)
LEMMA SwapsTop == ASSUME TypeStack, NEW f, Swaps(f) PROVE 1 \in DOMAIN stack' /\ stack'[1] = f
<1>1. Len(stack) \in Nat /\ Len(stack) >= 1 /\ DOMAIN stack' = 1..Len(stack)
  BY Zenon, StackMoves DEF Swaps
<1>2. stack'[1] = f
  BY Zenon DEF Swaps
<1> QED BY SMTT(30), <1>1, <1>2

(* Updating one field of the innermost call gives the frame with that field replaced. *)
LEMMA TopFrame ==
  ASSUME TypeStack, stack # <<>>
  PROVE  /\ stack[1].op = "data" =>
              /\ \A S : [stack[1] EXCEPT !.acks = S] = DataFrame(stack[1].fast, S, stack[1].pongs)
              /\ \A n : [stack[1] EXCEPT !.pongs = n] = DataFrame(stack[1].fast, stack[1].acks, n)
         /\ stack[1].op = "flush" =>
              \A b : [stack[1] EXCEPT !.running = b]
                       = [op |-> "flush", then |-> stack[1].then, pending |-> stack[1].pending,
                          transport |-> stack[1].transport, running |-> b]
<1>1. stack[1] \in Frame
  BY Zenon, StackType DEF TypeStack
<1> QED BY <1>1 DEF Frame, DataFrame

(* What a Pong does to the stack: nothing on the slow path, hold the probe on the fast one. *)
LEMMA PongMoves ==
  ASSUME TypeOK, NEW p \in Payloads, PongIn(p)
  PROVE  /\ ~stack[1].fast => Stays
         /\ stack[1].fast =>
              Swaps(DataFrame(stack[1].fast, stack[1].acks \cup ({pending_pings[p]} \ {NoFuture}),
                              stack[1].pongs))
<1>0. TypeStack
  BY Zenon DEF TypeOK
<1>1. Mode("data")
  BY Zenon DEF PongIn, NextFrame
<1>2. stack[1].fast \in BOOLEAN /\ stack[1].acks \in SUBSET Probes /\ stack[1].pongs \in Nat
  BY Zenon, <1>0, <1>1, TopTypes
<1> DEFINE acks == stack[1].acks \cup ({pending_pings[p]} \ {NoFuture})
<1>3. acks \in SUBSET Probes
  BY Zenon, <1>2 DEF TypeOK, TypePings
<1>4. (stack[1].fast => stack' = Replace([stack[1] EXCEPT !.acks = acks])) /\ (~stack[1].fast => stack' = stack)
  BY Zenon DEF PongIn
<1> HIDE DEF acks
<1>5. DataFrame(stack[1].fast, acks, stack[1].pongs) \in Frame
  BY Zenon, <1>2, <1>3, FrameTypes
<1>6. stack[1].fast => stack' = Replace(DataFrame(stack[1].fast, acks, stack[1].pongs))
  BY Zenon, <1>0, <1>1, <1>4, TopFrame
<1>7. stack[1].fast => Swaps(DataFrame(stack[1].fast, acks, stack[1].pongs))
  BY Zenon, <1>0, <1>1, <1>5, <1>6, StackMoves
<1> QED BY <1>4, <1>7, Zenon DEF acks, Stays

SameFlush(f, g) ==
  f.op = "flush" /\ f.then = g.then /\ f.pending = g.pending /\ f.transport = g.transport

(* Which of the four stack moves each handler makes. *)
LEMMA ActionMoves ==
  ASSUME TypeOK
  PROVE  /\ RecvCall => Pushes(RecvFrame)
         /\ \A p \in Payloads : PingCall(p) =>
              \E at \in {"done", "create"} : Pushes(PingFrame(at, p, pending_pings[p]))
         /\ DataReceived => \E fast \in BOOLEAN : Pushes(DataFrame(fast, {}, 0))
         /\ ConnectionLost => Pushes(FlushFrame("lost", {}, FALSE))
         /\ RecvPark \/ PingWritten \/ FlushReturn \/ FlushApplyClose \/ FlushLost => Pops
         /\ PingDone => Pops \/ Swaps(PingFrame("create", stack[1].payload, NoFuture))
         /\ PingRegister => Pops \/ Swaps(PingFrame("write", stack[1].payload, MaxRecv + probes + 1))
         /\ PingWriteFails => Swaps(FlushFrame("lost", {}, FALSE))
         /\ HandshakeIn => Stays \/ Swaps(FlushFrame("return", {}, FALSE))
         /\ DataEnd => Swaps(FlushFrame("return", {}, FALSE))
         /\ FallBack => Swaps(DataFrame(FALSE, {}, 0))
         /\ CloseIn => Swaps(FlushFrame("peer_close", TakePending, transport))
         /\ ProtocolErrorIn => Swaps(FlushFrame("protocol_error", TakePending, transport))
         /\ PingIn => Stays \/ \E n \in Nat : Swaps(DataFrame(stack[1].fast, stack[1].acks, n))
         /\ FlushPop \/ CallbackReturn => \E f \in Frame : Swaps(f) /\ SameFlush(f, stack[1])
<1>0. TypeStack
  BY Zenon DEF TypeOK
<1>1. RecvCall => Pushes(RecvFrame)
  BY Zenon, <1>0, StackMoves, FrameTypes DEF RecvCall
<1>2. ASSUME NEW p \in Payloads, PingCall(p)
      PROVE  \E at \in {"done", "create"} : Pushes(PingFrame(at, p, pending_pings[p]))
  <2>1. \A at \in {"done", "create"} : PingFrame(at, p, pending_pings[p]) \in Frame
    BY Zenon, FrameTypes DEF TypeOK, TypePings
  <2>2. \E at \in {"done", "create"} : stack' = Push(PingFrame(at, p, pending_pings[p]))
    BY Zenon, <1>2 DEF PingCall
  <2> QED BY Zenon, <1>0, <2>1, <2>2, StackMoves
<1>3. DataReceived => \E fast \in BOOLEAN : Pushes(DataFrame(fast, {}, 0))
  <2>1. FALSE \in BOOLEAN /\ handshake_done \in BOOLEAN
    BY Zenon DEF TypeOK, TypeFlags
  <2> QED BY Zenon, <1>0, <2>1, StackMoves, FrameTypes DEF DataReceived
<1>4. ConnectionLost => Pushes(FlushFrame("lost", {}, FALSE))
  BY Zenon, <1>0, StackMoves, FrameTypes DEF ConnectionLost
<1>5. RecvPark \/ PingWritten \/ FlushReturn \/ FlushApplyClose \/ FlushLost => Pops
  BY Zenon, <1>0, StackMoves DEF RecvPark, PingWritten, FlushReturn, FlushApplyClose, FlushLost
<1>6. PingDone => Pops \/ Swaps(PingFrame("create", stack[1].payload, NoFuture))
  <2> HAVE PingDone
  <2>1. PingFrame("create", stack[1].payload, NoFuture) \in Frame /\ stack # <<>>
    BY Zenon, <1>0, FrameTypes, TopTypes DEF PingDone
  <2>2. stack' = Tail(stack) \/ stack' = Replace(PingFrame("create", stack[1].payload, NoFuture))
    BY Zenon DEF PingDone
  <2> QED BY Zenon, <1>0, <2>1, <2>2, StackMoves
<1>7. PingRegister => Pops \/ Swaps(PingFrame("write", stack[1].payload, MaxRecv + probes + 1))
  <2> HAVE PingRegister
  <2> DEFINE q == MaxRecv + probes + 1
  <2>1. q \in Probes
    BY BoundsAssumption DEF PingRegister, TypeOK, TypePings, Probes
  <2>2. stack' = Tail(stack) \/ stack' = Replace(PingFrame("write", stack[1].payload, q))
    BY Zenon DEF PingRegister
  <2> HIDE DEF q
  <2>3. PingFrame("write", stack[1].payload, q) \in Frame /\ stack # <<>>
    BY Zenon, <1>0, <2>1, FrameTypes, TopTypes DEF PingRegister
  <2>4. Pops \/ Swaps(PingFrame("write", stack[1].payload, q))
    BY Zenon, <1>0, <2>2, <2>3, StackMoves
  <2> QED BY Zenon, <2>4 DEF q
<1>8. PingWriteFails => Swaps(FlushFrame("lost", {}, FALSE))
  BY Zenon, <1>0, StackMoves, FrameTypes DEF PingWriteFails
<1>9. HandshakeIn => Stays \/ Swaps(FlushFrame("return", {}, FALSE))
  <2> HAVE HandshakeIn
  <2>1. stack # <<>> /\ (stack' = stack \/ stack' = Replace(FlushFrame("return", {}, FALSE)))
    BY Zenon DEF HandshakeIn, NextFrame
  <2> QED BY Zenon, <1>0, <2>1, StackMoves, FrameTypes DEF Stays
<1>10. DataEnd => Swaps(FlushFrame("return", {}, FALSE))
  BY Zenon, <1>0, StackMoves, FrameTypes DEF DataEnd
<1>11. FallBack => Swaps(DataFrame(FALSE, {}, 0))
  BY Zenon, <1>0, StackMoves, FrameTypes DEF FallBack
<1>12. CloseIn => Swaps(FlushFrame("peer_close", TakePending, transport))
  <2>1. FlushFrame("peer_close", TakePending, transport) \in Frame
    BY Zenon, FrameTypes, TakePendingType DEF TypeOK, TypeFlags
  <2> QED BY Zenon, <1>0, <2>1, StackMoves DEF CloseIn, BeginClose, NextFrame
<1>13. ProtocolErrorIn => Swaps(FlushFrame("protocol_error", TakePending, transport))
  <2>1. FlushFrame("protocol_error", TakePending, transport) \in Frame
    BY Zenon, FrameTypes, TakePendingType DEF TypeOK, TypeFlags
  <2> QED BY Zenon, <1>0, <2>1, StackMoves DEF ProtocolErrorIn, BeginClose, NextFrame
<1>14. PingIn => Stays \/ \E n \in Nat : Swaps(DataFrame(stack[1].fast, stack[1].acks, n))
  <2> HAVE PingIn
  <2>1. Mode("data")
    BY Zenon DEF PingIn, NextFrame
  <2>2. stack[1].fast \in BOOLEAN /\ stack[1].acks \in SUBSET Probes /\ stack[1].pongs \in Nat
    BY Zenon, <1>0, <2>1, TopTypes
  <2>3. stack[1].pongs + (IF transport THEN 1 ELSE 0) \in Nat
    BY <2>2
  <2>4. \/ stack' = stack
        \/ \E n \in Nat : stack' = Replace(DataFrame(stack[1].fast, stack[1].acks, n))
    BY Zenon, <1>0, <2>1, <2>3, TopFrame DEF PingIn
  <2>5. \A n \in Nat : DataFrame(stack[1].fast, stack[1].acks, n) \in Frame
    BY Zenon, <2>2, FrameTypes
  <2> QED BY Zenon, <1>0, <2>1, <2>4, <2>5, StackMoves DEF Stays
<1>16. FlushPop \/ CallbackReturn => \E f \in Frame : Swaps(f) /\ SameFlush(f, stack[1])
  <2> SUFFICES ASSUME FlushPop \/ CallbackReturn
               PROVE  \E f \in Frame : Swaps(f) /\ SameFlush(f, stack[1])
    OBVIOUS
  <2>1. Mode("flush") /\ \E b \in BOOLEAN : stack' = Replace([stack[1] EXCEPT !.running = b])
    BY Zenon DEF FlushPop, CallbackReturn
  <2>2. PICK b \in BOOLEAN : stack' = Replace([stack[1] EXCEPT !.running = b])
    BY Zenon, <2>1
  <2> DEFINE f == [stack[1] EXCEPT !.running = b]
  <2>3. f \in Frame
    BY Zenon, <1>0, <2>1, TopTypes
  <2>4. SameFlush(f, stack[1])
    BY <1>0, <2>1, TopFrame DEF SameFlush
  <2> HIDE DEF f
  <2>5. Swaps(f)
    BY Zenon, <1>0, <2>1, <2>2, <2>3, StackMoves DEF f
  <2> QED BY Zenon, <2>3, <2>4, <2>5
<1> QED BY Zenon, <1>1, <1>2, <1>3, <1>4, <1>5, <1>6, <1>7, <1>8, <1>9, <1>10, <1>11, <1>12, <1>13,
           <1>14, <1>16

(* Receivers, probes and the handshake are distinct futures. *)
LEMMA FutureKinds ==
  /\ Receivers \cap Probes = {} /\ Handshake \notin Receivers /\ Handshake \notin Probes
  /\ NoFuture \notin Futures
  /\ Receivers \subseteq Futures /\ Probes \subseteq Futures /\ Handshake \in Futures
BY BoundsAssumption DEF Receivers, Probes, Futures, Handshake, NoFuture

(* The next recv() future is a fresh receiver. *)
LEMMA NextReceiver == TypeParked /\ recvs < MaxRecv => recvs + 1 \in Receivers /\ recvs + 1 \notin Probes
BY BoundsAssumption DEF TypeParked, Receivers, Probes

(* The next ping_waiter() future is a fresh probe. *)
LEMMA NextProbe == TypePings /\ probes < MaxProbe => MaxRecv + probes + 1 \in Probes
BY BoundsAssumption DEF TypePings, Probes

(* Settling touches pending futures of the given set only. *)
LEMMA SettleFacts ==
  \A f \in [Futures -> Status], S, status \in Status :
    /\ Settle(f, S, status) \in [Futures -> Status]
    /\ \A x \in Futures : /\ f[x] # "pending" => Settle(f, S, status)[x] = f[x]
                          /\ x \notin S => Settle(f, S, status)[x] = f[x]
                          /\ x \in S /\ status # "pending" => Settle(f, S, status)[x] # "pending"
                          /\ f[x] # "free" /\ status # "free" => Settle(f, S, status)[x] # "free"
                          /\ status # "pending" /\ Settle(f, S, status)[x] = "pending" => f[x] = "pending"
BY SMTT(30) DEF Settle

(* closed is only ever set, and the transport only ever moves towards lost. *)
Advances ==
  /\ closed => closed'
  /\ handshake_done => handshake_done'
  /\ link \in {"closing", "lost"} => link' \in {"closing", "lost"}

(* closed, handshake_done and a closing link are never undone. *)
LEMMA AlwaysAdvances == TypeOK /\ Stock /\ [Next]_vars => Advances
<1> SUFFICES ASSUME TypeOK, Stock, [Next]_vars PROVE Advances
  OBVIOUS
<1> USE DEF TypeOK, TypeFlags, Advances
<1>1. CASE ConnectionMade
  BY Zenon, <1>1 DEF ConnectionMade
<1>2. CASE Close
  BY Zenon, <1>2 DEF Close, DoClose, ReleaseReferences, ClearPending, Closing
<1>3. CASE HelperRaise
  BY Zenon, <1>3 DEF HelperRaise, DoClose, ReleaseReferences, ClearPending, Closing
<1>4. CASE HelperReturn
  BY Zenon, <1>4 DEF HelperReturn
<1>5. CASE RecvReady
  BY Zenon, <1>5 DEF RecvReady
<1>6. CASE RecvCall
  BY Zenon, <1>6 DEF RecvCall
<1>7. CASE RecvPark
  BY Zenon, <1>7 DEF RecvPark
<1>8. ASSUME NEW f \in Receivers \cup Probes, Cancel(f) PROVE Advances
  BY Zenon, <1>8 DEF Cancel
<1>9. ASSUME NEW p \in Payloads, PingCall(p) PROVE Advances
  BY Zenon, <1>9 DEF PingCall
<1>10. CASE PingDone
  BY Zenon, <1>10 DEF PingDone
<1>11. CASE PingRegister
  BY Zenon, <1>11 DEF PingRegister
<1>12. CASE PingWritten
  BY Zenon, <1>12 DEF PingWritten
<1>13. CASE PingWriteFails
  BY Zenon, <1>13 DEF PingWriteFails, Closing
<1>14. ASSUME NEW q \in Probes, RunCleanup(q) PROVE Advances
  BY Zenon, <1>14 DEF RunCleanup
<1>15. CASE DataReceived
  BY Zenon, <1>15 DEF DataReceived
<1>16. CASE HandshakeIn
  BY Zenon, <1>16 DEF HandshakeIn, NextFrame
<1>17. CASE MessageIn
  BY Zenon, <1>17 DEF MessageIn, NextFrame, TakeLiveReceiver
<1>18. CASE MessageRejected
  BY Zenon, <1>18 DEF MessageRejected, Stock
<1>19. CASE PingIn
  BY Zenon, <1>19 DEF PingIn, NextFrame
<1>20. ASSUME NEW p \in Payloads, PongIn(p) PROVE Advances
  BY Zenon, <1>20 DEF PongIn, NextFrame
<1>21. CASE OtherIn
  BY Zenon, <1>21 DEF OtherIn, NextFrame
<1>22. CASE DataEnd
  BY Zenon, <1>22 DEF DataEnd, EndScan
<1>23. CASE FallBack
  BY Zenon, <1>23 DEF FallBack, EndScan
<1>24. CASE CloseIn
  BY Zenon, <1>24 DEF CloseIn, NextFrame, EndScan, BeginClose, ClearPending
<1>25. CASE ProtocolErrorIn
  BY Zenon, <1>25 DEF ProtocolErrorIn, NextFrame, BeginClose, ClearPending
<1>26. CASE FlushPop
  BY Zenon, <1>26 DEF FlushPop
<1>27. CASE CallbackReturn
  BY Zenon, <1>27 DEF CallbackReturn
<1>28. CASE FlushReturn
  BY Zenon, <1>28 DEF FlushReturn, FlushEnds, Closing, Raised
<1>29. CASE FlushApplyClose
  BY Zenon, <1>29 DEF FlushApplyClose, FlushEnds, ReleaseReferences, Closing, Raised
<1>30. CASE ConnectionLost
  BY Zenon, <1>30 DEF ConnectionLost
<1>31. CASE FlushLost
  BY Zenon, <1>31 DEF FlushLost, FlushEnds, ReleaseReferences, ClearPending
<1>32. CASE UNCHANGED vars
  BY Zenon, <1>32 DEF vars
<1> QED BY Zenon, <1>1, <1>2, <1>3, <1>4, <1>5, <1>6, <1>7, <1>8, <1>9, <1>10, <1>11, <1>12, <1>13,
     <1>14, <1>15, <1>16, <1>17, <1>18, <1>19, <1>20, <1>21, <1>22, <1>23, <1>24, <1>25, <1>26,
     <1>27, <1>28, <1>29, <1>30, <1>31, <1>32 DEF Next, InnerStep, Application, EventLoop

(* The message queues hold message numbers. *)
LEMMA TypeMsgsStep == TypeOK /\ [Next]_vars => TypeMsgs'
<1> SUFFICES ASSUME TypeOK, [Next]_vars PROVE TypeMsgs'
  OBVIOUS
<1> USE DEF TypeOK, TypeMsgs
<1>1. CASE ConnectionMade
  BY Zenon, <1>1 DEF ConnectionMade
<1>2. CASE Close
  BY SMTT(30), <1>2, BoundsAssumption DEF Close, DoClose, ReleaseReferences, ClearPending, Closing, Control
<1>3. CASE HelperRaise
  BY <1>3, BoundsAssumption DEF HelperRaise, DoClose, ReleaseReferences, ClearPending, Closing,
       Control
<1>4. CASE HelperReturn
  BY Zenon, <1>4 DEF HelperReturn
<1>5. CASE RecvReady
  BY SMTT(30), <1>5, BoundsAssumption DEF RecvReady, Control
<1>6. CASE RecvCall
  BY Zenon, <1>6 DEF RecvCall
<1>7. CASE RecvPark
  BY Zenon, <1>7 DEF RecvPark
<1>8. ASSUME NEW f \in Receivers \cup Probes, Cancel(f) PROVE TypeMsgs'
  BY Zenon, <1>8 DEF Cancel
<1>9. ASSUME NEW p \in Payloads, PingCall(p) PROVE TypeMsgs'
  BY Zenon, <1>9 DEF PingCall
<1>10. CASE PingDone
  BY Zenon, <1>10 DEF PingDone
<1>11. CASE PingRegister
  <2>1. wire' = wire \/ wire' = Append(wire, "ping")
    BY Zenon, <1>11 DEF PingRegister
  <2>2. wire' \in Seq(Control)
    BY Zenon, <2>1, WireType DEF Control
  <2> QED BY Zenon, <1>11, <2>2 DEF PingRegister
<1>12. CASE PingWritten
  BY Zenon, <1>12 DEF PingWritten
<1>13. CASE PingWriteFails
  BY Zenon, <1>13 DEF PingWriteFails, Closing
<1>14. ASSUME NEW q \in Probes, RunCleanup(q) PROVE TypeMsgs'
  BY Zenon, <1>14 DEF RunCleanup
<1>15. CASE DataReceived
  BY Zenon, <1>15 DEF DataReceived
<1>16. CASE HandshakeIn
  <2>1. events' \in 0..MaxEvents
    BY Zenon, <1>16, EventsType DEF HandshakeIn
  <2>2. wire' \in Seq(Control)
    BY Zenon, <1>16 DEF HandshakeIn
  <2> QED BY Zenon, <1>16, <2>1, <2>2 DEF HandshakeIn, TakeLiveReceiver
<1>17. CASE MessageIn
  <2>1. events' \in 0..MaxEvents
    BY Zenon, <1>17, EventsType DEF MessageIn
  <2>2. arrived' = arrived + 1 /\ arrived' \in Nat
    BY SMTT(30), <1>17 DEF MessageIn
  <2>3. /\ backlog' \in {backlog, Append(backlog, arrived + 1)}
        /\ pending_callback_msgs' \in {pending_callback_msgs, Append(pending_callback_msgs, arrived + 1)}
        /\ delivered' \in {delivered, Append(delivered, arrived + 1)}
        /\ UNCHANGED <<dropped, wire>>
    BY Zenon, <1>17 DEF MessageIn
  <2>4. backlog' \in Seq(Nat) /\ pending_callback_msgs' \in Seq(Nat) /\ delivered' \in Seq(Nat)
    BY Zenon, <2>2, <2>3, QueueType
  <2> QED BY Zenon, <2>1, <2>2, <2>3, <2>4
<1>18. CASE MessageRejected
  <2>1. events' \in 0..MaxEvents
    BY Zenon, <1>18, EventsType DEF MessageRejected
  <2>2. wire' \in Seq(Control)
    BY Zenon, <1>18 DEF MessageRejected
  <2> QED BY <1>18, <2>1, <2>2 DEF MessageRejected, TakeLiveReceiver
<1>19. CASE PingIn
  <2>1. events' \in 0..MaxEvents
    BY Zenon, <1>19, EventsType DEF PingIn
  <2>2. wire' = wire \/ wire' = Append(wire, "pong")
    BY Zenon, <1>19 DEF PingIn
  <2>3. wire' \in Seq(Control)
    BY Zenon, <2>2, WireType DEF Control
  <2> QED BY Zenon, <1>19, <2>1, <2>3 DEF PingIn
<1>20. ASSUME NEW p \in Payloads, PongIn(p) PROVE TypeMsgs'
  BY SMTT(30), <1>20, BoundsAssumption DEF PongIn, NextFrame, Control
<1>21. CASE OtherIn
  BY <1>21, BoundsAssumption DEF OtherIn, NextFrame, Control
<1>22. CASE DataEnd
  BY Zenon, <1>22, EndScanType DEF DataEnd
<1>23. CASE FallBack
  BY Zenon, <1>23, EndScanType DEF FallBack
<1>24. CASE CloseIn
  <2>1. events' \in 0..MaxEvents
    BY Zenon, <1>24, EventsType DEF CloseIn
  <2>2. wire' \in Seq(Control)
    BY Zenon, <1>24, EndScanType DEF CloseIn, BeginClose, NextFrame
  <2> QED BY Zenon, <1>24, <2>1, <2>2 DEF CloseIn, TakeLiveReceiver, BeginClose
<1>25. CASE ProtocolErrorIn
  <2>1. events' \in 0..MaxEvents
    BY Zenon, <1>25, EventsType DEF ProtocolErrorIn
  <2>2. wire' \in Seq(Control)
    BY Zenon, <1>25 DEF ProtocolErrorIn, BeginClose
  <2> QED BY Zenon, <1>25, <2>1, <2>2 DEF ProtocolErrorIn, TakeLiveReceiver, BeginClose
<1>26. CASE FlushPop
  <2>1. Head(pending_callback_msgs) \in Nat /\ pending_callback_msgs' \in Seq(Nat)
    BY Zenon, <1>26, QueueType DEF FlushPop
  <2>2. delivered' \in Seq(Nat)
    BY Zenon, <1>26, <2>1, QueueType DEF FlushPop
  <2> QED BY Zenon, <1>26, <2>1, <2>2 DEF FlushPop
<1>27. CASE CallbackReturn
  BY Zenon, <1>27 DEF CallbackReturn
<1>28. CASE FlushReturn
  BY Zenon, <1>28 DEF FlushReturn, FlushEnds, Closing, Raised
<1>29. CASE FlushApplyClose
  BY SMTT(30), <1>29, BoundsAssumption DEF FlushApplyClose, FlushEnds, ReleaseReferences, Closing, Raised,
       Control
<1>30. CASE ConnectionLost
  BY Zenon, <1>30 DEF ConnectionLost
<1>31. CASE FlushLost
  BY SMTT(30), <1>31, BoundsAssumption DEF FlushLost, FlushEnds, ReleaseReferences, ClearPending, Control
<1>32. CASE UNCHANGED vars
  BY Zenon, <1>32 DEF vars
<1> QED BY Zenon, <1>1, <1>2, <1>3, <1>4, <1>5, <1>6, <1>7, <1>8, <1>9, <1>10, <1>11, <1>12, <1>13,
     <1>14, <1>15, <1>16, <1>17, <1>18, <1>19, <1>20, <1>21, <1>22, <1>23, <1>24, <1>25, <1>26,
     <1>27, <1>28, <1>29, <1>30, <1>31, <1>32 DEF Next, InnerStep, Application, EventLoop

(* Every handler leaves a well-formed call stack. *)
LEMMA TypeStackStep == TypeOK /\ [Next]_vars => TypeStack'
<1> SUFFICES ASSUME TypeOK, [Next]_vars PROVE TypeStack'
  OBVIOUS
<1> USE DEF TypeOK, TypeStack
<1>1. CASE ConnectionMade
  BY Zenon, <1>1 DEF ConnectionMade
<1>2. CASE Close
  BY Zenon, <1>2 DEF Close, DoClose, ReleaseReferences, ClearPending, Closing
<1>3. CASE HelperRaise
  BY Zenon, <1>3 DEF HelperRaise, DoClose, ReleaseReferences, ClearPending, Closing
<1>4. CASE HelperReturn
  BY Zenon, <1>4 DEF HelperReturn
<1>5. CASE RecvReady
  BY Zenon, <1>5 DEF RecvReady
<1>6. CASE RecvCall
  BY Zenon, <1>6, FrameTypes, StackType DEF RecvCall, Push
<1>7. CASE RecvPark
  BY Zenon, <1>7, StackType DEF RecvPark
<1>8. ASSUME NEW f \in Receivers \cup Probes, Cancel(f) PROVE TypeStack'
  BY Zenon, <1>8 DEF Cancel
<1>9. ASSUME NEW p \in Payloads, PingCall(p) PROVE TypeStack'
  <2>1. \A at \in {"done", "create", "write"} : PingFrame(at, p, pending_pings[p]) \in Frame
    BY Zenon, FrameTypes DEF TypePings
  <2> QED BY Zenon, <1>9, <2>1, StackType DEF PingCall, Push
<1>10. CASE PingDone
  <2>1. PingFrame("create", stack[1].payload, NoFuture) \in Frame
    BY Zenon, <1>10, FrameTypes, TopTypes DEF PingDone
  <2>2. stack' = Tail(stack) \/ stack' = Replace(PingFrame("create", stack[1].payload, NoFuture))
    BY Zenon, <1>10 DEF PingDone
  <2> QED BY Zenon, <1>10, <2>1, <2>2, ReplaceType, StackType DEF PingDone
<1>11. CASE PingRegister
  <2> DEFINE q == MaxRecv + probes + 1
  <2>1. q \in Probes
    BY <1>11, BoundsAssumption DEF PingRegister, TypePings, Probes
  <2>2. stack' = Tail(stack) \/ stack' = Replace(PingFrame("write", stack[1].payload, q))
    BY Zenon, <1>11 DEF PingRegister
  <2> HIDE DEF q
  <2>3. PingFrame("write", stack[1].payload, q) \in Frame
    BY Zenon, <1>11, <2>1, FrameTypes, TopTypes DEF PingRegister
  <2> QED BY Zenon, <1>11, <2>2, <2>3, ReplaceType, StackType DEF PingRegister
<1>12. CASE PingWritten
  BY Zenon, <1>12, StackType DEF PingWritten
<1>13. CASE PingWriteFails
  <2>1. FlushFrame("lost", {}, FALSE) \in Frame
    BY Zenon, FrameTypes
  <2> QED BY Zenon, <1>13, <2>1, ReplaceType DEF PingWriteFails
<1>14. ASSUME NEW q \in Probes, RunCleanup(q) PROVE TypeStack'
  BY Zenon, <1>14 DEF RunCleanup
<1>15. CASE DataReceived
  <2>1. \A fast \in {FALSE, handshake_done} : DataFrame(fast, {}, 0) \in Frame
    <3>1. FALSE \in BOOLEAN /\ handshake_done \in BOOLEAN
      BY Zenon DEF TypeFlags
    <3> QED BY Zenon, <3>1, FrameTypes
  <2> QED BY Zenon, <1>15, <2>1, StackType DEF DataReceived, Push
<1>16. CASE HandshakeIn
  <2>1. FlushFrame("return", {}, FALSE) \in Frame
    BY Zenon, FrameTypes
  <2>2. stack' = stack \/ stack' = Replace(FlushFrame("return", {}, FALSE))
    BY Zenon, <1>16 DEF HandshakeIn
  <2> QED BY Zenon, <1>16, <2>1, <2>2, ReplaceType DEF HandshakeIn, NextFrame
<1>17. CASE MessageIn
  BY Zenon, <1>17 DEF MessageIn, NextFrame, TakeLiveReceiver
<1>18. CASE MessageRejected
  <2>1. FlushFrame("return", {}, FALSE) \in Frame
    BY Zenon, FrameTypes
  <2> QED BY Zenon, <1>18, <2>1, ReplaceType DEF MessageRejected, NextFrame
<1>19. CASE PingIn
  <2>1. \E n \in Nat : stack' = stack \/ stack' = Replace([stack[1] EXCEPT !.pongs = n])
    <3>1. stack[1].pongs \in Nat
      BY Zenon, <1>19, TopTypes DEF PingIn, NextFrame
    <3>2. stack[1].pongs + (IF transport THEN 1 ELSE 0) \in Nat
      BY <3>1
    <3> QED BY Zenon, <1>19, <3>2 DEF PingIn
  <2> QED BY Zenon, <1>19, <2>1, ReplaceType, TopTypes DEF PingIn, NextFrame
<1>20. ASSUME NEW p \in Payloads, PongIn(p) PROVE TypeStack'
  <2>1. \E S \in SUBSET Probes : stack' = stack \/ stack' = Replace([stack[1] EXCEPT !.acks = S])
    <3>1. stack[1].acks \cup ({pending_pings[p]} \ {NoFuture}) \in SUBSET Probes
      BY Zenon, <1>20, TopTypes DEF PongIn, NextFrame, TypePings
    <3> QED BY Zenon, <1>20, <3>1 DEF PongIn
  <2> QED BY Zenon, <1>20, <2>1, ReplaceType, TopTypes DEF PongIn, NextFrame
<1>21. CASE OtherIn
  BY Zenon, <1>21 DEF OtherIn, NextFrame
<1>22. CASE DataEnd
  <2>1. FlushFrame("return", {}, FALSE) \in Frame
    BY Zenon, FrameTypes
  <2> QED BY Zenon, <1>22, <2>1, ReplaceType DEF DataEnd, NextFrame
<1>23. CASE FallBack
  <2>1. DataFrame(FALSE, {}, 0) \in Frame
    BY Zenon, FrameTypes
  <2> QED BY Zenon, <1>23, <2>1, ReplaceType DEF FallBack
<1>24. CASE CloseIn
  <2>1. FlushFrame("peer_close", TakePending, transport) \in Frame
    BY Zenon, FrameTypes, TakePendingType DEF TypeFlags
  <2> QED BY Zenon, <1>24, <2>1, ReplaceType DEF CloseIn, NextFrame, BeginClose
<1>25. CASE ProtocolErrorIn
  <2>1. FlushFrame("protocol_error", TakePending, transport) \in Frame
    BY Zenon, FrameTypes, TakePendingType DEF TypeFlags
  <2> QED BY Zenon, <1>25, <2>1, ReplaceType DEF ProtocolErrorIn, NextFrame, BeginClose
<1>26. CASE FlushPop
  BY Zenon, <1>26, ReplaceType, TopTypes DEF FlushPop
<1>27. CASE CallbackReturn
  BY Zenon, <1>27, ReplaceType, TopTypes DEF CallbackReturn
<1>28. CASE FlushReturn
  BY Zenon, <1>28, StackType DEF FlushReturn, FlushEnds, Closing, Raised
<1>29. CASE FlushApplyClose
  BY Zenon, <1>29, StackType DEF FlushApplyClose, FlushEnds, ReleaseReferences, Closing, Raised
<1>30. CASE ConnectionLost
  <2>1. FlushFrame("lost", {}, FALSE) \in Frame
    BY Zenon, FrameTypes
  <2> QED BY Zenon, <1>30, <2>1, StackType DEF ConnectionLost, Push
<1>31. CASE FlushLost
  BY Zenon, <1>31, StackType DEF FlushLost, FlushEnds, ReleaseReferences, ClearPending
<1>32. CASE UNCHANGED vars
  BY Zenon, <1>32 DEF vars
<1> QED BY Zenon, <1>1, <1>2, <1>3, <1>4, <1>5, <1>6, <1>7, <1>8, <1>9, <1>10, <1>11, <1>12, <1>13,
     <1>14, <1>15, <1>16, <1>17, <1>18, <1>19, <1>20, <1>21, <1>22, <1>23, <1>24, <1>25, <1>26,
     <1>27, <1>28, <1>29, <1>30, <1>31, <1>32 DEF Next, InnerStep, Application, EventLoop

-----------------------------------------------------------------------------
(* What follows from the moves of the stack.                                *)

(* What a frame pushed on n - 1 calls must satisfy to be well shaped. *)
NewShape(f, n) ==
  /\ f.op = "data" => /\ n = 1 /\ ~closed'
                      /\ f.acks # {} => f.fast /\ handshake_done'
  /\ f.op = "flush" /\ f.then \in {"peer_close", "protocol_error"} =>
       n = 1 /\ closed' /\ (f.transport \/ link' \in {"closing", "lost"})
  /\ f.op = "flush" /\ f.then \notin {"peer_close", "protocol_error"} => f.pending = {}
  /\ f.op = "flush" /\ f.then = "lost" => link' \in {"closing", "lost"}
  /\ f.op = "recv" => ~closed' /\ backlog' = <<>>

(* Returning from the innermost call preserves the shape of the stack. *)
LEMMA ShapePops == TypeStack /\ StackShape /\ Pops /\ Advances => StackShape'
<1> SUFFICES ASSUME TypeStack, StackShape, Pops, Advances, NEW i \in 1..(Len(stack) - 1)
             PROVE  /\ IsData(i)' => /\ Len(stack') = 1 /\ ~closed'
                                     /\ stack'[i].acks # {} => stack'[i].fast /\ handshake_done'
                    /\ IsTeardown(i)' => i = Len(stack') /\ closed' /\ (stack'[i].transport \/ link' \in {"closing", "lost"})
                    /\ stack'[i].op = "flush" /\ ~IsTeardown(i)' => stack'[i].pending = {}
                    /\ stack'[i].op = "flush" /\ stack'[i].then = "lost" => link' \in {"closing", "lost"}
                    /\ stack'[i].op = "recv" => i = 1 /\ ~closed' /\ backlog' = <<>>
  BY Zenon DEF StackShape, Pops
<1>1. stack'[i] = stack[i + 1] /\ i + 1 \in DOMAIN stack /\ Len(stack') = Len(stack) - 1
      /\ Len(stack) \in Nat
  BY SMTT(30), StackMoves DEF Pops
<1> QED BY SMTT(30), <1>1 DEF StackShape, Advances, IsData, IsTeardown

(* A new call whose frame is well shaped preserves the shape of the stack. *)
LEMMA ShapePushes ==
  ASSUME TypeStack, StackShape, Advances, NEW f, Pushes(f), NewShape(f, Len(stack) + 1),
         \A i \in DOMAIN stack : ~IsData(i) /\ stack[i].op # "recv"
  PROVE  StackShape'
<1> SUFFICES ASSUME NEW i \in 1..(Len(stack) + 1)
             PROVE  /\ IsData(i)' => /\ Len(stack') = 1 /\ ~closed'
                                     /\ stack'[i].acks # {} => stack'[i].fast /\ handshake_done'
                    /\ IsTeardown(i)' => i = Len(stack') /\ closed' /\ (stack'[i].transport \/ link' \in {"closing", "lost"})
                    /\ stack'[i].op = "flush" /\ ~IsTeardown(i)' => stack'[i].pending = {}
                    /\ stack'[i].op = "flush" /\ stack'[i].then = "lost" => link' \in {"closing", "lost"}
                    /\ stack'[i].op = "recv" => i = 1 /\ ~closed' /\ backlog' = <<>>
  BY Zenon DEF StackShape, Pushes
<1>0. Len(stack) \in Nat /\ DOMAIN stack = 1..Len(stack) /\ Len(stack') = Len(stack) + 1
  BY Zenon, StackMoves DEF Pushes
<1>1. CASE i = 1
  <2>1. stack'[i] = f
    BY Zenon, <1>1 DEF Pushes
  <2>2. stack'[i].op = "data" /\ stack'[i].acks # {} => stack'[i].fast /\ handshake_done'
    BY <2>1, Zenon DEF NewShape
  <2>3. /\ stack'[i].op = "data" => Len(stack') = 1 /\ ~closed'
        /\ IsTeardown(i)' => i = Len(stack') /\ closed' /\ (stack'[i].transport \/ link' \in {"closing", "lost"})
        /\ stack'[i].op = "flush" /\ ~IsTeardown(i)' => stack'[i].pending = {}
        /\ stack'[i].op = "flush" /\ stack'[i].then = "lost" => link' \in {"closing", "lost"}
        /\ stack'[i].op = "recv" => i = 1 /\ ~closed' /\ backlog' = <<>>
    BY Zenon, <1>0, <1>1, <2>1 DEF NewShape, IsTeardown
  <2> QED BY <2>2, <2>3, Zenon DEF IsData
<1>2. CASE i # 1
  <2>1. stack'[i] = stack[i - 1] /\ i - 1 \in DOMAIN stack
    BY SMTT(30), <1>0, <1>2 DEF Pushes
  <2> QED BY SMTT(30), <1>0, <1>2, <2>1 DEF StackShape, Advances, IsData, IsTeardown
<1> QED BY Zenon, <1>1, <1>2

(* Replacing the innermost call by a well shaped one preserves the shape of the stack. *)
LEMMA ShapeSwaps ==
  ASSUME TypeStack, StackShape, Advances, NEW f, Swaps(f), NewShape(f, Len(stack))
  PROVE  StackShape'
<1> SUFFICES ASSUME NEW i \in 1..Len(stack)
             PROVE  /\ IsData(i)' => /\ Len(stack') = 1 /\ ~closed'
                                     /\ stack'[i].acks # {} => stack'[i].fast /\ handshake_done'
                    /\ IsTeardown(i)' => i = Len(stack') /\ closed' /\ (stack'[i].transport \/ link' \in {"closing", "lost"})
                    /\ stack'[i].op = "flush" /\ ~IsTeardown(i)' => stack'[i].pending = {}
                    /\ stack'[i].op = "flush" /\ stack'[i].then = "lost" => link' \in {"closing", "lost"}
                    /\ stack'[i].op = "recv" => i = 1 /\ ~closed' /\ backlog' = <<>>
  BY Zenon DEF StackShape, Swaps
<1>0. Len(stack) \in Nat /\ DOMAIN stack = 1..Len(stack) /\ Len(stack') = Len(stack)
  BY Zenon, StackMoves DEF Swaps
<1>1. CASE i = 1
  <2>1. stack'[i] = f
    BY Zenon, <1>1 DEF Swaps
  <2>2. stack'[i].op = "data" /\ stack'[i].acks # {} => stack'[i].fast /\ handshake_done'
    BY <2>1, Zenon DEF NewShape
  <2>3. /\ stack'[i].op = "data" => Len(stack') = 1 /\ ~closed'
        /\ IsTeardown(i)' => i = Len(stack') /\ closed' /\ (stack'[i].transport \/ link' \in {"closing", "lost"})
        /\ stack'[i].op = "flush" /\ ~IsTeardown(i)' => stack'[i].pending = {}
        /\ stack'[i].op = "flush" /\ stack'[i].then = "lost" => link' \in {"closing", "lost"}
        /\ stack'[i].op = "recv" => i = 1 /\ ~closed' /\ backlog' = <<>>
    BY Zenon, <1>0, <1>1, <2>1 DEF NewShape, IsTeardown
  <2> QED BY <2>2, <2>3, Zenon DEF IsData
<1>2. CASE i # 1
  <2>1. stack'[i] = stack[i] /\ i \in DOMAIN stack
    BY SMTT(30), <1>0, <1>2 DEF Swaps
  <2> QED BY SMTT(30), <1>0, <1>2, <2>1 DEF StackShape, Advances, IsData, IsTeardown
<1> QED BY Zenon, <1>1, <1>2

(* A handler that leaves the stack alone preserves its shape. *)
LEMMA ShapeStays ==
  ASSUME TypeStack, StackShape, Advances, Stays,
         \/ closed' = closed /\ Mode("data")
         \/ \A i \in DOMAIN stack : ~IsData(i) /\ stack[i].op # "recv"
  PROVE  StackShape'
<1>1. Mode("data") => \A i \in DOMAIN stack : stack[i].op # "recv"
  BY Zenon, ParsingAlone
<1> QED BY Zenon, <1>1 DEF StackShape, Advances, Stays, IsData, IsTeardown

(* Every handler preserves the shape of the call stack: parsing is never nested, a
   teardown is outermost, a recv() in progress is innermost. *)
LEMMA StackShapeStep ==
  TypeOK /\ StackShape /\ Lifecycle /\ Stock /\ [Next]_vars => StackShape'
<1> SUFFICES ASSUME TypeOK, StackShape, Lifecycle, Stock, [Next]_vars PROVE StackShape'
  OBVIOUS
<1>0. TypeOK /\ TypeStack /\ StackShape /\ Advances
  BY Zenon, AlwaysAdvances DEF TypeOK
<1>1. CASE ConnectionMade \/ Close \/ HelperRaise \/ HelperReturn \/ RecvReady
  <2>1. Stays
    BY Zenon, <1>1 DEF ConnectionMade, Close, HelperRaise, HelperReturn, RecvReady, DoClose, Stays
  <2>2. \A i \in DOMAIN stack : ~IsData(i) /\ stack[i].op # "recv"
    BY Zenon, <1>1, <1>0, CalledOutFrames DEF ConnectionMade, Close, HelperRaise, HelperReturn,
         RecvReady, UserCall, CalledOut
  <2> QED BY Zenon, <1>0, <2>1, <2>2, ShapeStays
<1>2. CASE RecvCall
  <2>1. Pushes(RecvFrame)
    BY <1>2, ActionMoves, Zenon
  <2>2. NewShape(RecvFrame, Len(stack) + 1)
    BY Zenon, <1>2, <1>0, HasTop DEF NewShape, RecvFrame, RecvCall, NestedCall, UserCall
  <2>3. \A i \in DOMAIN stack : ~IsData(i) /\ stack[i].op # "recv"
    BY Zenon, <1>2, <1>0, CalledOutFrames DEF RecvCall, NestedCall, UserCall, CalledOut
  <2> QED BY Zenon, <1>0, <2>1, <2>2, <2>3, ShapePushes
<1>3. CASE RecvPark \/ PingWritten \/ FlushReturn \/ FlushApplyClose \/ FlushLost
  <2>1. Pops
    BY <1>3, ActionMoves, Zenon
  <2> QED BY Zenon, <1>0, <2>1, ShapePops
<1>4. ASSUME NEW f \in Receivers \cup Probes, Cancel(f) PROVE StackShape'
  <2>1. Stays
    BY Zenon, <1>4 DEF Cancel, DoClose, Stays
  <2>2. \A i \in DOMAIN stack : ~IsData(i) /\ stack[i].op # "recv"
    BY Zenon, <1>4, <1>0, CalledOutFrames DEF Cancel, UserCall, CalledOut
  <2> QED BY Zenon, <1>0, <2>1, <2>2, ShapeStays
<1>5. ASSUME NEW p \in Payloads, PingCall(p) PROVE StackShape'
  <2>1. PICK at \in {"done", "create"} : Pushes(PingFrame(at, p, pending_pings[p]))
    BY <1>5, ActionMoves, Zenon
  <2>2. NewShape(PingFrame(at, p, pending_pings[p]), Len(stack) + 1)
    BY Zenon DEF NewShape, PingFrame
  <2>3. \A i \in DOMAIN stack : ~IsData(i) /\ stack[i].op # "recv"
    BY Zenon, <1>5, <1>0, CalledOutFrames DEF PingCall, NestedCall, UserCall
  <2> QED BY Zenon, <1>0, <2>1, <2>2, <2>3, ShapePushes
<1>6. CASE PingDone
  <2>1. Pops \/ Swaps(PingFrame("create", stack[1].payload, NoFuture))
    BY <1>6, ActionMoves, Zenon
  <2>2. NewShape(PingFrame("create", stack[1].payload, NoFuture), Len(stack))
    BY Zenon DEF NewShape, PingFrame
  <2> QED BY Zenon, <1>0, <2>1, <2>2, ShapePops, ShapeSwaps
<1>7. CASE PingRegister
  <2>1. Pops \/ Swaps(PingFrame("write", stack[1].payload, MaxRecv + probes + 1))
    BY <1>7, ActionMoves, Zenon
  <2>2. NewShape(PingFrame("write", stack[1].payload, MaxRecv + probes + 1), Len(stack))
    BY Zenon DEF NewShape, PingFrame
  <2> QED BY Zenon, <1>0, <2>1, <2>2, ShapePops, ShapeSwaps
<1>8. CASE PingWriteFails
  <2>1. Swaps(FlushFrame("lost", {}, FALSE))
    BY <1>8, ActionMoves, Zenon
  <2>2. NewShape(FlushFrame("lost", {}, FALSE), Len(stack))
    BY Zenon, <1>8 DEF NewShape, FlushFrame, PingWriteFails, Closing, TypeOK, TypeFlags, Lifecycle
  <2> QED BY Zenon, <1>0, <2>1, <2>2, ShapeSwaps
<1>9. ASSUME NEW q \in Probes, RunCleanup(q) PROVE StackShape'
  <2>1. Stays
    BY Zenon, <1>9 DEF RunCleanup, DoClose, Stays
  <2>2. \A i \in DOMAIN stack : ~IsData(i) /\ stack[i].op # "recv"
    BY Zenon, <1>9, <1>0, CalledOutFrames DEF RunCleanup, UserCall, CalledOut
  <2> QED BY Zenon, <1>0, <2>1, <2>2, ShapeStays
<1>10. CASE DataReceived
  <2>1. PICK fast \in BOOLEAN : Pushes(DataFrame(fast, {}, 0))
    BY <1>10, ActionMoves, Zenon
  <2>0. ~closed' /\ Len(stack) = 0
    BY SMTT(30), <1>10, <1>0, HasTop DEF DataReceived, Lifecycle, Released
  <2>2. NewShape(DataFrame(fast, {}, 0), Len(stack) + 1)
    BY <2>0 DEF NewShape, DataFrame
  <2>3. \A i \in DOMAIN stack : ~IsData(i) /\ stack[i].op # "recv"
    BY SMTT(30), <1>10, <1>0, HasTop DEF DataReceived
  <2> QED BY Zenon, <1>0, <2>1, <2>2, <2>3, ShapePushes
<1>11. CASE HandshakeIn
  <2>1. Stays \/ Swaps(FlushFrame("return", {}, FALSE))
    BY <1>11, ActionMoves, Zenon
  <2>2. NewShape(FlushFrame("return", {}, FALSE), Len(stack))
    BY Zenon DEF NewShape, FlushFrame
  <2>3. closed' = closed /\ Mode("data")
    BY Zenon, <1>11 DEF HandshakeIn, NextFrame
  <2> QED BY Zenon, <1>0, <2>1, <2>2, <2>3, ShapeStays, ShapeSwaps
<1>12. CASE MessageIn \/ OtherIn
  <2>1. Stays /\ closed' = closed /\ Mode("data")
    BY Zenon, <1>12 DEF MessageIn, OtherIn, NextFrame, Stays
  <2> QED BY Zenon, <1>0, <2>1, ShapeStays
<1>13. CASE MessageRejected
  BY Zenon, <1>13 DEF MessageRejected, Stock
<1>14. CASE PingIn
  <2>1. Stays \/ \E n \in Nat : Swaps(DataFrame(stack[1].fast, stack[1].acks, n))
    BY <1>14, ActionMoves, Zenon
  <2>2. closed' = closed /\ Mode("data") /\ handshake_done'
    BY Zenon, <1>14 DEF PingIn, NextFrame
  <2>4. Len(stack) = 1 /\ ~closed /\ (stack[1].acks # {} => stack[1].fast)
    BY Zenon, <1>0, <2>2, ParsingAlone DEF StackShape, IsData
  <2>3. \A n \in Nat : NewShape(DataFrame(stack[1].fast, stack[1].acks, n), Len(stack))
    BY Zenon, <2>2, <2>4 DEF NewShape, DataFrame
  <2> QED BY Zenon, <1>0, <2>1, <2>2, <2>3, ShapeStays, ShapeSwaps
<1>15. ASSUME NEW p \in Payloads, PongIn(p) PROVE StackShape'
  <2> DEFINE acks == stack[1].acks \cup ({pending_pings[p]} \ {NoFuture})
             f == DataFrame(stack[1].fast, acks, stack[1].pongs)
  <2>1. (stack[1].fast => Swaps(f)) /\ (~stack[1].fast => Stays)
    BY <1>15, PongMoves, Zenon
  <2> HIDE DEF acks
  <2>2. closed' = closed /\ Mode("data") /\ handshake_done'
    BY Zenon, <1>15 DEF PongIn, NextFrame
  <2>3. stack[1].fast => NewShape(f, Len(stack))
    BY Zenon, <1>0, <2>2, ParsingAlone DEF NewShape, DataFrame
  <2> HIDE DEF f
  <2> QED BY Zenon, <1>0, <2>1, <2>2, <2>3, ShapeStays, ShapeSwaps
<1>16. CASE DataEnd
  <2>1. Swaps(FlushFrame("return", {}, FALSE))
    BY <1>16, ActionMoves, Zenon
  <2>2. NewShape(FlushFrame("return", {}, FALSE), Len(stack))
    BY Zenon, <1>16 DEF NewShape, FlushFrame, DataEnd
  <2> QED BY Zenon, <1>0, <2>1, <2>2, ShapeSwaps
<1>17. CASE FallBack
  <2>1. Swaps(DataFrame(FALSE, {}, 0))
    BY <1>17, ActionMoves, Zenon
  <2>2. NewShape(DataFrame(FALSE, {}, 0), Len(stack))
    BY Zenon, <1>17, <1>0, ParsingAlone DEF NewShape, DataFrame, FallBack
  <2> QED BY Zenon, <1>0, <2>1, <2>2, ShapeSwaps
<1>18. CASE CloseIn
  <2>1. Swaps(FlushFrame("peer_close", TakePending, transport))
    BY <1>18, ActionMoves, Zenon
  <2>2. NewShape(FlushFrame("peer_close", TakePending, transport), Len(stack))
    BY Zenon, <1>18, <1>0, ParsingAlone DEF NewShape, FlushFrame, CloseIn, NextFrame, BeginClose,
         Lifecycle, TypeOK, TypeFlags
  <2> QED BY Zenon, <1>0, <2>1, <2>2, ShapeSwaps
<1>19. CASE ProtocolErrorIn
  <2>1. Swaps(FlushFrame("protocol_error", TakePending, transport))
    BY <1>19, ActionMoves, Zenon
  <2>2. NewShape(FlushFrame("protocol_error", TakePending, transport), Len(stack))
    BY Zenon, <1>19, <1>0, ParsingAlone DEF NewShape, FlushFrame, ProtocolErrorIn, NextFrame, BeginClose,
         Lifecycle, TypeOK, TypeFlags
  <2> QED BY Zenon, <1>0, <2>1, <2>2, ShapeSwaps
<1>20. CASE FlushPop \/ CallbackReturn
  <2>1. PICK f \in Frame : Swaps(f) /\ SameFlush(f, stack[1])
    BY <1>20, ActionMoves, Zenon
  <2>2. Mode("flush") /\ closed' = closed /\ link' = link /\ 1 \in DOMAIN stack
    BY Zenon, <1>20, <1>0, HasTop DEF FlushPop, CallbackReturn
  <2>3. NewShape(f, Len(stack))
    BY Zenon, <2>1, <2>2 DEF NewShape, SameFlush, StackShape, IsTeardown
  <2> QED BY Zenon, <1>0, <2>1, <2>3, ShapeSwaps
<1>21. CASE ConnectionLost
  <2>1. Pushes(FlushFrame("lost", {}, FALSE))
    BY <1>21, ActionMoves, Zenon
  <2>2. NewShape(FlushFrame("lost", {}, FALSE), Len(stack) + 1)
    BY Zenon, <1>21, <1>0, HasTop DEF NewShape, FlushFrame, ConnectionLost
  <2>3. \A i \in DOMAIN stack : ~IsData(i) /\ stack[i].op # "recv"
    BY Zenon, <1>21, <1>0, CalledOutFrames DEF ConnectionLost, CalledOut
  <2> QED BY Zenon, <1>0, <2>1, <2>2, <2>3, ShapePushes
<1>22. CASE UNCHANGED vars
  BY Zenon, <1>22 DEF vars, StackShape, IsData, IsTeardown
<1> QED BY Zenon, <1>1, <1>2, <1>3, <1>4, <1>5, <1>6, <1>7, <1>8, <1>9, <1>10, <1>11, <1>12, <1>13,
     <1>14, <1>15, <1>16, <1>17, <1>18, <1>19, <1>20, <1>21, <1>22 DEF Next, InnerStep,
     Application, EventLoop

LifeFlags ==
  /\ link = "up" => transport \/ closed
  /\ closed /\ link = "connecting" => helper = "raised"
  /\ link = "connecting" => stack = <<>> /\ fut[Handshake] # "result" /\ helper # "returned"
HasTeardown == \E i \in DOMAIN stack : IsTeardown(i)

(* Lifecycle is its flags plus: closed means released, or a teardown is running. *)
LEMMA LifecycleParts == Lifecycle <=> LifeFlags /\ (closed => Released \/ HasTeardown)
BY Zenon DEF Lifecycle, LifeFlags, HasTeardown

(* A running teardown stays on the stack until it is itself the innermost call. *)
LEMMA TeardownKept ==
  ASSUME TypeStack, HasTeardown,
         \/ Stays
         \/ \E f \in Frame : Pushes(f)
         \/ Pops /\ ~IsTeardown(1)
         \/ \E f \in Frame : Swaps(f) /\ (~IsTeardown(1) \/ SameFlush(f, stack[1]))
  PROVE  HasTeardown'
<1>1. PICK i \in DOMAIN stack : IsTeardown(i)
  BY Zenon DEF HasTeardown
<1>2. DOMAIN stack = 1..Len(stack) /\ Len(stack) \in Nat
  BY Zenon, StackMoves
<1>3. CASE Stays
  BY Zenon, <1>1, <1>3 DEF HasTeardown, Stays, IsTeardown
<1>4. CASE \E f \in Frame : Pushes(f)
  <2>1. i + 1 \in DOMAIN stack' /\ stack'[i + 1] = stack[i]
    BY <1>2, <1>4 DEF Pushes
  <2> QED BY Zenon, <1>1, <2>1 DEF HasTeardown, IsTeardown
<1>5. CASE Pops /\ ~IsTeardown(1)
  <2>1. i # 1
    BY Zenon, <1>1, <1>5
  <2>2. i - 1 \in DOMAIN stack' /\ stack'[i - 1] = stack[i]
    BY SMTT(30), <1>2, <1>5, <2>1 DEF Pops
  <2> QED BY Zenon, <1>1, <2>2 DEF HasTeardown, IsTeardown
<1>6. ASSUME NEW f \in Frame, Swaps(f), ~IsTeardown(1) \/ SameFlush(f, stack[1]) PROVE HasTeardown'
  <2>1. i \in DOMAIN stack' /\ (stack'[i] = stack[i] \/ SameFlush(stack'[i], stack[i]))
    BY SMTT(30), <1>1, <1>2, <1>6 DEF Swaps
  <2> QED BY Zenon, <1>1, <2>1 DEF HasTeardown, IsTeardown, SameFlush
<1> QED BY Zenon, <1>3, <1>4, <1>5, <1>6

(* Every handler keeps transport, closed and helper in step with the link. *)
LEMMA LifeFlagsStep ==
  TypeOK /\ StackShape /\ Lifecycle /\ Stock /\ [Next]_vars => LifeFlags'
<1> SUFFICES ASSUME TypeOK, StackShape, Lifecycle, Stock, [Next]_vars PROVE LifeFlags'
  OBVIOUS
<1>0. TypeFlags /\ LifeFlags /\ fut \in [Futures -> Status] /\ 0 \in Futures
  BY Zenon, LifecycleParts DEF TypeOK, TypeFutures, Futures, Handshake
<1>1. CASE ConnectionMade \/ HelperReturn \/ RecvPark \/ PingDone \/ PingRegister \/ PingWritten
  BY Zenon, <1>1, <1>0 DEF ConnectionMade, HelperReturn, RecvPark, PingDone, PingRegister, PingWritten,
       LifeFlags, TypeFlags, Settle, Futures, Handshake, Released
<1>2. CASE Close
  BY Zenon, <1>2, <1>0 DEF Close, DoClose, ReleaseReferences, ClearPending, Closing, NestedCall,
       UserCall, LifeFlags, TypeFlags, Settle, Futures, Handshake, Released
<1>3. CASE HelperRaise
  BY Zenon, <1>3, <1>0 DEF HelperRaise, DoClose, ReleaseReferences, ClearPending, Closing, LifeFlags,
       TypeFlags, Settle, Futures, Handshake, Released
<1>4. CASE RecvReady \/ RecvCall
  BY Zenon, <1>4, <1>0 DEF RecvReady, RecvCall, NestedCall, UserCall, LifeFlags, TypeFlags, Settle,
       Futures, Handshake, Released
<1>5. ASSUME NEW f \in Receivers \cup Probes, Cancel(f) PROVE LifeFlags'
  BY Zenon, <1>5, <1>0 DEF Cancel, NestedCall, UserCall, LifeFlags, TypeFlags, Settle, Futures,
       Handshake, Released
<1>6. ASSUME NEW p \in Payloads, PingCall(p) PROVE LifeFlags'
  BY Zenon, <1>6, <1>0 DEF PingCall, NestedCall, UserCall, LifeFlags, TypeFlags, Settle, Futures,
       Handshake, Released
<1>7. CASE PingWriteFails
  BY Zenon, <1>7, <1>0 DEF PingWriteFails, Closing, LifeFlags, TypeFlags, Settle, Futures, Handshake,
       Released
<1>8. ASSUME NEW q \in Probes, RunCleanup(q) PROVE LifeFlags'
  BY Zenon, <1>8, <1>0 DEF RunCleanup, LifeFlags, TypeFlags, Settle, Futures, Handshake, Released
<1>9. CASE DataReceived \/ FlushPop \/ CallbackReturn \/ ConnectionLost
  BY Zenon, <1>9, <1>0 DEF DataReceived, FlushPop, CallbackReturn, ConnectionLost, LifeFlags, TypeFlags,
       Settle, Futures, Handshake, Released
<1>10. CASE HandshakeIn \/ PingIn \/ OtherIn
  BY Zenon, <1>10, <1>0 DEF HandshakeIn, PingIn, OtherIn, NextFrame, LifeFlags, TypeFlags, Settle,
       Futures, Handshake, Released
<1>11. CASE MessageIn
  BY Zenon, <1>11, <1>0 DEF MessageIn, NextFrame, TakeLiveReceiver, LifeFlags, TypeFlags, Settle,
       Futures, Handshake, Released
<1>12. CASE MessageRejected
  BY Zenon, <1>12 DEF MessageRejected, Stock
<1>13. ASSUME NEW p \in Payloads, PongIn(p) PROVE LifeFlags'
  BY Zenon, <1>13, <1>0 DEF PongIn, NextFrame, LifeFlags, TypeFlags, Settle, Futures, Handshake, Released
<1>14. CASE DataEnd \/ FallBack
  BY Zenon, <1>14, <1>0 DEF DataEnd, FallBack, EndScan, LifeFlags, TypeFlags, Settle, Futures, Handshake,
       Released
<1>15. CASE CloseIn
  BY Zenon, <1>15, <1>0 DEF CloseIn, NextFrame, EndScan, BeginClose, ClearPending, LifeFlags, TypeFlags,
       Settle, Futures, Handshake, Released
<1>16. CASE ProtocolErrorIn
  BY Zenon, <1>16, <1>0 DEF ProtocolErrorIn, NextFrame, BeginClose, ClearPending, LifeFlags, TypeFlags,
       Settle, Futures, Handshake, Released
<1>17. CASE FlushReturn
  BY Zenon, <1>17, <1>0 DEF FlushReturn, FlushEnds, Closing, Raised, LifeFlags, TypeFlags, Settle,
       Futures, Handshake, Released
<1>18. CASE FlushApplyClose
  <2>1. closed /\ stack # <<>>
    BY SMTT(30), <1>18, StackMoves DEF TypeOK, FlushApplyClose, StackShape, IsTeardown
  <2> QED BY Zenon, <1>18, <1>0, <2>1 DEF FlushApplyClose, Closing, LifeFlags, TypeFlags
<1>19. CASE FlushLost
  BY Zenon, <1>19, <1>0 DEF FlushLost, FlushEnds, ReleaseReferences, ClearPending, LifeFlags, TypeFlags,
       Settle, Futures, Handshake, Released
<1>20. CASE UNCHANGED vars
  BY Zenon, <1>20, <1>0 DEF vars, LifeFlags
<1> QED BY Zenon, <1>1, <1>2, <1>3, <1>4, <1>5, <1>6, <1>7, <1>8, <1>9, <1>10, <1>11, <1>12, <1>13,
     <1>14, <1>15, <1>16, <1>17, <1>18, <1>19, <1>20 DEF Next, InnerStep, Application, EventLoop

(* A closed client has released its references, or is about to. *)
LEMMA LifeReleasedStep ==
  TypeOK /\ StackShape /\ Lifecycle /\ Stock /\ [Next]_vars => (closed => Released \/ HasTeardown)'
<1> SUFFICES ASSUME TypeOK, StackShape, Lifecycle, Stock, [Next]_vars PROVE (closed => Released \/ HasTeardown)'
  OBVIOUS
<1>0. TypeStack /\ LifeFlags /\ (closed => Released \/ HasTeardown)
  BY LifecycleParts, Zenon DEF TypeOK
<1>1. CASE ConnectionMade
  BY Zenon, <1>1, <1>0 DEF ConnectionMade, LifeFlags
<1>2. CASE Close
  <2>1. ~transport' /\ ~on_message' /\ ~create_future' /\ link' = Closing(transport) /\ Stays
    BY Zenon, <1>2 DEF Close, DoClose, ReleaseReferences, Stays
  <2>2. CASE HasTeardown
    BY <1>0, <2>1, <2>2, TeardownKept, Zenon
  <2>3. CASE ~HasTeardown
    BY Zenon, <1>0, <2>1, <2>3 DEF LifeFlags, Released, Closing
  <2> QED BY Zenon, <2>2, <2>3
<1>3. CASE HelperRaise
  <2>1. ~transport' /\ ~on_message' /\ ~create_future' /\ link' = Closing(transport) /\ Stays
    BY Zenon, <1>3 DEF HelperRaise, DoClose, ReleaseReferences, Stays
  <2>2. CASE HasTeardown
    BY <1>0, <2>1, <2>2, TeardownKept, Zenon
  <2>3. CASE ~HasTeardown
    BY Zenon, <1>0, <2>1, <2>3 DEF LifeFlags, Released, Closing
  <2> QED BY Zenon, <2>2, <2>3
<1>4. CASE HelperReturn
  <2>1. Stays
    BY Zenon, <1>4 DEF HelperReturn, Stays
  <2>8. closed' = closed /\ (Released => Released')
    BY Zenon, <1>4 DEF HelperReturn, Released
  <2> QED BY <1>0, <2>1, <2>8, TeardownKept, Zenon
<1>5. CASE RecvReady
  <2>1. Stays
    BY Zenon, <1>5 DEF RecvReady, Stays
  <2>8. closed' = closed /\ (Released => Released')
    BY Zenon, <1>5 DEF RecvReady, Released
  <2> QED BY <1>0, <2>1, <2>8, TeardownKept, Zenon
<1>6. CASE RecvCall
  <2>1. \E f \in Frame : Pushes(f)
    BY <1>6, ActionMoves, Zenon DEF Pushes
  <2>8. closed' = closed /\ (Released => Released')
    BY Zenon, <1>6 DEF RecvCall, Released
  <2> QED BY <1>0, <2>1, <2>8, TeardownKept, Zenon
<1>7. CASE RecvPark
  <2>1. Pops /\ ~IsTeardown(1)
    <3>1. Pops
      BY <1>7, ActionMoves, Zenon
    <3> QED BY Zenon, <1>7, <3>1 DEF RecvPark, IsTeardown
  <2>8. closed' = closed /\ (Released => Released')
    BY Zenon, <1>7 DEF RecvPark, Released
  <2> QED BY <1>0, <2>1, <2>8, TeardownKept, Zenon
<1>8. ASSUME NEW f \in Receivers \cup Probes, Cancel(f) PROVE (closed => Released \/ HasTeardown)'
  <2>1. Stays
    BY Zenon, <1>8 DEF Cancel, Stays
  <2>8. closed' = closed /\ (Released => Released')
    BY Zenon, <1>8 DEF Cancel, Released
  <2> QED BY <1>0, <2>1, <2>8, TeardownKept, Zenon
<1>9. ASSUME NEW p \in Payloads, PingCall(p) PROVE (closed => Released \/ HasTeardown)'
  <2>1. \E f \in Frame : Pushes(f)
    BY <1>9, ActionMoves, Zenon DEF Pushes
  <2>8. closed' = closed /\ (Released => Released')
    BY Zenon, <1>9 DEF PingCall, Released
  <2> QED BY <1>0, <2>1, <2>8, TeardownKept, Zenon
<1>10. CASE PingDone
  <2>0. ~IsTeardown(1)
    BY Zenon, <1>10 DEF PingDone, NextFrame, IsTeardown
  <2>1. \/ Stays
        \/ Pops /\ ~IsTeardown(1)
        \/ \E f \in Frame : Swaps(f) /\ (~IsTeardown(1) \/ SameFlush(f, stack[1]))
    BY <1>10, <2>0, ActionMoves, Zenon DEF Swaps
  <2>8. closed' = closed /\ (Released => Released')
    BY Zenon, <1>10 DEF PingDone, Released
  <2> QED BY <1>0, <2>1, <2>8, TeardownKept, Zenon
<1>11. CASE PingRegister
  <2>0. ~IsTeardown(1)
    BY Zenon, <1>11 DEF PingRegister, NextFrame, IsTeardown
  <2>1. \/ Stays
        \/ Pops /\ ~IsTeardown(1)
        \/ \E f \in Frame : Swaps(f) /\ (~IsTeardown(1) \/ SameFlush(f, stack[1]))
    BY <1>11, <2>0, ActionMoves, Zenon DEF Swaps
  <2>8. closed' = closed /\ (Released => Released')
    BY Zenon, <1>11 DEF PingRegister, Released
  <2> QED BY <1>0, <2>1, <2>8, TeardownKept, Zenon
<1>12. CASE PingWritten
  <2>1. Pops /\ ~IsTeardown(1)
    <3>1. Pops
      BY <1>12, ActionMoves, Zenon
    <3> QED BY Zenon, <1>12, <3>1 DEF PingWritten, IsTeardown
  <2>8. closed' = closed /\ (Released => Released')
    BY Zenon, <1>12 DEF PingWritten, Released
  <2> QED BY <1>0, <2>1, <2>8, TeardownKept, Zenon
<1>13. CASE PingWriteFails
  <2>0. ~IsTeardown(1)
    BY Zenon, <1>13 DEF PingWriteFails, NextFrame, IsTeardown
  <2>1. \/ Stays
        \/ Pops /\ ~IsTeardown(1)
        \/ \E f \in Frame : Swaps(f) /\ (~IsTeardown(1) \/ SameFlush(f, stack[1]))
    BY <1>13, <2>0, ActionMoves, Zenon DEF Swaps
  <2>8. closed' = closed /\ (Released => Released')
    BY Zenon, <1>13 DEF PingWriteFails, Closing, Released
  <2> QED BY <1>0, <2>1, <2>8, TeardownKept, Zenon
<1>14. ASSUME NEW q \in Probes, RunCleanup(q) PROVE (closed => Released \/ HasTeardown)'
  <2>1. Stays
    BY Zenon, <1>14 DEF RunCleanup, Stays
  <2>8. closed' = closed /\ (Released => Released')
    BY Zenon, <1>14 DEF RunCleanup, Released
  <2> QED BY <1>0, <2>1, <2>8, TeardownKept, Zenon
<1>15. CASE DataReceived
  <2>1. \E f \in Frame : Pushes(f)
    BY <1>15, ActionMoves, Zenon DEF Pushes
  <2>8. closed' = closed /\ (Released => Released')
    BY Zenon, <1>15 DEF DataReceived, Released
  <2> QED BY <1>0, <2>1, <2>8, TeardownKept, Zenon
<1>16. CASE HandshakeIn
  <2>0. ~IsTeardown(1)
    BY Zenon, <1>16 DEF HandshakeIn, NextFrame, IsTeardown
  <2>1. \/ Stays
        \/ Pops /\ ~IsTeardown(1)
        \/ \E f \in Frame : Swaps(f) /\ (~IsTeardown(1) \/ SameFlush(f, stack[1]))
    BY <1>16, <2>0, ActionMoves, Zenon DEF Swaps
  <2>8. closed' = closed /\ (Released => Released')
    BY Zenon, <1>16 DEF HandshakeIn, NextFrame, Released
  <2> QED BY <1>0, <2>1, <2>8, TeardownKept, Zenon
<1>17. CASE MessageIn
  <2>1. Stays
    BY Zenon, <1>17 DEF MessageIn, Stays
  <2>8. closed' = closed /\ (Released => Released')
    BY Zenon, <1>17 DEF MessageIn, NextFrame, TakeLiveReceiver, Released
  <2> QED BY <1>0, <2>1, <2>8, TeardownKept, Zenon
<1>18. CASE MessageRejected
  BY Zenon, <1>18 DEF MessageRejected, Stock
<1>19. CASE PingIn
  <2>0. ~IsTeardown(1)
    BY Zenon, <1>19 DEF PingIn, NextFrame, IsTeardown
  <2>1. \/ Stays
        \/ Pops /\ ~IsTeardown(1)
        \/ \E f \in Frame : Swaps(f) /\ (~IsTeardown(1) \/ SameFlush(f, stack[1]))
    BY <1>19, <2>0, ActionMoves, Zenon DEF Swaps
  <2>8. closed' = closed /\ (Released => Released')
    BY Zenon, <1>19 DEF PingIn, NextFrame, Released
  <2> QED BY <1>0, <2>1, <2>8, TeardownKept, Zenon
<1>20. ASSUME NEW p \in Payloads, PongIn(p) PROVE (closed => Released \/ HasTeardown)'
  <2>0. ~IsTeardown(1)
    BY Zenon, <1>20 DEF PongIn, NextFrame, IsTeardown
  <2>1. \/ Stays
        \/ Pops /\ ~IsTeardown(1)
        \/ \E f \in Frame : Swaps(f) /\ (~IsTeardown(1) \/ SameFlush(f, stack[1]))
    BY <1>20, <2>0, PongMoves, Zenon DEF Swaps
  <2>8. closed' = closed /\ (Released => Released')
    BY Zenon, <1>20 DEF PongIn, NextFrame, Released
  <2> QED BY <1>0, <2>1, <2>8, TeardownKept, Zenon
<1>21. CASE OtherIn
  <2>1. Stays
    BY Zenon, <1>21 DEF OtherIn, Stays
  <2>8. closed' = closed /\ (Released => Released')
    BY Zenon, <1>21 DEF OtherIn, NextFrame, Released
  <2> QED BY <1>0, <2>1, <2>8, TeardownKept, Zenon
<1>22. CASE DataEnd
  <2>0. ~IsTeardown(1)
    BY Zenon, <1>22 DEF DataEnd, NextFrame, IsTeardown
  <2>1. \/ Stays
        \/ Pops /\ ~IsTeardown(1)
        \/ \E f \in Frame : Swaps(f) /\ (~IsTeardown(1) \/ SameFlush(f, stack[1]))
    BY <1>22, <2>0, ActionMoves, Zenon DEF Swaps
  <2>8. closed' = closed /\ (Released => Released')
    BY Zenon, <1>22 DEF DataEnd, EndScan, Released
  <2> QED BY <1>0, <2>1, <2>8, TeardownKept, Zenon
<1>23. CASE FallBack
  <2>0. ~IsTeardown(1)
    BY Zenon, <1>23 DEF FallBack, NextFrame, IsTeardown
  <2>1. \/ Stays
        \/ Pops /\ ~IsTeardown(1)
        \/ \E f \in Frame : Swaps(f) /\ (~IsTeardown(1) \/ SameFlush(f, stack[1]))
    BY <1>23, <2>0, ActionMoves, Zenon DEF Swaps
  <2>8. closed' = closed /\ (Released => Released')
    BY Zenon, <1>23 DEF FallBack, EndScan, Released
  <2> QED BY <1>0, <2>1, <2>8, TeardownKept, Zenon
<1>24. CASE CloseIn
  <2> DEFINE f == FlushFrame("peer_close", TakePending, transport)
  <2>0. f.op = "flush" /\ f.then = "peer_close"
    BY Zenon DEF FlushFrame
  <2> HIDE DEF f
  <2>1. Swaps(f)
    BY <1>24, ActionMoves, Zenon DEF f
  <2>2. 1 \in DOMAIN stack' /\ stack'[1] = f
    BY <1>0, <2>1, SwapsTop, Zenon
  <2> QED BY Zenon, <2>0, <2>2 DEF HasTeardown, IsTeardown
<1>25. CASE ProtocolErrorIn
  <2> DEFINE f == FlushFrame("protocol_error", TakePending, transport)
  <2>0. f.op = "flush" /\ f.then = "protocol_error"
    BY Zenon DEF FlushFrame
  <2> HIDE DEF f
  <2>1. Swaps(f)
    BY <1>25, ActionMoves, Zenon DEF f
  <2>2. 1 \in DOMAIN stack' /\ stack'[1] = f
    BY <1>0, <2>1, SwapsTop, Zenon
  <2> QED BY Zenon, <2>0, <2>2 DEF HasTeardown, IsTeardown
<1>26. CASE FlushPop
  <2>1. \E f \in Frame : Swaps(f) /\ (~IsTeardown(1) \/ SameFlush(f, stack[1]))
    BY <1>26, ActionMoves, Zenon
  <2>8. closed' = closed /\ (Released => Released')
    BY Zenon, <1>26 DEF FlushPop, Released
  <2> QED BY <1>0, <2>1, <2>8, TeardownKept, Zenon
<1>27. CASE CallbackReturn
  <2>1. \E f \in Frame : Swaps(f) /\ (~IsTeardown(1) \/ SameFlush(f, stack[1]))
    BY <1>27, ActionMoves, Zenon
  <2>8. closed' = closed /\ (Released => Released')
    BY Zenon, <1>27 DEF CallbackReturn, Released
  <2> QED BY <1>0, <2>1, <2>8, TeardownKept, Zenon
<1>28. CASE FlushReturn
  <2>1. Pops /\ ~IsTeardown(1)
    <3>1. Pops
      BY <1>28, ActionMoves, Zenon
    <3> QED BY Zenon, <1>28, <3>1 DEF FlushReturn, IsTeardown
  <2>8. closed' = closed /\ (Released => Released')
    BY Zenon, <1>28 DEF FlushReturn, FlushEnds, Closing, Raised, Released
  <2> QED BY <1>0, <2>1, <2>8, TeardownKept, Zenon
<1>29. CASE FlushApplyClose
  <2>1. stack[1].transport \/ link \in {"closing", "lost"}
    BY Zenon, <1>29, <1>0, HasTop DEF FlushApplyClose, StackShape, IsTeardown
  <2> QED BY Zenon, <1>29, <2>1 DEF FlushApplyClose, ReleaseReferences, Released, Closing
<1>30. CASE ConnectionLost
  <2>1. \E f \in Frame : Pushes(f)
    BY <1>30, ActionMoves, Zenon DEF Pushes
  <2>8. closed' = closed /\ (Released => Released')
    BY Zenon, <1>30 DEF ConnectionLost, Released
  <2> QED BY <1>0, <2>1, <2>8, TeardownKept, Zenon
<1>31. CASE FlushLost
  <2>1. link' \in {"closing", "lost"}
    BY Zenon, <1>31, <1>0, HasTop DEF FlushLost, StackShape, outside
  <2> QED BY Zenon, <1>31, <2>1 DEF FlushLost, ReleaseReferences, Released
<1>32. CASE UNCHANGED vars
  BY Zenon, <1>32, <1>0 DEF vars, Released, HasTeardown, IsTeardown
<1> QED BY Zenon, <1>1, <1>2, <1>3, <1>4, <1>5, <1>6, <1>7, <1>8, <1>9, <1>10, <1>11, <1>12, <1>13,
     <1>14, <1>15, <1>16, <1>17, <1>18, <1>19, <1>20, <1>21, <1>22, <1>23, <1>24, <1>25, <1>26,
     <1>27, <1>28, <1>29, <1>30, <1>31, <1>32 DEF Next, InnerStep, Application, EventLoop
=============================================================================

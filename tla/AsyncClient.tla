---------------------------- MODULE AsyncClient -----------------------------
(***************************************************************************)
(* The tokio client (src/async_client.rs).  One actor task owns the         *)
(* WebSocket; it is fed by a bounded command channel and fills a bounded    *)
(* message channel.  send(), ping() and pong() enqueue a command at once    *)
(* when there is a slot and otherwise spawn a task that waits for one;      *)
(* recv() and __anext__() take a message at once when they can and          *)
(* otherwise spawn a task that waits for the receiver's mutex and then for  *)
(* a message; close() is a spawned task.  Spawned tasks run on other        *)
(* threads, in any order; results reach the event loop's futures by         *)
(* call_soon_threadsafe.                                                    *)
(***************************************************************************)
EXTENDS Integers, Sequences, FiniteSets, Functions

CONSTANTS
  CmdCap,     \* slots of the command channel (64 in the code)
  MsgCap,     \* slots of the message channel (64 in the code)
  MaxSends,   \* send(), ping() and pong() calls
  MaxRecvs,   \* recv() and __anext__() calls
  MaxMsgs,    \* messages the peer sends
  Overlap     \* the application makes calls while its close() is under way

ASSUME CapacityAssumption ==
  /\ CmdCap \in Nat \ {0} /\ MsgCap \in Nat \ {0} /\ Overlap \in BOOLEAN
  /\ MaxSends \in Nat /\ MaxRecvs \in Nat /\ MaxMsgs \in Nat

VARIABLES
  handle,    \* tx_cmd, rx_msg_internal and stream_sync of the Python object
  cmds,      \* the command channel
  spawned,   \* sends whose task has not asked for a slot yet
  slots,     \* tasks waiting for a slot, first come first served
  sends,     \* status of each send's future
  sent,      \* calls so far, and for each the sends that had completed before it
  actor,     \* where the actor is, and the item it holds
  stream,    \* the peer: how many messages it sent, and whether it is done
  wire,      \* commands the sink wrote
  msgs,      \* the message channel
  tasks,     \* recv tasks that have not asked for the mutex yet
  lock,      \* the receiver's mutex: its owner, then those waiting
  recvs,     \* status or result of each recv's future
  due,       \* results scheduled with call_soon_threadsafe
  taken,     \* messages taken out of the channel, in order
  borrowed,  \* the object is borrowed by a call that has released the GIL
  closing    \* the close() task

vars == <<handle, cmds, spawned, slots, sends, sent, actor, stream, wire, msgs,
          tasks, lock, recvs, due, taken, borrowed, closing>>
sendVars == <<cmds, spawned, slots, sends, sent>>
recvVars == <<msgs, tasks, lock, recvs, due, taken>>

Sends == 1..MaxSends
Recvs == 1..MaxRecvs
Messages == 1..MaxMsgs
CloseCmd == 0           \* Command::Close, and the close() task's place in a queue
CloseMsg == -1          \* Message::Close, or an error, in the message channel
Nothing == -2

(* The state of a recv() future.                                            *)
None == <<"none">>
Pending == <<"pending">>
Cancelled == <<"cancelled">>
Closed == <<"closed">>      \* RuntimeError, or StopAsyncIteration from __anext__()
TimedOut == <<"timeout">>
Got(m) == <<"got", m>>

Ended == actor.at = "over"
ClosingCalls == closing \in {"idle", "done"} \/ Overlap
Slot == Len(cmds) < CmdCap

-----------------------------------------------------------------------------
(* send(), ping(), pong().  try_send() fails for want of a slot also when   *)
(* freed slots are already promised to waiting tasks.                       *)

SendCall(i, status) ==
  /\ handle.tx_cmd /\ ClosingCalls /\ borrowed = 0
  /\ i = Len(sent) + 1
  /\ sends' = [sends EXCEPT ![i] = status]
  /\ sent' = Append(sent, {j \in Sends : sends[j] = "done"})
  /\ UNCHANGED <<handle, actor, stream, wire, recvVars, closing>>

SendFast(i) ==
  /\ ~Ended /\ Slot /\ slots = <<>>
  /\ SendCall(i, "done")
  /\ cmds' = Append(cmds, i)
  /\ UNCHANGED <<spawned, slots, borrowed>>

(* Slip: the future is completed when the task is spawned.                  *)
SendSlowUnawaited(i) ==
  /\ ~Ended /\ ~(Slot /\ slots = <<>>)
  /\ SendCall(i, "done")
  /\ spawned' = spawned \cup {i}
  /\ borrowed' = 1
  /\ UNCHANGED <<cmds, slots>>

(* The task is spawned with the GIL released and the object still borrowed. *)
SendSlow(i) ==
  /\ ~Ended /\ ~(Slot /\ slots = <<>>)
  /\ SendCall(i, "pending")
  /\ spawned' = spawned \cup {i}
  /\ borrowed' = 1
  /\ UNCHANGED <<cmds, slots>>

SendClosed(i) ==
  /\ Ended
  /\ SendCall(i, "failed")
  /\ UNCHANGED <<cmds, spawned, slots, borrowed>>

(* The spawned task calls tx.send(cmd).await.                               *)
SendPoll(i) ==
  /\ i \in spawned
  /\ spawned' = spawned \ {i}
  /\ slots' = Append(slots, i)
  /\ UNCHANGED <<handle, cmds, sends, sent, actor, stream, wire, recvVars, borrowed, closing>>

(* A waiting task gets its slot, or finds the channel closed.               *)
SlotGranted ==
  /\ slots # <<>> /\ (Ended \/ Slot)
  /\ slots' = Tail(slots)
  /\ cmds' = IF Ended THEN cmds ELSE Append(cmds, Head(slots))
  /\ sends' = IF Head(slots) = CloseCmd THEN sends
              ELSE [sends EXCEPT ![Head(slots)] = IF Ended THEN "failed" ELSE "done"]
  /\ closing' = IF Head(slots) = CloseCmd THEN "lock" ELSE closing
  /\ UNCHANGED <<handle, spawned, sent, actor, stream, wire, recvVars, borrowed>>

-----------------------------------------------------------------------------
(* The actor's select! loop.                                                *)

ActorGoes(at, item) == actor' = [at |-> at, item |-> item]

(* Slip: the actor holds a sender of its own channel.                       *)
SendersForever == TRUE

(* rx_cmd.recv(): a command, or None once every sender is gone.             *)
Senders == handle.tx_cmd \/ spawned # {} \/ slots # <<>> \/ closing = "send"

ActorCommand ==
  /\ actor.at = "select" /\ cmds # <<>>
  /\ cmds' = Tail(cmds)
  /\ ActorGoes("sink", Head(cmds))
  /\ UNCHANGED <<handle, spawned, slots, sends, sent, stream, wire, recvVars, borrowed, closing>>

ActorNoSenders ==
  /\ actor.at = "select" /\ cmds = <<>> /\ ~Senders
  /\ ActorGoes("finish", Nothing)
  /\ UNCHANGED <<handle, sendVars, stream, wire, recvVars, borrowed, closing>>

(* sink.send() completes; after sink.close() the actor reads until the peer *)
(* has closed too.                                                          *)
SinkDone ==
  /\ actor.at = "sink"
  /\ wire' = Append(wire, actor.item)
  /\ ActorGoes(IF actor.item = CloseCmd THEN "drain" ELSE "select", Nothing)
  /\ UNCHANGED <<handle, sendVars, stream, recvVars, borrowed, closing>>

SinkFails ==
  /\ actor.at = "sink"
  /\ ActorGoes(IF actor.item = CloseCmd THEN "drain" ELSE "finish", Nothing)
  /\ UNCHANGED <<handle, sendVars, stream, wire, recvVars, borrowed, closing>>

(* stream.next(): a message, a Close, an error (both as CloseMsg), or the   *)
(* end.  Pings and Pongs are dropped here and change nothing.               *)
ActorMessage ==
  /\ actor.at = "select" /\ ~stream.done /\ stream.count < MaxMsgs
  /\ stream' = [stream EXCEPT !.count = @ + 1]
  /\ ActorGoes("forward", stream.count + 1)
  /\ UNCHANGED <<handle, sendVars, wire, recvVars, borrowed, closing>>

ActorCloseFrame ==
  /\ actor.at = "select" /\ ~stream.done
  /\ stream' = [stream EXCEPT !.done = TRUE]
  /\ ActorGoes("forward", CloseMsg)
  /\ UNCHANGED <<handle, sendVars, wire, recvVars, borrowed, closing>>

ActorStreamEnds ==
  /\ actor.at = "select"
  /\ stream' = [stream EXCEPT !.done = TRUE]
  /\ ActorGoes("finish", Nothing)
  /\ UNCHANGED <<handle, sendVars, wire, recvVars, borrowed, closing>>

(* tx_msg.send(): waits for a slot, or finds every receiver gone; an error  *)
(* of the stream ends the loop once it is queued.                           *)
ReceiverAlive == handle.rx_msg \/ tasks # {} \/ lock # <<>> \/ closing \in {"send", "wait", "lock", "drain"}

(* Slip: try_send() instead of send().await.                                *)
ActorTryForward ==
  /\ actor.at = "forward" /\ ReceiverAlive
  /\ msgs' = IF Len(msgs) < MsgCap THEN Append(msgs, actor.item) ELSE msgs
  /\ ActorGoes("select", Nothing)
  /\ UNCHANGED <<handle, sendVars, stream, wire, tasks, lock, recvs, due, taken, borrowed, closing>>

ActorForward ==
  /\ actor.at = "forward" /\ Len(msgs) < MsgCap /\ ReceiverAlive
  /\ msgs' = Append(msgs, actor.item)
  /\ \/ ActorGoes("select", Nothing)
     \/ actor.item = CloseMsg /\ ActorGoes("finish", Nothing)
  /\ UNCHANGED <<handle, sendVars, stream, wire, tasks, lock, recvs, due, taken, borrowed, closing>>

ActorNoReceiver ==
  /\ actor.at = "forward" /\ ~ReceiverAlive
  /\ ActorGoes("finish", Nothing)
  /\ UNCHANGED <<handle, sendVars, stream, wire, recvVars, borrowed, closing>>

(* After Close: messages are discarded until the peer's Close, an error or  *)
(* the end.                                                                 *)
ActorDrain ==
  /\ actor.at = "drain"
  /\ \/ /\ ~stream.done /\ stream.count < MaxMsgs
        /\ stream' = [stream EXCEPT !.count = @ + 1]
        /\ UNCHANGED actor
     \/ /\ stream' = [stream EXCEPT !.done = TRUE]
        /\ ActorGoes("finish", Nothing)
  /\ UNCHANGED <<handle, sendVars, wire, recvVars, borrowed, closing>>

(* Behind the loop the sink is closed once more, with both channels still   *)
(* alive; then the task ends and drops its halves of them.                  *)
ActorEnds ==
  /\ actor.at = "finish"
  /\ ActorGoes("over", Nothing)
  /\ UNCHANGED <<handle, sendVars, stream, wire, recvVars, borrowed, closing>>

-----------------------------------------------------------------------------
(* recv() and __anext__().                                                  *)

RecvCall(r, status) ==
  /\ handle.rx_msg /\ ClosingCalls /\ borrowed = 0
  /\ recvs[r] = None /\ \A q \in 1..(r - 1) : recvs[q] # None
  /\ recvs' = [recvs EXCEPT ![r] = status]
  /\ UNCHANGED <<handle, sendVars, actor, stream, wire, due, closing>>

Result(m) == IF m = CloseMsg THEN Closed ELSE Got(m)

RecvFast(r) ==
  /\ lock = <<>> /\ msgs # <<>>
  /\ RecvCall(r, Result(Head(msgs)))
  /\ taken' = Append(taken, Head(msgs))
  /\ msgs' = Tail(msgs)
  /\ UNCHANGED <<tasks, lock, borrowed>>

RecvDisconnected(r) ==
  /\ lock = <<>> /\ msgs = <<>> /\ Ended
  /\ RecvCall(r, Closed)
  /\ UNCHANGED <<msgs, tasks, lock, taken, borrowed>>

RecvSlow(r) ==
  /\ lock # <<>> \/ (msgs = <<>> /\ ~Ended)
  /\ RecvCall(r, Pending)
  /\ tasks' = tasks \cup {r}
  /\ borrowed' = 1
  /\ UNCHANGED <<msgs, lock, taken>>

(* The call that spawned a task takes the GIL back and returns.             *)
CallReturns ==
  /\ borrowed = 1
  /\ borrowed' = 0
  /\ UNCHANGED <<handle, sendVars, actor, stream, wire, recvVars, closing>>

RecvPoll(r) ==
  /\ r \in tasks
  /\ tasks' = tasks \ {r}
  /\ lock' = Append(lock, r)
  /\ UNCHANGED <<handle, sendVars, actor, stream, wire, msgs, recvs, due, taken, borrowed, closing>>

(* The owner of the mutex: a message, the end of the channel, or, while     *)
(* there is no message, the receive timeout.                                *)
RecvResult(r, value) ==
  /\ lock # <<>> /\ Head(lock) = r
  /\ lock' = Tail(lock)
  /\ due' = [due EXCEPT ![r] = value]
  /\ UNCHANGED <<handle, sendVars, actor, stream, wire, tasks, recvs, borrowed, closing>>

RecvTake(r) ==
  /\ msgs # <<>>
  /\ RecvResult(r, Result(Head(msgs)))
  /\ taken' = Append(taken, Head(msgs))
  /\ msgs' = Tail(msgs)

(* Slips: a message taken just before the deadline is dropped; no timeout.  *)
RecvEndsLate(r) ==
  /\ RecvResult(r, IF Ended THEN Closed ELSE TimedOut)
  /\ taken' = IF msgs = <<>> THEN taken ELSE Append(taken, Head(msgs))
  /\ msgs' = IF msgs = <<>> THEN msgs ELSE Tail(msgs)
RecvEndsUntimed(r) ==
  /\ msgs = <<>> /\ Ended
  /\ RecvResult(r, Closed)
  /\ UNCHANGED <<msgs, taken>>

RecvEnds(r) ==
  /\ msgs = <<>>
  /\ RecvResult(r, IF Ended THEN Closed ELSE TimedOut)
  /\ UNCHANGED <<msgs, taken>>

(* The event loop runs set_result() or set_exception(), which a cancelled   *)
(* future refuses.                                                          *)
RecvSettle(r) ==
  /\ due[r] # None /\ borrowed = 0
  /\ recvs' = IF recvs[r] = Pending THEN [recvs EXCEPT ![r] = due[r]] ELSE recvs
  /\ due' = [due EXCEPT ![r] = None]
  /\ UNCHANGED <<handle, sendVars, actor, stream, wire, msgs, tasks, lock, taken, borrowed, closing>>

RecvCancel(r) ==
  /\ recvs[r] = Pending /\ borrowed = 0
  /\ recvs' = [recvs EXCEPT ![r] = Cancelled]
  /\ UNCHANGED <<handle, sendVars, actor, stream, wire, msgs, tasks, lock, due, taken, borrowed, closing>>

-----------------------------------------------------------------------------
(* close() and __aexit__(): a spawned task takes the channels out of the    *)
(* object, sends Close, and reads the message channel to its end for at     *)
(* most ten seconds.  It borrows the object mutably, which panics, and ends *)
(* the task, while another call holds it.                                   *)

CloseCall ==
  /\ handle.tx_cmd /\ closing = "idle" /\ borrowed = 0
  /\ closing' = "take"
  /\ UNCHANGED <<handle, sendVars, actor, stream, wire, recvVars, borrowed>>

Detached == [tx_cmd |-> FALSE, rx_msg |-> FALSE, open |-> FALSE]

CloseTake ==
  /\ closing = "take"
  /\ IF borrowed = 1
     THEN closing' = "panicked" /\ UNCHANGED handle
     ELSE closing' = "send" /\ handle' = Detached
  /\ UNCHANGED <<sendVars, actor, stream, wire, recvVars, borrowed>>

CloseSend ==
  /\ closing = "send"
  /\ \/ /\ Ended
        /\ closing' = "lock" /\ UNCHANGED <<cmds, slots>>
     \/ /\ ~Ended /\ Slot /\ slots = <<>>
        /\ closing' = "lock" /\ cmds' = Append(cmds, CloseCmd) /\ UNCHANGED slots
     \/ /\ ~Ended /\ ~(Slot /\ slots = <<>>)
        /\ closing' = "wait" /\ slots' = Append(slots, CloseCmd) /\ UNCHANGED cmds
  /\ UNCHANGED <<handle, spawned, sends, sent, actor, stream, wire, recvVars, borrowed>>

CloseLock ==
  /\ closing = "lock"
  /\ closing' = "drain"
  /\ lock' = Append(lock, CloseCmd)
  /\ UNCHANGED <<handle, sendVars, actor, stream, wire, msgs, tasks, recvs, due, taken, borrowed>>

CloseDrain ==
  /\ closing = "drain" /\ Head(lock) = CloseCmd
  /\ msgs # <<>>
  /\ msgs' = Tail(msgs)
  /\ taken' = Append(taken, Head(msgs))
  /\ IF Head(msgs) = CloseMsg
     THEN closing' = "done" /\ lock' = Tail(lock)
     ELSE UNCHANGED <<closing, lock>>
  /\ UNCHANGED <<handle, sendVars, actor, stream, wire, tasks, recvs, due, borrowed>>

(* Slip: no timeout.                                                        *)
CloseEndsUntimed ==
  /\ closing = "drain" /\ Head(lock) = CloseCmd /\ msgs = <<>> /\ Ended
  /\ closing' = "done"
  /\ lock' = Tail(lock)
  /\ UNCHANGED <<handle, sendVars, actor, stream, wire, msgs, tasks, recvs, due, taken, borrowed>>

(* The channel is empty and closed, or the ten seconds, which start when    *)
(* the task asks for the mutex, are over: it leaves the queue or gives the  *)
(* mutex back.                                                              *)
CloseEnds ==
  /\ closing = "drain"
  /\ \E k \in DOMAIN lock :
       lock[k] = CloseCmd /\ lock' = SubSeq(lock, 1, k - 1) \o SubSeq(lock, k + 1, Len(lock))
  /\ closing' = "done"
  /\ UNCHANGED <<handle, sendVars, actor, stream, wire, msgs, tasks, recvs, due, taken, borrowed>>

(* The application drops the object without closing it.                     *)
Drop ==
  /\ handle.tx_cmd /\ closing = "idle" /\ borrowed = 0
  /\ handle' = Detached
  /\ UNCHANGED <<sendVars, actor, stream, wire, recvVars, borrowed, closing>>

-----------------------------------------------------------------------------
(* start_ws_task() has connected the object and spawned the actor.          *)
Init ==
  /\ handle = [tx_cmd |-> TRUE, rx_msg |-> TRUE, open |-> TRUE]
  /\ cmds = <<>> /\ spawned = {} /\ slots = <<>> /\ sent = <<>>
  /\ sends = [i \in Sends |-> "none"]
  /\ actor = [at |-> "select", item |-> Nothing]
  /\ stream = [count |-> 0, done |-> FALSE]
  /\ wire = <<>> /\ msgs = <<>> /\ tasks = {} /\ lock = <<>> /\ taken = <<>>
  /\ recvs = [r \in Recvs |-> None] /\ due = [r \in Recvs |-> None]
  /\ borrowed = 0 /\ closing = "idle"

SendNext == (\E i \in Sends : SendFast(i) \/ SendSlow(i) \/ SendClosed(i) \/ SendPoll(i)) \/ SlotGranted
ActorNext ==
  \/ ActorCommand \/ ActorNoSenders \/ SinkDone \/ SinkFails
  \/ ActorMessage \/ ActorCloseFrame \/ ActorStreamEnds
  \/ ActorForward \/ ActorNoReceiver \/ ActorDrain \/ ActorEnds
RecvNext ==
  \/ CallReturns
  \/ \E r \in Recvs : RecvFast(r) \/ RecvDisconnected(r) \/ RecvSlow(r) \/ RecvPoll(r)
  \/ \E r \in Recvs : RecvTake(r) \/ RecvEnds(r) \/ RecvSettle(r) \/ RecvCancel(r)
CloseNext == CloseCall \/ CloseTake \/ CloseSend \/ CloseLock \/ CloseDrain \/ CloseEnds \/ Drop

Next == SendNext \/ ActorNext \/ RecvNext \/ CloseNext

Spec == Init /\ [][Next]_vars

(* tokio polls every ready task, its timers fire, select! picks among its   *)
(* ready branches at random, and the socket keeps taking bytes.  The peer   *)
(* owes nothing, and the application need not call anything.                *)
FairSpec ==
  /\ Spec
  /\ WF_vars(CallReturns) /\ WF_vars(SlotGranted)
  /\ \A i \in Sends : WF_vars(SendPoll(i))
  /\ SF_vars(ActorCommand) /\ SF_vars(ActorNoSenders)
  /\ WF_vars(SinkDone \/ SinkFails) /\ WF_vars(ActorForward \/ ActorNoReceiver)
  /\ WF_vars(ActorEnds)
  /\ \A r \in Recvs : WF_vars(RecvPoll(r)) /\ WF_vars(RecvTake(r) \/ RecvEnds(r)) /\ WF_vars(RecvSettle(r))
  /\ WF_vars(CloseTake) /\ WF_vars(CloseSend) /\ WF_vars(CloseLock \/ CloseDrain \/ CloseEnds)

-----------------------------------------------------------------------------
FutureStates == {None, Pending, Cancelled, Closed, TimedOut} \cup {Got(m) : m \in Messages}

(* Every variable stays in its type, and no channel exceeds its capacity    *)
(* (try_send(), tx.send().await).                                           *)
TypeOK ==
  /\ handle \in [tx_cmd : BOOLEAN, rx_msg : BOOLEAN, open : BOOLEAN]
  /\ cmds \in Seq(Sends \cup {CloseCmd}) /\ Len(cmds) <= CmdCap
  /\ spawned \subseteq Sends /\ slots \in Seq(Sends \cup {CloseCmd})
  /\ sends \in [Sends -> {"none", "pending", "done", "failed"}]
  /\ sent \in Seq(SUBSET Sends) /\ wire \in Seq(Sends \cup {CloseCmd})
  /\ actor \in [at : {"select", "sink", "forward", "drain", "finish", "over"},
                item : Sends \cup Messages \cup {CloseCmd, CloseMsg, Nothing}]
  /\ stream \in [count : 0..MaxMsgs, done : BOOLEAN]
  /\ msgs \in Seq(Messages \cup {CloseMsg}) /\ Len(msgs) <= MsgCap
  /\ taken \in Seq(Messages \cup {CloseMsg})
  /\ tasks \subseteq Recvs /\ lock \in Seq(Recvs \cup {CloseCmd})
  /\ recvs \in [Recvs -> FutureStates] /\ due \in [Recvs -> FutureStates]
  /\ borrowed \in {0, 1}
  /\ closing \in {"idle", "take", "panicked", "send", "wait", "lock", "drain", "done"}

Held(at) == IF actor.at = at THEN <<actor.item>> ELSE <<>>

(* The peer's messages leave the channel in the order they came and without *)
(* a gap, and until the application closes, none is anywhere else than with *)
(* a recv(), in the channel or in the actor's hands.                        *)
MessagesInOrder ==
  LET line == taken \o msgs \o Held("forward")
  IN /\ \A j, k \in DOMAIN line :
          j < k /\ line[j] # CloseMsg /\ line[k] # CloseMsg => line[j] < line[k]
     /\ \E n \in 0..stream.count :
          /\ Range(line) \ {CloseMsg} = 1..n
          /\ handle.rx_msg => n = stream.count

(* A timeout never costs a message, however close it comes: before close(), *)
(* the messages that reached no caller are at most as many as the recv()    *)
(* calls the application cancelled.                                         *)
OnlyCancellationLoses ==
  LET reached == {m \in Messages : \E r \in Recvs : Got(m) \in {recvs[r], due[r]}}
      lost == {m \in Messages : \E k \in DOMAIN taken : taken[k] = m} \ reached
  IN handle.rx_msg => Cardinality(lost) <= Cardinality({r \in Recvs : recvs[r] = Cancelled})

(* Sends that the application awaits keep their order on the way to the     *)
(* socket, although a send may take the fast path or be a task of its own.  *)
Line == wire \o Held("sink") \o cmds \o slots
AwaitedSendsInOrder ==
  \A p, q \in DOMAIN Line : p < q /\ Line[p] # CloseCmd => Line[q] \notin sent[Line[p]]

(* close() completes, whatever the peer does.                               *)
CloseCompletes == closing = "take" ~> closing = "done"

(* Every recv() is answered: by a message, the end, the timeout.            *)
RecvsResolve == \A r \in Recvs : recvs[r] = Pending ~> recvs[r] # Pending

(* An object dropped without close() does not leave its actor behind.       *)
DroppedActorEnds == (~handle.tx_cmd /\ closing = "idle") ~> Ended
=============================================================================

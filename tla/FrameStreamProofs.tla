------------------------- MODULE FrameStreamProofs --------------------------
(***************************************************************************)
(* FrameStream implements FrameEvents, for every format of frames, every    *)
(* stream and every way of cutting it into reads.                           *)
(***************************************************************************)
EXTENDS FrameStream, TLAPS

-----------------------------------------------------------------------------
(* Runs of bytes: the bytes of the stream after position a.                 *)

Run(p, a) == p \in Seq(Nat) /\ \A i \in 1..Len(p) : p[i] = a + i

(* A read is the run of bytes after those already received (the slice       *)
(* handed to data_received()).                                              *)
LEMMA RunRead == \A n, r \in Nat :
    Run([i \in 1..n |-> r + i], r) /\ Len([i \in 1..n |-> r + i]) = n
  BY DEF Run

(* No bytes are a run from anywhere (an empty State.buf).                   *)
LEMMA RunEmpty == \A a : Run(<<>>, a) /\ Len(<<>>) = 0
  BY DEF Run

(* A read appended to what is parked is a run (extend_from_slice()).        *)
LEMMA RunCat == \A a \in Nat : \A p, q :
    Run(p, a) /\ Run(q, a + Len(p)) => Run(p \o q, a) /\ Len(p \o q) = Len(p) + Len(q)
  <1> SUFFICES ASSUME NEW a \in Nat, NEW p, NEW q, Run(p, a), Run(q, a + Len(p))
               PROVE  Run(p \o q, a) /\ Len(p \o q) = Len(p) + Len(q)
    OBVIOUS
  <1>1. p \in Seq(Nat) /\ q \in Seq(Nat) /\ Len(p) \in Nat /\ Len(q) \in Nat
    BY DEF Run
  <1>2. p \o q \in Seq(Nat) /\ Len(p \o q) = Len(p) + Len(q)
    BY <1>1
  <1>3. ASSUME NEW i \in 1..Len(p \o q) PROVE (p \o q)[i] = a + i
    <2>1. CASE i <= Len(p)
      BY <2>1, <1>1, <1>2 DEF Run
    <2>2. CASE i > Len(p)
      <3>1. (p \o q)[i] = q[i - Len(p)] /\ i - Len(p) \in 1..Len(q)
        BY <2>2, <1>1, <1>2
      <3> QED BY <3>1, <1>1, <1>2 DEF Run
    <2> QED BY <2>1, <2>2, <1>1, <1>2
  <1> QED BY <1>2, <1>3 DEF Run

(* What is left after a frame is a run (buf.advance()).                     *)
LEMMA RunRest == \A a, t \in Nat : \A p :
    Run(p, a) /\ t <= Len(p) =>
      Run(SubSeq(p, t + 1, Len(p)), a + t) /\ Len(SubSeq(p, t + 1, Len(p))) = Len(p) - t
  <1> SUFFICES ASSUME NEW a \in Nat, NEW t \in Nat, NEW p, Run(p, a), t <= Len(p)
               PROVE  /\ Run(SubSeq(p, t + 1, Len(p)), a + t)
                      /\ Len(SubSeq(p, t + 1, Len(p))) = Len(p) - t
    OBVIOUS
  <1>1. p \in Seq(Nat) /\ Len(p) \in Nat
    BY DEF Run
  <1>2. SubSeq(p, t + 1, Len(p)) \in Seq(Nat) /\ Len(SubSeq(p, t + 1, Len(p))) = Len(p) - t
    BY <1>1
  <1>3. ASSUME NEW i \in 1..(Len(p) - t)
        PROVE  SubSeq(p, t + 1, Len(p))[i] = a + t + i
    <2>1. t + i \in 1..Len(p) /\ i \in 1..(Len(p) - (t + 1) + 1) /\ t + 1 + i - 1 = t + i
      BY <1>1
    <2>2. SubSeq(p, t + 1, Len(p))[i] = p[t + 1 + i - 1]
      BY ONLY <1>1, <2>1, t \in Nat, t <= Len(p)
    <2> QED BY <2>1, <2>2, <1>1 DEF Run
  <1> QED BY <1>2, <1>3 DEF Run

-----------------------------------------------------------------------------
(* The effect of a frame on the parser's state.                             *)

Endings == {"open", "peer", "rejected", "1002", "1009"}
Fragments == [ids : Seq(Nat), len : Nat, inflated : Nat, rsv1 : BOOLEAN]
Outs == [messages : Seq(Seq(Nat)), acks : Seq(Nat), pongs : Seq(Nat), end : Endings]
Cores == [handshake_done : BOOLEAN, fragment : Fragments, out : Outs]

(* A fragment that is closed is empty, one of several frames is bounded.    *)
CoreOK(c) ==
  /\ c \in Cores
  /\ c.fragment.ids = <<>> => c.fragment = NoFragment
  /\ Len(c.fragment.ids) > 1 => c.fragment.len <= MaxMessage

(* No fragment is a fragment (fragment_buf = None).                         *)
LEMMA NoFragmentOK == NoFragment \in Fragments /\ NoFragment.ids = <<>> /\ NoFragment.len = 0
  BY DEF NoFragment, Fragments

(* Failing the connection changes the ending only (ProtocolError).          *)
LEMMA FailsOK == \A c \in Cores : \A how \in Endings :
    /\ Fails(c, how) \in Cores
    /\ Fails(c, how).fragment = c.fragment /\ Fails(c, how).handshake_done = c.handshake_done
    /\ Fails(c, how).out.end = how
  BY Zenon DEF Fails, Ends, Cores, Outs

(* A visited frame adds one event or ends the connection.                   *)
LEMMA VisitOK == \A o \in Outs : \A f \in Header : \A id \in Nat :
    /\ Visit(o, f, id) \in Outs
    /\ f.op # "close" => Visit(o, f, id).end = o.end
    /\ f.op = "close" => Visit(o, f, id).end = "peer"
  <1> SUFFICES ASSUME NEW o \in Outs, NEW f \in Header, NEW id \in Nat
               PROVE  /\ Visit(o, f, id) \in Outs
                      /\ f.op # "close" => Visit(o, f, id).end = o.end
                      /\ f.op = "close" => Visit(o, f, id).end = "peer"
    OBVIOUS
  <1>1. CASE f.op = "data"
    <2>1. <<id>> \in Seq(Nat) /\ o.messages \in Seq(Seq(Nat))
      BY DEF Outs
    <2>2. Append(o.messages, <<id>>) \in Seq(Seq(Nat))
      BY <2>1
    <2> QED BY Zenon, <1>1, <2>2 DEF Visit, Message, Outs
  <1>2. CASE f.op = "ping"
    <2>1. Append(o.pongs, id) \in Seq(Nat)
      BY DEF Outs
    <2> QED BY Zenon, <1>2, <2>1 DEF Visit, Outs
  <1>3. CASE f.op = "pong"
    <2>1. Append(o.acks, id) \in Seq(Nat)
      BY DEF Outs
    <2> QED BY Zenon, <1>3, <2>1 DEF Visit, Outs
  <1>4. CASE f.op = "close"
    <2>1. Visit(o, f, id) = [o EXCEPT !.end = "peer"]
      BY <1>4 DEF Visit, Ends
    <2> QED BY <1>4, <2>1 DEF Outs, Endings
  <1>5. CASE f.op \notin {"data", "ping", "pong", "close"}
    BY <1>5 DEF Visit, Outs
  <1> QED BY <1>1, <1>2, <1>3, <1>4, <1>5

(* A fragment with one more frame is one frame longer (next_event()).       *)
LEMMA JoinedOK == \A m \in Fragments : \A f \in Header : \A id \in Nat :
    /\ Joined(m, f, id) \in Fragments
    /\ Joined(m, f, id).ids = Append(m.ids, id) /\ Joined(m, f, id).len = m.len + f.plen
    /\ Joined(m, f, id).ids # <<>>
  <1> SUFFICES ASSUME NEW m \in Fragments, NEW f \in Header, NEW id \in Nat
               PROVE  /\ Joined(m, f, id) \in Fragments
                      /\ Joined(m, f, id).ids = Append(m.ids, id)
                      /\ Joined(m, f, id).len = m.len + f.plen
                      /\ Joined(m, f, id).ids # <<>>
    BY Zenon
  <1>1. m.ids \in Seq(Nat) /\ m.len \in Nat /\ m.inflated \in Nat /\ m.rsv1 \in BOOLEAN
    BY DEF Fragments
  <1>2. f.plen \in Nat /\ f.inflated \in Nat /\ f.rsv1 \in BOOLEAN
    BY DEF Header
  <1>3. Append(m.ids, id) \in Seq(Nat) /\ Append(m.ids, id) # <<>>
    <2>1. \A s \in Seq(Nat) : Append(s, id) \in Seq(Nat) /\ Len(Append(s, id)) = Len(s) + 1 /\ Len(s) \in Nat
      OBVIOUS
    <2>2. \A s : s = <<>> => Len(s) = 0
      OBVIOUS
    <2> QED BY <1>1, <2>1, <2>2, SMT
  <1>4. m.len + f.plen \in Nat /\ m.inflated + f.inflated \in Nat
    BY <1>1, <1>2
  <1> QED BY <1>1, <1>2, <1>3, <1>4 DEF Joined, Fragments

(* A message is delivered or fails the connection; no fragment is opened    *)
(* (decompress_message()).                                                  *)
LEMMA DeliversOK == \A c \in Cores : \A m \in Fragments :
    /\ Delivers(c, m) \in Cores
    /\ Delivers(c, m).fragment = c.fragment
    /\ Delivers(c, m).handshake_done = c.handshake_done
  <1> SUFFICES ASSUME NEW c \in Cores, NEW m \in Fragments
               PROVE  /\ Delivers(c, m) \in Cores
                      /\ Delivers(c, m).fragment = c.fragment
                      /\ Delivers(c, m).handshake_done = c.handshake_done
    OBVIOUS
  <1>1. CASE m.rsv1 /\ (~compression \/ m.inflated > MaxMessage)
    <2>1. Delivers(c, m) = Fails(c, "1002") \/ Delivers(c, m) = Fails(c, "1009")
      BY <1>1 DEF Delivers
    <2> QED BY <2>1, FailsOK DEF Endings
  <1>2. CASE ~(m.rsv1 /\ (~compression \/ m.inflated > MaxMessage))
    <2>1. Append(c.out.messages, m.ids) \in Seq(Seq(Nat))
      BY DEF Cores, Outs, Fragments
    <2>2. Message(c.out, m.ids) \in Outs
      BY Zenon, <2>1 DEF Message, Cores, Outs
    <2>3. Delivers(c, m) = [c EXCEPT !.out = Message(@, m.ids)]
      BY <1>2 DEF Delivers
    <2> QED BY <2>2, <2>3 DEF Cores
  <1> QED BY <1>1, <1>2

(* The parser starts with no fragment and no events.                        *)
LEMMA InitCore == EventsInit => CoreOK(core)
  <1> SUFFICES ASSUME EventsInit PROVE CoreOK(core)
    OBVIOUS
  <1>1. <<>> \in Seq(Nat) /\ <<>> \in Seq(Seq(Nat)) /\ Len(<<>>) = 0
    OBVIOUS
  <1>2. core \in Cores
    BY <1>1, NoFragmentOK DEF EventsInit, Cores, Outs, Endings
  <1>3. core.fragment = NoFragment
    BY DEF EventsInit
  <1>4. ~(Len(NoFragment.ids) > 1)
    BY <1>1, NoFragmentOK
  <1> QED BY <1>2, <1>3, <1>4 DEF CoreOK

(* Every frame leaves a closed fragment empty and an open one within        *)
(* MAX_MESSAGE_SIZE (next_event(), process_handshake()).                    *)
LEMMA EffectOK == \A c : \A f \in Header : \A id \in Nat :
    CoreOK(c) /\ c.out.end = "open" =>
      /\ CoreOK(Effect(c, f, id))
      /\ Effect(c, f, id).out.end = "open" \/ c.handshake_done => Effect(c, f, id).handshake_done
  <1> SUFFICES ASSUME NEW c, NEW f \in Header, NEW id \in Nat, CoreOK(c), c.out.end = "open"
               PROVE  /\ CoreOK(Effect(c, f, id))
                      /\ Effect(c, f, id).out.end = "open" \/ c.handshake_done => Effect(c, f, id).handshake_done
    OBVIOUS
  <1> DEFINE e == Effect(c, f, id)
             m == Joined(c.fragment, f, id)
  <1>0. c \in Cores /\ c.fragment \in Fragments /\ c.out \in Outs /\ c.handshake_done \in BOOLEAN
    BY DEF CoreOK, Cores
  <1>1. CASE ~c.handshake_done /\ f.op = "reject"
    <2>1. e = Fails(c, "rejected")
      BY <1>1 DEF Effect, Answered
    <2> QED BY <2>1, <1>0, FailsOK DEF CoreOK, Endings
  <1>2. CASE ~c.handshake_done /\ f.op # "reject"
    <2>1. e = [c EXCEPT !.handshake_done = TRUE]
      BY <1>2 DEF Effect, Answered
    <2> QED BY Zenon, <2>1, <1>0 DEF CoreOK, Cores
  <1>3. CASE c.handshake_done /\ Refusal(c, f) # "none"
    <2>1. e = Fails(c, Refusal(c, f))
      BY <1>3 DEF Effect
    <2>2. Refusal(c, f) \in {"1002", "1009"}
      BY <1>3 DEF Refusal
    <2>3. Refusal(c, f) \in Endings
      BY <2>2 DEF Endings
    <2>4. /\ e \in Cores /\ e.fragment = c.fragment /\ e.handshake_done = c.handshake_done
      BY <2>1, <2>3, <1>0, FailsOK
    <2> QED BY <2>4, <1>3 DEF CoreOK
  <1>4. CASE c.handshake_done /\ Refusal(c, f) = "none"
    <2>1. e = NextEvent(c, f, id)
      BY <1>4 DEF Effect
    <2>2. CASE f.op \notin {"data", "continuation"}
      <3>1. e = [c EXCEPT !.out = Visit(@, f, id)]
        BY <2>1, <2>2 DEF NextEvent
      <3>2. Visit(c.out, f, id) \in Outs
        BY <1>0, VisitOK
      <3> QED BY <3>1, <3>2, <1>0, <1>4 DEF CoreOK, Cores
    <2>3. CASE f.op \in {"data", "continuation"} /\ f.fin
      <3> DEFINE d == [c EXCEPT !.fragment = NoFragment]
      <3>1. e = Delivers(d, m)
        BY <2>1, <2>3 DEF NextEvent
      <3>2. d \in Cores /\ d.fragment = NoFragment /\ d.handshake_done
        BY <1>0, <1>4, NoFragmentOK DEF Cores
      <3>3. m \in Fragments
        BY <1>0, JoinedOK
      <3>4. e \in Cores /\ e.fragment = NoFragment /\ e.handshake_done
        <4> HIDE DEF d, m, e
        <4>1. Delivers(d, m) \in Cores /\ Delivers(d, m).fragment = d.fragment
              /\ Delivers(d, m).handshake_done = d.handshake_done
          BY Zenon, <3>2, <3>3, DeliversOK
        <4> QED BY Zenon, <4>1, <3>1, <3>2
      <3>5. ~(Len(NoFragment.ids) > 1)
        BY NoFragmentOK
      <3> QED BY <3>4, <3>5 DEF CoreOK
    <2>4. CASE f.op \in {"data", "continuation"} /\ ~f.fin
      <3>1. e = [c EXCEPT !.fragment = m]
        BY <2>1, <2>4 DEF NextEvent
      <3>2. m \in Fragments /\ m.ids # <<>> /\ m.ids = Append(c.fragment.ids, id)
            /\ m.len = c.fragment.len + f.plen
        BY Zenon, <1>0, JoinedOK
      <3>3. e \in Cores /\ e.fragment = m /\ e.handshake_done
        BY <3>1, <3>2, <1>0, <1>4 DEF Cores
      <3>4. CASE f.op = "data"
        <4>1. c.fragment.ids = <<>>
          BY <1>4, <3>4 DEF Refusal
        <4>2. Len(m.ids) = 1
          BY <4>1, <3>2
        <4> QED BY <4>2, <3>2, <3>3 DEF CoreOK
      <3>5. CASE f.op = "continuation"
        <4>1. ~Oversized(c.fragment, f)
          BY <1>4, <3>5 DEF Refusal
        <4>2. m.len <= MaxMessage
          <5>1. c.fragment.len \in Nat /\ f.plen \in Nat /\ MaxMessage \in Nat
            BY <1>0, FormatAssumption DEF Fragments, Header
          <5> QED BY <5>1, <4>1, <3>2 DEF Oversized
        <4> QED BY <4>2, <3>2, <3>3 DEF CoreOK
      <3> QED BY <2>4, <3>4, <3>5
    <2> QED BY <2>2, <2>3, <2>4
  <1> QED BY <1>0, <1>1, <1>2, <1>3, <1>4

-----------------------------------------------------------------------------
(* Messages: what FrameEvents delivers is what the peer sent.               *)

(* The four things a frame can do once the handshake is done.               *)
Ended(c, e) == e.out.end # "open" /\ e.out.messages = c.out.messages
Passed(c, e, f) ==
  e.out.messages = c.out.messages /\ e.fragment = c.fragment /\ f.op \notin {"data", "continuation"}
Fits(c, f) == f.op = IF c.fragment.ids = <<>> THEN "data" ELSE "continuation"
Finished(c, e, f, id) ==
  /\ e.out.messages = Append(c.out.messages, Append(c.fragment.ids, id))
  /\ e.fragment.ids = <<>> /\ f.fin /\ Fits(c, f)
Grown(c, e, f, id) ==
  /\ e.out.messages = c.out.messages
  /\ e.fragment.ids = Append(c.fragment.ids, id) /\ ~f.fin /\ Fits(c, f)

(* A frame ends the connection, is a control frame, completes a message or  *)
(* adds to one (next_event()).                                              *)
LEMMA EffectCases == \A c : \A f \in Header : \A id \in Nat :
    CoreOK(c) /\ c.handshake_done =>
      LET e == Effect(c, f, id) IN Ended(c, e) \/ Passed(c, e, f) \/ Finished(c, e, f, id) \/ Grown(c, e, f, id)
  <1> SUFFICES ASSUME NEW c, NEW f \in Header, NEW id \in Nat, CoreOK(c), c.handshake_done
               PROVE  LET e == Effect(c, f, id)
                      IN Ended(c, e) \/ Passed(c, e, f) \/ Finished(c, e, f, id) \/ Grown(c, e, f, id)
    OBVIOUS
  <1> DEFINE e == Effect(c, f, id)
             m == Joined(c.fragment, f, id)
             d == [c EXCEPT !.fragment = NoFragment]
  <1>0. c \in Cores /\ c.fragment \in Fragments /\ c.out \in Outs
    BY DEF CoreOK, Cores
  <1>1. m.ids = Append(c.fragment.ids, id) /\ m \in Fragments
    BY Zenon, <1>0, JoinedOK
  <1>2. d \in Cores /\ d.fragment = NoFragment /\ d.out = c.out
    BY <1>0, NoFragmentOK DEF Cores
  <1>3. \A x \in Cores : \A how \in {"1002", "1009"} :
          Fails(x, how).out.end # "open" /\ Fails(x, how).out.messages = x.out.messages
    BY DEF Fails, Ends, Cores, Outs
  <1>4. CASE Refusal(c, f) # "none"
    <2>1. e = Fails(c, Refusal(c, f))
      BY <1>4 DEF Effect
    <2>2. Refusal(c, f) \in {"1002", "1009"}
      BY <1>4 DEF Refusal
    <2> QED BY <1>0, <1>3, <2>1, <2>2 DEF Ended
  <1>5. CASE Refusal(c, f) = "none" /\ f.op \notin {"data", "continuation"}
    <2>1. e = [c EXCEPT !.out = Visit(@, f, id)]
      BY <1>5 DEF Effect, NextEvent
    <2>2. e.fragment = c.fragment /\ e.out = Visit(c.out, f, id)
      BY <1>0, <2>1 DEF Cores
    <2>3. Visit(c.out, f, id).messages = c.out.messages
      BY <1>0, <1>5 DEF Visit, Ends, Outs
    <2> QED BY <1>5, <2>2, <2>3 DEF Passed
  <1>6. CASE Refusal(c, f) = "none" /\ f.op \in {"data", "continuation"}
    <2>1. Fits(c, f)
      BY <1>6 DEF Refusal, Fits
    <2>2. CASE f.fin
      <3>1. e = Delivers(d, m)
        BY <1>6, <2>2 DEF Effect, NextEvent
      <3> HIDE DEF d, m, e
      <3>2. CASE Delivers(d, m) = Fails(d, "1002") \/ Delivers(d, m) = Fails(d, "1009")
        <4>1. Fails(d, "1002").out.end # "open" /\ Fails(d, "1002").out.messages = d.out.messages
          BY <1>2, <1>3
        <4>2. Fails(d, "1009").out.end # "open" /\ Fails(d, "1009").out.messages = d.out.messages
          BY <1>2, <1>3
        <4>3. Ended(c, e)
          BY <1>2, <3>1, <3>2, <4>1, <4>2 DEF Ended
        <4> QED BY <4>3 DEF e
      <3>3. CASE Delivers(d, m) = [d EXCEPT !.out = Message(@, m.ids)]
        <4>1. e.fragment = NoFragment /\ e.out = Message(c.out, m.ids)
          BY <1>2, <3>1, <3>3 DEF Cores
        <4>2. e.out.messages = Append(c.out.messages, m.ids)
          BY <1>0, <4>1 DEF Message, Outs
        <4>3. Finished(c, e, f, id)
          BY <1>1, <2>1, <2>2, <4>1, <4>2, NoFragmentOK DEF Finished
        <4> QED BY <4>3 DEF e
      <3> QED BY <3>2, <3>3 DEF Delivers
    <2>3. CASE ~f.fin
      <3>1. e = [c EXCEPT !.fragment = m]
        BY <1>6, <2>3 DEF Effect, NextEvent
      <3> HIDE DEF m, e
      <3>2. e.fragment = m /\ e.out = c.out
        BY <1>0, <3>1 DEF Cores
      <3>3. Grown(c, e, f, id)
        BY <1>1, <2>1, <2>3, <3>2 DEF Grown
      <3> QED BY <3>3 DEF e
    <2> QED BY <2>2, <2>3
  <1> QED BY <1>4, <1>5, <1>6

(* One more frame taken changes nothing of what was gathered.               *)
LEMMA GatheredLater == \A s, m : \A n \in Nat : Gathered(s, n, m) => Gathered(s, n + 1, m)
  <1> SUFFICES ASSUME NEW s, NEW m, NEW n \in Nat, Gathered(s, n, m) PROVE Gathered(s, n + 1, m)
    OBVIOUS
  <1>1. \A k \in 2..n : k \in 2..(n + 1)
    OBVIOUS
  <1> QED BY <1>1 DEF Gathered

(* One more frame sent changes nothing of the frames taken.                 *)
LEMMA SentLater == ASSUME NEW s \in Seq(DOMAIN Format), NEW kind, NEW k \in 1..Len(s)
                   PROVE  /\ Append(s, kind)[k] = s[k]
                          /\ Part(Append(s, kind), k) = Part(s, k)
                          /\ Final(Append(s, kind), k) = Final(s, k)
  <1>1. Append(s, kind)[k] = s[k]
    OBVIOUS
  <1> QED BY <1>1 DEF Part, Final

(* Between two numbers of a range lie numbers of the range.                 *)
LEMMA Between == \A n \in Nat : \A a, b \in 1..n : \A j \in (a + 1)..(b - 1) : j \in 1..n
  OBVIOUS

(* ... nor of what was gathered.                                            *)
LEMMA GatheredSent == ASSUME NEW s \in Seq(DOMAIN Format), NEW kind, NEW n \in Nat, n <= Len(s),
                             NEW m \in Seq(Nat), Gathered(s, n, m)
                      PROVE  Gathered(Append(s, kind), n, m)
  <1> DEFINE t == Append(s, kind)
  <1>1. \A k \in 1..n : t[k] = s[k] /\ Part(t, k) = Part(s, k) /\ Final(t, k) = Final(s, k)
    <2> SUFFICES ASSUME NEW k \in 1..n
                 PROVE  t[k] = s[k] /\ Part(t, k) = Part(s, k) /\ Final(t, k) = Final(s, k)
      OBVIOUS
    <2>1. k \in 1..Len(s)
      OBVIOUS
    <2> QED BY <2>1, SentLater
  <1> HIDE DEF t
  <1>2. \A i \in 1..Len(m) : m[i] \in 1..n
    BY DEF Gathered
  <1>3. \A i \in 1..Len(m) : Format[t[m[i]]].op = IF i = 1 THEN "data" ELSE "continuation"
    BY <1>1, <1>2 DEF Gathered
  <1>4. ASSUME NEW i \in 1..(Len(m) - 1)
        PROVE  ~Final(t, m[i]) /\ Follows(t, m[i], m[i + 1])
    <2>1. i \in 1..Len(m) /\ i + 1 \in 1..Len(m)
      OBVIOUS
    <2>2. m[i] \in 1..n /\ m[i + 1] \in 1..n
      BY <1>2, <2>1
    <2>3. ~Final(s, m[i]) /\ Follows(s, m[i], m[i + 1])
      BY DEF Gathered
    <2>4. \A j \in (m[i] + 1)..(m[i + 1] - 1) : j \in 1..n
      BY Zenon, <2>2, Between
    <2>5. \A j \in (m[i] + 1)..(m[i + 1] - 1) : ~Part(t, j)
      BY <1>1, <2>3, <2>4 DEF Follows
    <2> QED BY <1>1, <2>2, <2>3, <2>5 DEF Follows
  <1> QED BY <1>3, <1>4 DEF Gathered, t

(* The next frame continues what is gathered, or starts a message.          *)
LEMMA GatheredMore == ASSUME NEW s, NEW n \in Nat, n > 0, NEW m \in Seq(Nat),
                             Format[s[n + 1]].op = IF m = <<>> THEN "data" ELSE "continuation",
                             m # <<>> => /\ Gathered(s, n, m) /\ ~Final(s, Last(m))
                                         /\ \A k \in (Last(m) + 1)..n : ~Part(s, k)
                      PROVE  /\ Gathered(s, n + 1, Append(m, n + 1))
                             /\ Last(Append(m, n + 1)) = n + 1
                             /\ Append(m, n + 1)[1] = IF m = <<>> THEN n + 1 ELSE m[1]
  <1> DEFINE a == Append(m, n + 1)
             l == Len(m)
  <1>1. a \in Seq(Nat) /\ Len(a) = l + 1 /\ a[l + 1] = n + 1 /\ l \in Nat
    OBVIOUS
  <1>2. \A i \in 1..l : a[i] = m[i]
    OBVIOUS
  <1>3. m = <<>> <=> l = 0
    OBVIOUS
  <1>4. a # <<>>
    BY <1>1
  <1> HIDE DEF a, l
  <1>5. \A i \in 1..l : m[i] \in 2..n
    BY <1>1, <1>3 DEF Gathered, l
  <1>6. ASSUME NEW i \in 1..(l + 1)
        PROVE  a[i] \in 2..(n + 1) /\ Format[s[a[i]]].op = IF i = 1 THEN "data" ELSE "continuation"
    <2>1. CASE i \in 1..l
      <3>1. a[i] = m[i] /\ m[i] \in 2..n
        BY <1>2, <1>5, <2>1
      <3>2. Format[s[m[i]]].op = IF i = 1 THEN "data" ELSE "continuation"
        BY <1>1, <1>3, <2>1 DEF Gathered, l
      <3> QED BY <3>1, <3>2
    <2>2. CASE i = l + 1
      <3>1. a[i] = n + 1 /\ (i = 1 <=> m = <<>>)
        BY <1>1, <1>3, <2>2
      <3> QED BY <3>1
    <2> QED BY <1>1, <2>1, <2>2
  <1>7. ASSUME NEW i \in 1..l
        PROVE  ~Final(s, a[i]) /\ Follows(s, a[i], a[i + 1])
    <2>1. m # <<>> /\ a[i] = m[i] /\ m[i] \in 2..n
      BY <1>1, <1>2, <1>3, <1>5
    <2>2. CASE i = l
      <3>1. m[i] = Last(m) /\ a[i + 1] = n + 1
        BY <1>1, <2>2 DEF Last, l
      <3>2. ~Final(s, m[i]) /\ \A k \in (m[i] + 1)..n : ~Part(s, k)
        BY <2>1, <3>1
      <3>3. m[i] < n + 1 /\ (n + 1) - 1 = n
        BY <2>1
      <3> QED BY <2>1, <3>1, <3>2, <3>3 DEF Follows
    <2>3. CASE i # l
      <3>1. i \in 1..(l - 1) /\ i + 1 \in 1..l
        BY <1>1, <2>3
      <3>2. a[i + 1] = m[i + 1]
        BY <1>2, <3>1
      <3>3. ~Final(s, m[i]) /\ Follows(s, m[i], m[i + 1])
        BY <2>1, <3>1 DEF Gathered, l
      <3> QED BY <2>1, <3>2, <3>3
    <2> QED BY <2>2, <2>3
  <1>8. Gathered(s, n + 1, a)
    <2>1. (l + 1) - 1 = l
      BY <1>1
    <2> QED BY <1>1, <1>4, <1>6, <1>7, <2>1 DEF Gathered
  <1>9. a[1] = IF m = <<>> THEN n + 1 ELSE m[1]
    BY <1>1, <1>2, <1>3
  <1> QED BY <1>1, <1>8, <1>9 DEF Last, a

(* MessagesAsSent, of the messages ms after n frames of s.                  *)
Delivered(s, n, open, ms) ==
  /\ \A i \in 1..Len(ms) : Gathered(s, n, ms[i]) /\ Final(s, Last(ms[i]))
  /\ \A i, j \in 1..Len(ms) : i < j => Last(ms[i]) < ms[j][1]
  /\ \A k \in 2..n : Final(s, k) /\ (k < n \/ open) => \E i \in 1..Len(ms) : Last(ms[i]) = k

(* The open fragment is the message in progress, after all those delivered. *)
Assembling(s, n, ids, ms) ==
  ids # <<>> =>
    /\ Gathered(s, n, ids) /\ ~Final(s, Last(ids))
    /\ \A k \in (Last(ids) + 1)..n : ~Part(s, k)
    /\ \A i \in 1..Len(ms) : Last(ms[i]) < ids[1]

(* The last frame of a message is one of those taken.                       *)
LEMMA LastTaken == \A s : \A n \in Nat : \A m \in Seq(Nat) : Gathered(s, n, m) => Last(m) \in 2..n /\ m[1] \in 2..n
  <1> SUFFICES ASSUME NEW s, NEW n \in Nat, NEW m \in Seq(Nat), Gathered(s, n, m)
               PROVE  Last(m) \in 2..n /\ m[1] \in 2..n
    OBVIOUS
  <1>1. Len(m) \in 1..Len(m) /\ 1 \in 1..Len(m)
    BY DEF Gathered
  <1> QED BY <1>1 DEF Gathered, Last

(* A frame that completes no message, or ends the connection, delivers      *)
(* nothing.                                                                 *)
LEMMA DeliveredLater == ASSUME NEW s, NEW n \in Nat, NEW ms, NEW open \in BOOLEAN,
                               Delivered(s, n, TRUE, ms), Final(s, n + 1) => ~open
                        PROVE  Delivered(s, n + 1, open, ms)
  <1>1. \A i \in 1..Len(ms) : Gathered(s, n + 1, ms[i]) /\ Final(s, Last(ms[i]))
    BY GatheredLater DEF Delivered
  <1>2. ASSUME NEW k \in 2..(n + 1), Final(s, k), k < n + 1 \/ open
        PROVE  \E i \in 1..Len(ms) : Last(ms[i]) = k
    <2>1. k \in 2..n
      <3>1. CASE k = n + 1
        BY <1>2, <3>1
      <3>2. CASE k # n + 1
        BY <3>2
      <3> QED BY <3>1, <3>2
    <2> QED BY <1>2, <2>1 DEF Delivered
  <1> QED BY <1>1, <1>2 DEF Delivered

(* A final frame delivers the message it completes.                         *)
LEMMA DeliveredNew == ASSUME NEW s, NEW n \in Nat, NEW ms \in Seq(Seq(Nat)), NEW m \in Seq(Nat), NEW open \in BOOLEAN,
                             Delivered(s, n, TRUE, ms), Gathered(s, n + 1, m), Last(m) = n + 1,
                             Final(s, n + 1), \A i \in 1..Len(ms) : Last(ms[i]) < m[1]
                      PROVE  Delivered(s, n + 1, open, Append(ms, m))
  <1> DEFINE a == Append(ms, m)
             l == Len(ms)
  <1>1. Len(a) = l + 1 /\ a[l + 1] = m /\ l \in Nat
    OBVIOUS
  <1>2. \A i \in 1..l : a[i] = ms[i]
    OBVIOUS
  <1> HIDE DEF a, l
  <1>3. ASSUME NEW i \in 1..(l + 1) PROVE Gathered(s, n + 1, a[i]) /\ Final(s, Last(a[i]))
    <2>1. CASE i = l + 1
      BY <1>1, <2>1
    <2>2. CASE i \in 1..l
      <3>1. Gathered(s, n, ms[i]) /\ Final(s, Last(ms[i]))
        BY <2>2 DEF Delivered, l
      <3> QED BY <1>2, <2>2, <3>1, GatheredLater
    <2> QED BY <1>1, <2>1, <2>2
  <1>4. ASSUME NEW i \in 1..(l + 1), NEW j \in 1..(l + 1), i < j PROVE Last(a[i]) < a[j][1]
    <2>1. i \in 1..l /\ a[i] = ms[i]
      BY <1>1, <1>2, <1>4
    <2>2. CASE j = l + 1
      BY <1>1, <2>1, <2>2 DEF l
    <2>3. CASE j \in 1..l
      <3>1. Last(ms[i]) < ms[j][1]
        BY <1>4, <2>1, <2>3 DEF Delivered, l
      <3> QED BY <1>2, <2>1, <2>3, <3>1
    <2> QED BY <1>1, <2>2, <2>3
  <1>5. ASSUME NEW k \in 2..(n + 1), Final(s, k)
        PROVE  \E i \in 1..(l + 1) : Last(a[i]) = k
    <2>1. CASE k = n + 1
      <3>1. l + 1 \in 1..(l + 1) /\ Last(a[l + 1]) = k
        BY <1>1, <2>1
      <3> QED BY <3>1
    <2>2. CASE k # n + 1
      <3>1. k \in 2..n
        BY <2>2
      <3>2. PICK i \in 1..l : Last(ms[i]) = k
        BY <1>5, <3>1 DEF Delivered, l
      <3>3. i \in 1..(l + 1) /\ a[i] = ms[i]
        BY <1>1, <1>2
      <3> QED BY <3>2, <3>3
    <2> QED BY <2>1, <2>2
  <1> QED BY Zenon, <1>1, <1>3, <1>4, <1>5 DEF Delivered, a

(* What the peer sends later changes no message.                            *)
LEMMA DeliveredSent == ASSUME NEW s \in Seq(DOMAIN Format), NEW kind, NEW n \in Nat, n <= Len(s),
                              NEW ms \in Seq(Seq(Nat)), NEW open, Delivered(s, n, open, ms)
                       PROVE  Delivered(Append(s, kind), n, open, ms)
  <1> DEFINE t == Append(s, kind)
  <1>1. \A k \in 1..n : Final(t, k) = Final(s, k)
    <2> SUFFICES ASSUME NEW k \in 1..n PROVE Final(t, k) = Final(s, k)
      OBVIOUS
    <2>1. k \in 1..Len(s)
      OBVIOUS
    <2> QED BY <2>1, SentLater
  <1>2. ASSUME NEW i \in 1..Len(ms) PROVE Gathered(t, n, ms[i]) /\ Final(t, Last(ms[i]))
    <2>1. ms[i] \in Seq(Nat) /\ Gathered(s, n, ms[i]) /\ Final(s, Last(ms[i]))
      BY DEF Delivered
    <2>2. Last(ms[i]) \in 2..n
      BY <2>1, LastTaken
    <2>3. Last(ms[i]) \in 1..n
      BY <2>2
    <2> HIDE DEF t
    <2>4. Final(t, Last(ms[i]))
      BY <1>1, <2>1, <2>3
    <2> QED BY <2>1, <2>4, GatheredSent DEF t
  <1> HIDE DEF t
  <1>3. \A k \in 2..n : Final(t, k) => Final(s, k)
    BY <1>1
  <1> QED BY Zenon, <1>2, <1>3 DEF Delivered, t

(* ... and no message in progress.                                          *)
LEMMA AssemblingSent == ASSUME NEW s \in Seq(DOMAIN Format), NEW kind, NEW n \in Nat, n <= Len(s),
                               NEW ids \in Seq(Nat), NEW ms, Assembling(s, n, ids, ms)
                        PROVE  Assembling(Append(s, kind), n, ids, ms)
  <1> SUFFICES ASSUME ids # <<>>
               PROVE  /\ Gathered(Append(s, kind), n, ids) /\ ~Final(Append(s, kind), Last(ids))
                      /\ \A k \in (Last(ids) + 1)..n : ~Part(Append(s, kind), k)
    BY DEF Assembling
  <1>1. Gathered(s, n, ids) /\ ~Final(s, Last(ids)) /\ \A k \in (Last(ids) + 1)..n : ~Part(s, k)
    BY DEF Assembling
  <1>2. Last(ids) \in 2..n
    BY <1>1, LastTaken
  <1>3. Last(ids) \in 1..Len(s)
    BY <1>2
  <1>4. \A k \in (Last(ids) + 1)..n : k \in 1..Len(s)
    BY <1>2
  <1>5. \A k \in (Last(ids) + 1)..n : ~Part(Append(s, kind), k)
    BY <1>1, <1>4, SentLater
  <1> QED BY <1>1, <1>3, <1>5, SentLater, GatheredSent

-----------------------------------------------------------------------------
(* Control frames: Pings to answer and Pongs to acknowledge.                *)

(* A visited Ping is queued for an answer, a Pong acknowledged.             *)
LEMMA VisitControls == \A o \in Outs : \A f, id : f.op \notin {"data", "continuation"} =>
    /\ Visit(o, f, id).pongs = IF f.op = "ping" THEN Append(o.pongs, id) ELSE o.pongs
    /\ Visit(o, f, id).acks = IF f.op = "pong" THEN Append(o.acks, id) ELSE o.acks
  <1> SUFFICES ASSUME NEW o \in Outs, NEW f, NEW id, f.op \notin {"data", "continuation"}
               PROVE  /\ Visit(o, f, id).pongs = IF f.op = "ping" THEN Append(o.pongs, id) ELSE o.pongs
                      /\ Visit(o, f, id).acks = IF f.op = "pong" THEN Append(o.acks, id) ELSE o.acks
    OBVIOUS
  <1>1. CASE f.op = "ping"
    BY <1>1 DEF Visit, Outs
  <1>2. CASE f.op = "pong"
    BY Zenon, <1>2 DEF Visit, Outs
  <1>3. CASE f.op = "close"
    BY <1>3 DEF Visit, Outs, Ends
  <1>4. CASE f.op \notin {"ping", "pong", "close"}
    BY <1>4 DEF Visit
  <1> QED BY <1>1, <1>2, <1>3, <1>4

(* A frame adds itself to the Pongs due or to the acknowledgements, or      *)
(* changes neither.                                                         *)
LEMMA EffectControls == \A c : \A f \in Header : \A id \in Nat :
    CoreOK(c) =>
      LET e == Effect(c, f, id)
          heard == c.handshake_done /\ f.plen <= MaxFrame
      IN /\ e.out.pongs = IF heard /\ f.op = "ping" THEN Append(c.out.pongs, id) ELSE c.out.pongs
         /\ e.out.acks = IF heard /\ f.op = "pong" THEN Append(c.out.acks, id) ELSE c.out.acks
  <1> SUFFICES ASSUME NEW c, NEW f \in Header, NEW id \in Nat, CoreOK(c)
               PROVE  LET e == Effect(c, f, id)
                          heard == c.handshake_done /\ f.plen <= MaxFrame
                      IN /\ e.out.pongs = IF heard /\ f.op = "ping" THEN Append(c.out.pongs, id) ELSE c.out.pongs
                         /\ e.out.acks = IF heard /\ f.op = "pong" THEN Append(c.out.acks, id) ELSE c.out.acks
    OBVIOUS
  <1> DEFINE e == Effect(c, f, id)
             heard == c.handshake_done /\ f.plen <= MaxFrame
             m == Joined(c.fragment, f, id)
             d == [c EXCEPT !.fragment = NoFragment]
             Same(x) == x.out.pongs = c.out.pongs /\ x.out.acks = c.out.acks
  <1>0. c \in Cores /\ c.fragment \in Fragments /\ c.out \in Outs
    BY DEF CoreOK, Cores
  <1>1. \A x \in Cores : \A how : Fails(x, how).out.pongs = x.out.pongs /\ Fails(x, how).out.acks = x.out.acks
    BY DEF Fails, Ends, Cores, Outs
  <1>2. CASE ~c.handshake_done
    <2>1. e = Fails(c, "rejected") \/ e = [c EXCEPT !.handshake_done = TRUE]
      BY <1>2 DEF Effect, Answered
    <2>2. [c EXCEPT !.handshake_done = TRUE].out = c.out
      BY <1>0 DEF Cores
    <2>3. Same(e)
      <3>1. Same(Fails(c, "rejected"))
        BY <1>0, <1>1
      <3>2. Same([c EXCEPT !.handshake_done = TRUE])
        BY <2>2
      <3> HIDE DEF Same
      <3> QED BY ONLY Zenon, <2>1, <3>1, <3>2
    <2> QED BY <1>2, <2>3
  <1>3. CASE c.handshake_done /\ Refusal(c, f) # "none"
    <2>1. e = Fails(c, Refusal(c, f))
      BY <1>3 DEF Effect
    <2>2. Same(e)
      BY <1>0, <1>1, <2>1
    <2>3. f.op \in {"ping", "pong"} => f.plen > MaxFrame
      BY <1>3 DEF Refusal
    <2>4. f.plen > MaxFrame => ~(f.plen <= MaxFrame)
      BY FormatAssumption DEF Header
    <2> QED BY <2>2, <2>3, <2>4
  <1>4. CASE c.handshake_done /\ Refusal(c, f) = "none" /\ f.op \notin {"data", "continuation"}
    <2>1. e = [c EXCEPT !.out = Visit(@, f, id)]
      BY <1>4 DEF Effect, NextEvent
    <2>2. e.out = Visit(c.out, f, id)
      BY <1>0, <2>1 DEF Cores
    <2>3. ~(f.plen > MaxFrame)
      BY <1>4 DEF Refusal
    <2>4. heard
      BY <1>4, <2>3, FormatAssumption DEF Header
    <2>5. /\ Visit(c.out, f, id).pongs = IF f.op = "ping" THEN Append(c.out.pongs, id) ELSE c.out.pongs
          /\ Visit(c.out, f, id).acks = IF f.op = "pong" THEN Append(c.out.acks, id) ELSE c.out.acks
      BY <1>0, <1>4, VisitControls
    <2> QED BY <2>2, <2>4, <2>5
  <1>5. CASE c.handshake_done /\ Refusal(c, f) = "none" /\ f.op \in {"data", "continuation"}
    <2>1. d \in Cores /\ d.out = c.out
      BY <1>0, NoFragmentOK DEF Cores
    <2>2. e = Delivers(d, m) \/ e = [c EXCEPT !.fragment = m]
      BY <1>5 DEF Effect, NextEvent
    <2> HIDE DEF d, m
    <2>3. Same(Delivers(d, m))
      <3>1. \/ Delivers(d, m) = Fails(d, "1002") \/ Delivers(d, m) = Fails(d, "1009")
            \/ Delivers(d, m) = [d EXCEPT !.out = Message(@, m.ids)]
        BY DEF Delivers
      <3>2. [d EXCEPT !.out = Message(@, m.ids)].out = Message(c.out, m.ids)
        BY <2>1 DEF Cores
      <3>3. Message(c.out, m.ids).pongs = c.out.pongs /\ Message(c.out, m.ids).acks = c.out.acks
        BY <1>0 DEF Message, Outs
      <3>4. Same(Fails(d, "1002")) /\ Same(Fails(d, "1009"))
        BY <1>1, <2>1
      <3>5. Same([d EXCEPT !.out = Message(@, m.ids)])
        BY <3>2, <3>3
      <3> HIDE DEF Same
      <3> QED BY <3>1, <3>4, <3>5
    <2>4. [c EXCEPT !.fragment = m].out = c.out
      BY <1>0 DEF Cores
    <2>5. Same(e)
      BY Zenon, <2>2, <2>3, <2>4
    <2> QED BY <1>5, <2>5
  <1> QED BY <1>2, <1>3, <1>4, <1>5

(* A frame of another kind adds no event of this one.                       *)
LEMMA AllOfLater == ASSUME NEW s, NEW op, NEW n \in Nat, NEW q \in Seq(Nat), AllOf(s, n, op, q),
                           n > 0 => ~Counts(s, op, n + 1)
                    PROVE  AllOf(s, n + 1, op, q)
  <1>1. \A k \in 2..n : k \in 2..(n + 1)
    OBVIOUS
  <1>2. ASSUME NEW k \in 2..(n + 1), Counts(s, op, k) PROVE \E i \in 1..Len(q) : q[i] = k
    <2>1. CASE k = n + 1
      BY <1>2, <2>1
    <2>2. CASE k # n + 1
      <3>1. k \in 2..n
        BY <2>2
      <3> QED BY <1>2, <3>1 DEF AllOf
    <2> QED BY <2>1, <2>2
  <1> QED BY <1>1, <1>2 DEF AllOf

(* A frame of this kind is the last of them.                                *)
LEMMA AllOfNew == ASSUME NEW s, NEW op, NEW n \in Nat, n > 0, NEW q \in Seq(Nat), AllOf(s, n, op, q),
                         Counts(s, op, n + 1)
                  PROVE  AllOf(s, n + 1, op, Append(q, n + 1))
  <1> DEFINE a == Append(q, n + 1)
             l == Len(q)
  <1>1. Len(a) = l + 1 /\ a[l + 1] = n + 1 /\ l \in Nat
    OBVIOUS
  <1>2. \A i \in 1..l : a[i] = q[i]
    OBVIOUS
  <1>3. \A i \in 1..l : q[i] \in 2..n /\ Counts(s, op, q[i])
    BY DEF AllOf
  <1> HIDE DEF a, l
  <1>4. ASSUME NEW i \in 1..(l + 1) PROVE a[i] \in 2..(n + 1) /\ Counts(s, op, a[i])
    <2>1. CASE i \in 1..l
      <3>1. a[i] = q[i] /\ q[i] \in 2..n /\ Counts(s, op, q[i])
        BY <1>2, <1>3, <2>1
      <3>2. q[i] \in 2..(n + 1)
        BY <3>1
      <3> QED BY <3>1, <3>2
    <2>2. CASE i = l + 1
      <3>1. n + 1 \in 2..(n + 1)
        OBVIOUS
      <3> QED BY <1>1, <2>2, <3>1
    <2> QED BY <1>1, <2>1, <2>2
  <1>5. ASSUME NEW i \in 1..(l + 1), NEW j \in 1..(l + 1), i < j PROVE a[i] < a[j]
    <2>1. i \in 1..l /\ a[i] = q[i]
      BY <1>1, <1>2, <1>5
    <2>2. CASE j = l + 1
      <3>1. q[i] \in 2..n /\ a[j] = n + 1
        BY <1>1, <1>3, <2>1, <2>2
      <3> QED BY <2>1, <3>1
    <2>3. CASE j \in 1..l
      <3>1. q[i] < q[j]
        BY <1>5, <2>1, <2>3 DEF AllOf, l
      <3> QED BY <1>2, <2>1, <2>3, <3>1
    <2> QED BY <1>1, <2>2, <2>3
  <1>6. ASSUME NEW k \in 2..(n + 1), Counts(s, op, k) PROVE \E i \in 1..(l + 1) : a[i] = k
    <2>1. CASE k = n + 1
      <3>1. l + 1 \in 1..(l + 1) /\ a[l + 1] = k
        BY <1>1, <2>1
      <3> QED BY <3>1
    <2>2. CASE k # n + 1
      <3>1. k \in 2..n
        BY <2>2
      <3>2. PICK i \in 1..l : q[i] = k
        BY <1>6, <3>1 DEF AllOf, l
      <3>3. i \in 1..(l + 1) /\ a[i] = q[i]
        BY <1>1, <1>2
      <3> QED BY <3>2, <3>3
    <2> QED BY <2>1, <2>2
  <1> QED BY Zenon, <1>1, <1>4, <1>5, <1>6 DEF AllOf, a

(* What the peer sends later changes none of them.                          *)
LEMMA AllOfSent == ASSUME NEW s \in Seq(DOMAIN Format), NEW kind, NEW op, NEW n \in Nat, n <= Len(s),
                          NEW q \in Seq(Nat), AllOf(s, n, op, q)
                   PROVE  AllOf(Append(s, kind), n, op, q)
  <1>1. ASSUME NEW k \in 2..n PROVE Counts(Append(s, kind), op, k) <=> Counts(s, op, k)
    <2>1. k \in 1..Len(s)
      OBVIOUS
    <2>2. Append(s, kind)[k] = s[k]
      BY <2>1, SentLater
    <2> QED BY <2>2 DEF Counts
  <1> QED BY <1>1 DEF AllOf

(* Each frame applied is answered or acknowledged if it asks for it.        *)
LEMMA TakeControls == ASSUME ControlsAsSent, stream' = stream, taken \in Nat, taken' = taken + 1,
                             CoreOK(core), NEW f \in Header, f = Format[stream[taken + 1]],
                             NEW id, id = taken + 1, core' = Effect(core, f, id),
                             taken = 0 <=> ~core.handshake_done
                      PROVE  ControlsAsSent'
  <1> DEFINE heard == core.handshake_done /\ f.plen <= MaxFrame
  <1>1. /\ core'.out.pongs = IF heard /\ f.op = "ping" THEN Append(core.out.pongs, taken + 1) ELSE core.out.pongs
        /\ core'.out.acks = IF heard /\ f.op = "pong" THEN Append(core.out.acks, taken + 1) ELSE core.out.acks
    <2>1. id \in Nat
      OBVIOUS
    <2> QED BY <2>1, EffectControls
  <1>2. core.out.pongs \in Seq(Nat) /\ core.out.acks \in Seq(Nat)
    BY DEF CoreOK, Cores, Outs
  <1>3. taken > 0 <=> core.handshake_done
    OBVIOUS
  <1>4. \A op : Counts(stream, op, taken + 1) <=> f.op = op /\ f.plen <= MaxFrame
    BY DEF Counts
  <1>5. AllOf(stream, taken, "ping", core.out.pongs) /\ AllOf(stream, taken, "pong", core.out.acks)
    BY DEF ControlsAsSent
  <1> HIDE DEF heard
  <1>6. AllOf(stream, taken + 1, "ping", core'.out.pongs)
    <2>1. CASE heard /\ f.op = "ping"
      <3>1. Counts(stream, "ping", taken + 1) /\ taken > 0
        BY <1>3, <1>4, <2>1 DEF heard
      <3> QED BY Zenon, <1>1, <1>2, <1>5, <2>1, <3>1, AllOfNew
    <2>2. CASE ~(heard /\ f.op = "ping")
      <3>1. taken > 0 => ~Counts(stream, "ping", taken + 1)
        BY <1>3, <1>4, <2>2 DEF heard
      <3> QED BY <1>1, <1>2, <1>5, <2>2, <3>1, AllOfLater
    <2> QED BY <2>1, <2>2
  <1>7. AllOf(stream, taken + 1, "pong", core'.out.acks)
    <2>1. CASE heard /\ f.op = "pong"
      <3>1. Counts(stream, "pong", taken + 1) /\ taken > 0
        BY <1>3, <1>4, <2>1 DEF heard
      <3> QED BY Zenon, <1>1, <1>2, <1>5, <2>1, <3>1, AllOfNew
    <2>2. CASE ~(heard /\ f.op = "pong")
      <3>1. taken > 0 => ~Counts(stream, "pong", taken + 1)
        BY <1>3, <1>4, <2>2 DEF heard
      <3> QED BY <1>1, <1>2, <1>5, <2>2, <3>1, AllOfLater
    <2> QED BY <2>1, <2>2
  <1> QED BY <1>6, <1>7 DEF ControlsAsSent

-----------------------------------------------------------------------------
(* The inductive invariant of FrameEvents.                                  *)

Open == core.out.end = "open"

EInv ==
  /\ stream \in Seq(DOMAIN Format) /\ taken \in Nat /\ taken <= Len(stream) /\ CoreOK(core)
  /\ Open => (core.handshake_done <=> taken > 0)
  /\ Delivered(stream, taken, Open, core.out.messages)
  /\ Open => Assembling(stream, taken, core.fragment.ids, core.out.messages)
  /\ ControlsAsSent

(* Each frame applied delivers the message it completes, or none.           *)
LEMMA TakeMessages == ASSUME EInv, Take PROVE EInv'
  <1> DEFINE id == taken + 1
             f == F(id)
             ms == core.out.messages
             ids == core.fragment.ids
  <1>1. /\ taken < Len(stream) /\ Open /\ core' = Effect(core, f, id) /\ taken' = taken + 1
        /\ stream' = stream
    BY DEF Take, Open
  <1>2. /\ taken \in Nat /\ id \in Nat /\ Len(stream) \in Nat /\ id \in 1..Len(stream) /\ stream \in Seq(DOMAIN Format)
    BY <1>1 DEF EInv
  <1>3. f \in Header
    BY <1>2, FormatAssumption DEF F
  <1>4. CoreOK(core) /\ core.out.end = "open"
    BY <1>1 DEF EInv, Open
  <1>5. CoreOK(core') /\ (Open' \/ core.handshake_done => core'.handshake_done)
    BY <1>1, <1>2, <1>3, <1>4, EffectOK DEF Open
  <1>6. ms \in Seq(Seq(Nat)) /\ ids \in Seq(Nat) /\ Open' \in BOOLEAN
    BY <1>4 DEF CoreOK, Cores, Outs, Fragments, Open
  <1>7. Delivered(stream, taken, TRUE, ms) /\ Assembling(stream, taken, ids, ms)
    BY <1>1 DEF EInv, Delivered
  <1>8. Format[stream[taken + 1]] = f
    BY DEF F
  <1>9. Final(stream, taken + 1) <=> f.op \in {"data", "continuation"} /\ f.fin
    BY <1>8 DEF Final, Part
  <1>10. Part(stream, taken + 1) <=> f.op \in {"data", "continuation"}
    BY <1>8 DEF Part
  <1> HIDE DEF id, f, ms, ids
  <1>11. /\ Delivered(stream, taken + 1, Open', core'.out.messages)
         /\ Open' => Assembling(stream, taken + 1, core'.fragment.ids, core'.out.messages)
    <2>1. CASE ~core.handshake_done
      <3>1. core'.out.messages = ms /\ core'.fragment = core.fragment
        BY <1>1, <1>4, <2>1 DEF Effect, Answered, Fails, Ends, CoreOK, Cores, Outs, ms
      <3>2. taken = 0
        BY <1>1, <1>2, <2>1 DEF EInv
      <3>3. ids = <<>> \/ ids # <<>>
        OBVIOUS
      <3>4. ids # <<>> => FALSE
        <4> SUFFICES ASSUME ids # <<>> PROVE FALSE
          OBVIOUS
        <4>1. Gathered(stream, taken, ids)
          BY <1>7 DEF Assembling
        <4>2. Last(ids) \in 2..taken
          BY <1>2, <1>6, <4>1, LastTaken
        <4> QED BY <3>2, <4>2
      <3>5. \A k \in 2..(taken + 1) : FALSE
        BY <3>2
      <3>6. \A i \in 1..Len(ms) : Gathered(stream, taken + 1, ms[i])
        BY <1>2, <1>7, GatheredLater DEF Delivered
      <3>7. Delivered(stream, taken + 1, Open', ms)
        BY <1>7, <3>5, <3>6 DEF Delivered
      <3>8. core'.fragment.ids = <<>>
        BY <3>1, <3>4 DEF ids
      <3> QED BY <3>1, <3>7, <3>8 DEF Assembling
    <2>2. CASE core.handshake_done /\ Ended(core, core')
      <3>1. ~Open' /\ core'.out.messages = ms
        BY <2>2 DEF Ended, Open, ms
      <3>2. Delivered(stream, taken + 1, Open', ms)
        BY Zenon, <1>2, <1>6, <1>7, <3>1, DeliveredLater
      <3> QED BY <3>1, <3>2
    <2>3. CASE core.handshake_done /\ Passed(core, core', f)
      <3>1. core'.out.messages = ms /\ core'.fragment.ids = ids /\ ~Part(stream, taken + 1) /\ ~Final(stream, taken + 1)
        BY <1>9, <1>10, <2>3 DEF Passed, ms, ids
      <3>2. Delivered(stream, taken + 1, Open', ms)
        BY Zenon, <1>2, <1>6, <1>7, <3>1, DeliveredLater
      <3>3. Assembling(stream, taken + 1, ids, ms)
        <4> SUFFICES ASSUME ids # <<>>
                     PROVE  /\ Gathered(stream, taken + 1, ids)
                            /\ \A k \in (Last(ids) + 1)..(taken + 1) : ~Part(stream, k)
          BY <1>7 DEF Assembling
        <4>1. Gathered(stream, taken, ids) /\ \A k \in (Last(ids) + 1)..taken : ~Part(stream, k)
          BY <1>7 DEF Assembling
        <4>2. Last(ids) \in 2..taken
          BY <1>2, <1>6, <4>1, LastTaken
        <4>3. \A k \in (Last(ids) + 1)..(taken + 1) : k = taken + 1 \/ k \in (Last(ids) + 1)..taken
          BY <1>2, <4>2
        <4> QED BY <1>2, <3>1, <4>1, <4>3, GatheredLater
      <3> QED BY <3>1, <3>2, <3>3
    <2>4. ASSUME core.handshake_done, Fits(core, f)
          PROVE  /\ Gathered(stream, taken + 1, Append(ids, id)) /\ Last(Append(ids, id)) = taken + 1
                 /\ Append(ids, id) \in Seq(Nat)
                 /\ \A i \in 1..Len(ms) : Last(ms[i]) < Append(ids, id)[1]
      <3>1. taken > 0
        BY <1>1, <2>4 DEF EInv
      <3>2. Format[stream[taken + 1]].op = IF ids = <<>> THEN "data" ELSE "continuation"
        BY <1>8, <2>4 DEF Fits, ids
      <3>3. ids # <<>> => /\ Gathered(stream, taken, ids) /\ ~Final(stream, Last(ids))
                          /\ \A k \in (Last(ids) + 1)..taken : ~Part(stream, k)
        BY <1>7 DEF Assembling
      <3>4. /\ Gathered(stream, taken + 1, Append(ids, taken + 1)) /\ Last(Append(ids, taken + 1)) = taken + 1
            /\ Append(ids, taken + 1)[1] = IF ids = <<>> THEN taken + 1 ELSE ids[1]
        BY Zenon, <1>2, <1>6, <3>1, <3>2, <3>3, GatheredMore
      <3>5. Append(ids, id) \in Seq(Nat)
        BY <1>2, <1>6
      <3>6. ASSUME NEW i \in 1..Len(ms) PROVE Last(ms[i]) < Append(ids, taken + 1)[1]
        <4>1. CASE ids # <<>>
          BY <1>7, <3>4, <4>1 DEF Assembling
        <4>2. CASE ids = <<>>
          <5>1. Gathered(stream, taken, ms[i]) /\ ms[i] \in Seq(Nat)
            BY <1>6, <1>7 DEF Delivered
          <5>2. Last(ms[i]) \in 2..taken
            BY <1>2, <5>1, LastTaken
          <5> QED BY <1>2, <3>4, <4>2, <5>2
        <4> QED BY <4>1, <4>2
      <3> QED BY <3>4, <3>5, <3>6 DEF id
    <2>5. CASE core.handshake_done /\ Finished(core, core', f, id)
      <3>1. /\ core'.out.messages = Append(ms, Append(ids, id)) /\ core'.fragment.ids = <<>>
            /\ f.fin /\ Fits(core, f)
        BY <2>5 DEF Finished, ms, ids
      <3>2. Final(stream, taken + 1)
        BY <1>9, <3>1 DEF Fits
      <3> DEFINE m == Append(ids, id)
      <3>3. /\ Gathered(stream, taken + 1, m) /\ Last(m) = taken + 1 /\ m \in Seq(Nat)
            /\ \A i \in 1..Len(ms) : Last(ms[i]) < m[1]
        BY <2>4, <2>5, <3>1
      <3> HIDE DEF m
      <3>4. Delivered(stream, taken + 1, Open', Append(ms, m))
        BY Zenon, <1>2, <1>6, <1>7, <3>2, <3>3, DeliveredNew
      <3> QED BY <3>1, <3>4 DEF Assembling, m
    <2>6. CASE core.handshake_done /\ Grown(core, core', f, id)
      <3>1. core'.out.messages = ms /\ core'.fragment.ids = Append(ids, id) /\ ~f.fin /\ Fits(core, f)
        BY <2>6 DEF Grown, ms, ids
      <3>2. ~Final(stream, taken + 1)
        BY <1>9, <3>1
      <3>3. Delivered(stream, taken + 1, Open', ms)
        BY Zenon, <1>2, <1>6, <1>7, <3>2, DeliveredLater
      <3>4. /\ Gathered(stream, taken + 1, Append(ids, id)) /\ Last(Append(ids, id)) = taken + 1
            /\ \A i \in 1..Len(ms) : Last(ms[i]) < Append(ids, id)[1]
        BY <2>4, <2>6, <3>1
      <3>5. \A k \in (taken + 1 + 1)..(taken + 1) : FALSE
        BY <1>2
      <3>6. Assembling(stream, taken + 1, Append(ids, id), ms)
        BY <3>2, <3>4, <3>5 DEF Assembling
      <3> QED BY <3>1, <3>3, <3>6
    <2>7. core.handshake_done =>
            Ended(core, core') \/ Passed(core, core', f) \/ Finished(core, core', f, id) \/ Grown(core, core', f, id)
      BY <1>1, <1>2, <1>3, <1>4, EffectCases
    <2> QED BY <2>1, <2>2, <2>3, <2>5, <2>6, <2>7
  <1>12. Open' => (core'.handshake_done <=> taken' > 0)
    BY <1>1, <1>2, <1>5
  <1>13. taken' \in Nat /\ taken' <= Len(stream')
    BY <1>1, <1>2
  <1>14. ControlsAsSent'
    <2>1. ControlsAsSent /\ (taken = 0 <=> ~core.handshake_done)
      BY <1>1, <1>2 DEF EInv
    <2> QED BY <1>1, <1>2, <1>3, <1>4, <1>8, <2>1, TakeControls DEF id
  <1> QED BY <1>1, <1>2, <1>5, <1>11, <1>12, <1>13, <1>14 DEF EInv

(* What the peer sends later changes no event.                              *)
LEMMA PeerMessages == ASSUME EInv, NEW kind \in DOMAIN Format, PeerSends(kind) PROVE EInv'
  <1>1. stream' = Append(stream, kind) /\ UNCHANGED <<compression, taken, core>>
    BY DEF PeerSends
  <1>2. /\ stream \in Seq(DOMAIN Format) /\ taken \in Nat /\ taken <= Len(stream) /\ CoreOK(core)
        /\ Delivered(stream, taken, Open, core.out.messages)
    BY DEF EInv
  <1>3. core.out.messages \in Seq(Seq(Nat)) /\ core.fragment.ids \in Seq(Nat)
    BY <1>2 DEF CoreOK, Cores, Outs, Fragments
  <1>4. stream' \in Seq(DOMAIN Format) /\ taken <= Len(stream')
    BY <1>1, <1>2
  <1>5. Delivered(stream', taken, Open, core.out.messages)
    BY <1>1, <1>2, <1>3, DeliveredSent
  <1>6. Open => Assembling(stream', taken, core.fragment.ids, core.out.messages)
    BY <1>1, <1>2, <1>3, AssemblingSent DEF EInv
  <1>7. ControlsAsSent'
    <2>1. core.out.pongs \in Seq(Nat) /\ core.out.acks \in Seq(Nat)
      BY <1>2 DEF CoreOK, Cores, Outs
    <2> QED BY <1>1, <1>2, <2>1, AllOfSent DEF EInv, ControlsAsSent
  <1> QED BY <1>1, <1>2, <1>4, <1>5, <1>6, <1>7 DEF EInv, Open

(* Before the first frame nothing is delivered.                             *)
LEMMA InitMessages == EventsInit => EInv
  <1> SUFFICES ASSUME EventsInit PROVE EInv
    OBVIOUS
  <1>1. /\ stream = <<>> /\ taken = 0 /\ Open /\ ~core.handshake_done
        /\ core.out.messages = <<>> /\ core.fragment = NoFragment
        /\ core.out.pongs = <<>> /\ core.out.acks = <<>>
    BY DEF EventsInit, Open
  <1>2. <<>> \in Seq(DOMAIN Format) /\ Len(<<>>) = 0
    OBVIOUS
  <1>3. CoreOK(core)
    BY InitCore
  <1>4. Delivered(<<>>, 0, Open, <<>>)
    BY <1>2 DEF Delivered
  <1>5. Assembling(<<>>, 0, NoFragment.ids, <<>>)
    BY NoFragmentOK DEF Assembling
  <1>6. 0 \in Nat /\ 0 <= Len(<<>>) /\ ~(0 > 0)
    OBVIOUS
  <1>7. AllOf(<<>>, 0, "ping", <<>>) /\ AllOf(<<>>, 0, "pong", <<>>)
    BY <1>2 DEF AllOf
  <1>8. ControlsAsSent
    BY <1>1, <1>7 DEF ControlsAsSent
  <1> QED BY Zenon, <1>1, <1>2, <1>3, <1>4, <1>5, <1>6, <1>8 DEF EInv

(* Applied frame by frame, the stream gives exactly the messages and the    *)
(* answers that the peer's frames call for.                                 *)
THEOREM EventsDeliver == EventsSpec => [](MessagesAsSent /\ ControlsAsSent)
  <1>1. ASSUME EInv, [EventsNext]_eventVars PROVE EInv'
    <2>1. CASE UNCHANGED eventVars
      BY <1>1, <2>1 DEF EInv, eventVars, Open, ControlsAsSent
    <2> QED BY <1>1, <2>1, TakeMessages, PeerMessages DEF EventsNext
  <1>2. EInv => MessagesAsSent /\ ControlsAsSent
    BY DEF EInv, MessagesAsSent, Delivered, Open
  <1> QED BY <1>1, <1>2, InitMessages, PTL DEF EventsSpec

-----------------------------------------------------------------------------
(* The inductive invariant of FrameStream.                                  *)

Offsets ==
  /\ stream \in Seq(DOMAIN Format) /\ start \in Seq(Nat) /\ Len(start) = Len(stream) + 1
  /\ \A k \in 1..Len(stream) : start[k + 1] = start[k] + Total(F(k))
  /\ \A j, k \in 1..Len(start) : j < k => start[j] < start[k]
  /\ received \in Nat /\ received <= start[Len(stream) + 1]

Types ==
  /\ taken \in Nat /\ taken <= Len(stream)
  /\ buf \in Seq(Nat) /\ recv_buf \in Seq(Nat) /\ next_frame_needed \in Nat
  /\ scan \in [at : {"idle", "walk", "drain"}, data : Seq(Nat), owner : {"none", "recv_buf"}]
  /\ buffered \in BOOLEAN /\ compression \in BOOLEAN

(* Where bytes may be: one of scan.data, recv_buf and buf.                  *)
Places ==
  /\ scan.at = "walk" => buf = <<>> /\ recv_buf = <<>> /\ core.fragment.ids = <<>> /\ core.handshake_done /\ Open
  /\ scan.at # "walk" => scan.data = <<>> /\ scan.owner = "none"
  /\ scan.at = "drain" => recv_buf = <<>> /\ (Open \/ core.handshake_done)
  /\ recv_buf # <<>> => buf = <<>> /\ core.fragment.ids = <<>> /\ core.handshake_done
  /\ ~buffered => recv_buf = <<>> /\ scan.owner = "none"
  /\ Open => (core.handshake_done <=> taken > 0)

(* p is the bytes from a to r.                                              *)
AtPos(p, a, r) == Run(p, a) /\ a + Len(p) = r
At(p) == AtPos(p, start[taken + 1], received)

(* What has been read and not parsed starts with the next frame.            *)
Position ==
  Open => /\ scan.at = "walk" => At(scan.data)
          /\ scan.at # "walk" /\ recv_buf = <<>> => At(buf)
          /\ recv_buf # <<>> => At(recv_buf)

Waits == scan.at = "idle" /\ Open => taken = Len(stream) \/ ~Arrived(taken + 1)

Hint ==
  next_frame_needed # NoNeed =>
    /\ scan.at = "idle" /\ recv_buf # <<>> /\ taken < Len(stream)
    /\ next_frame_needed = Total(F(taken + 1)) /\ F(taken + 1).plen <= MaxFrame

FInv == Offsets /\ Types /\ CoreOK(core) /\ Places /\ Position /\ Waits /\ Hint

(* Every frame sent has a format.                                           *)
LEMMA FrameType == \A k \in 1..Len(stream) : Offsets =>
    F(k) \in Header /\ F(k).hdr \in Nat \ {0} /\ F(k).plen \in Nat /\ start[k] \in Nat
    /\ Total(F(k)) \in Nat /\ F(k).hdr <= Total(F(k))
  <1> SUFFICES ASSUME NEW k \in 1..Len(stream), Offsets
               PROVE  F(k) \in Header /\ F(k).hdr \in Nat \ {0} /\ F(k).plen \in Nat /\ start[k] \in Nat
                      /\ Total(F(k)) \in Nat /\ F(k).hdr <= Total(F(k))
    OBVIOUS
  <1>1. stream[k] \in DOMAIN Format /\ start[k] \in Nat
    BY DEF Offsets
  <1>2. F(k) \in Header
    BY <1>1, FormatAssumption DEF F
  <1>3. F(k).hdr \in Nat \ {0} /\ F(k).plen \in Nat
    BY <1>2 DEF Header
  <1> QED BY <1>1, <1>2, <1>3 DEF Total

(* The header at the front of the unparsed bytes is that of the next frame: *)
(* neither parser ever reads one in the middle of a frame (parse_header()). *)
LEMMA Front == \A p :
    Offsets /\ Types /\ At(p) /\ p # <<>> =>
      /\ taken + 1 \in 1..Len(stream)
      /\ parse_header(p) = F(taken + 1) /\ FrameAt(p) = taken + 1
  <1> SUFFICES ASSUME NEW p, Offsets, Types, At(p), p # <<>>
               PROVE  /\ taken + 1 \in 1..Len(stream)
                      /\ parse_header(p) = F(taken + 1) /\ FrameAt(p) = taken + 1
    OBVIOUS
  <1> DEFINE a == start[taken + 1]
  <1>1. taken \in Nat /\ taken <= Len(stream) /\ Len(stream) \in Nat /\ received \in Nat /\ p \in Seq(Nat)
    BY DEF Types, Offsets, At, AtPos, Run
  <1>2. a \in Nat /\ start \in Seq(Nat) /\ Len(start) = Len(stream) + 1 /\ received <= start[Len(stream) + 1]
    BY <1>1 DEF Offsets
  <1>3. Len(p) \in Nat \ {0}
    BY <1>1
  <1>4. p[1] = a + 1 /\ a + Len(p) = received
    BY <1>3 DEF At, AtPos, Run
  <1>5. taken + 1 \in 1..Len(stream)
    <2>1. taken # Len(stream)
      <3>1. taken = Len(stream) => received <= a
        BY <1>2
      <3> HIDE DEF a
      <3> QED BY ONLY <1>1, <1>2, <1>3, <1>4, <3>1
    <2> QED BY <1>1, <2>1
  <1>6. \A k \in 1..Len(stream) : k # taken + 1 => start[k] # a
    <2> SUFFICES ASSUME NEW k \in 1..Len(stream), k # taken + 1 PROVE start[k] # a
      OBVIOUS
    <2>1. k \in 1..Len(start) /\ taken + 1 \in 1..Len(start)
      BY <1>1, <1>2, <1>5
    <2>2. start[k] \in Nat
      BY <2>1, <1>2
    <2>3. k < taken + 1 => start[k] < a
      BY <2>1 DEF Offsets
    <2>4. taken + 1 < k => a < start[k]
      BY <2>1 DEF Offsets
    <2> QED BY <2>2, <2>3, <2>4, <1>1, <1>2
  <1>7. StartsAt(p[1]) = {taken + 1}
    <2>1. \A k \in 1..Len(stream) : start[k] \in Nat
      BY <1>1, <1>2
    <2>2. \A k \in 1..Len(stream) : start[k] + 1 = p[1] <=> k = taken + 1
      <3> SUFFICES ASSUME NEW k \in 1..Len(stream)
                   PROVE  start[k] + 1 = p[1] <=> k = taken + 1
        OBVIOUS
      <3>1. start[k] \in Nat /\ p[1] = a + 1 /\ a \in Nat
        BY <2>1, <1>2, <1>4
      <3>2. CASE k = taken + 1
        BY <3>1, <3>2
      <3>3. CASE k # taken + 1
        <4>1. start[k] # a
          BY <3>3, <1>6
        <4> HIDE DEF a
        <4> QED BY <3>1, <3>3, <4>1
      <3> QED BY <3>2, <3>3
    <2> QED BY <2>2, <1>5 DEF StartsAt
  <1>8. FrameAt(p) = taken + 1
    BY <1>7 DEF FrameAt
  <1> QED BY <1>5, <1>7, <1>8 DEF parse_header

(* After a whole frame the next one is at the front (off += total,          *)
(* buf.advance()).                                                          *)
LEMMA AfterFrame == \A p :
    Offsets /\ Types /\ At(p) /\ p # <<>> /\ Complete(p) =>
      Rest(p) \in Seq(Nat) /\ AtPos(Rest(p), start[taken + 1 + 1], received)
  <1> SUFFICES ASSUME NEW p, Offsets, Types, At(p), p # <<>>, Complete(p)
               PROVE  Rest(p) \in Seq(Nat) /\ AtPos(Rest(p), start[taken + 1 + 1], received)
    OBVIOUS
  <1>1. taken + 1 \in 1..Len(stream) /\ parse_header(p) = F(taken + 1)
    BY Front
  <1> DEFINE t == Total(F(taken + 1))
             a == start[taken + 1]
  <1>2. t \in Nat /\ a \in Nat
    BY <1>1, FrameType
  <1>3. start[taken + 1 + 1] = a + t
    BY <1>1 DEF Offsets
  <1>4. Run(p, a) /\ a + Len(p) = received /\ t <= Len(p) /\ Len(p) \in Nat
    BY <1>1 DEF At, AtPos, Complete, Run
  <1>5. Rest(p) = SubSeq(p, t + 1, Len(p))
    BY <1>1 DEF Rest
  <1> HIDE DEF t, a
  <1>6. Run(Rest(p), a + t) /\ Len(Rest(p)) = Len(p) - t
    BY <1>2, <1>4, <1>5, RunRest
  <1>7. Rest(p) \in Seq(Nat)
    BY <1>6 DEF Run
  <1>8. (a + t) + Len(Rest(p)) = received
    BY <1>2, <1>4, <1>6
  <1> QED BY <1>3, <1>6, <1>7, <1>8 DEF AtPos

(* An unparsed front that is no whole frame has not arrived.                *)
LEMMA NotArrived == \A p :
    /\ Offsets /\ Types /\ At(p)
    /\ p # <<>> => \/ Len(p) < parse_header(p).hdr
                   \/ ~Complete(p) /\ (taken = 0 \/ parse_header(p).plen <= MaxFrame)
    => taken = Len(stream) \/ ~Arrived(taken + 1)
  <1> SUFFICES ASSUME NEW p, Offsets, Types, At(p), taken # Len(stream),
                      p # <<>> => \/ Len(p) < parse_header(p).hdr
                                  \/ ~Complete(p) /\ (taken = 0 \/ parse_header(p).plen <= MaxFrame)
               PROVE  ~Arrived(taken + 1)
    OBVIOUS
  <1> DEFINE f == F(taken + 1)
             a == start[taken + 1]
  <1>1. taken \in Nat /\ Len(stream) \in Nat /\ taken + 1 \in 1..Len(stream)
    BY DEF Offsets, Types
  <1>2. f.hdr \in Nat \ {0} /\ f.plen \in Nat /\ a \in Nat /\ Total(f) \in Nat /\ f.hdr <= Total(f)
    BY <1>1, FrameType
  <1>3. a + Len(p) = received /\ Len(p) \in Nat /\ received \in Nat /\ p \in Seq(Nat)
    BY DEF At, AtPos, Run, Offsets
  <1>4. p # <<>> => Len(p) < f.hdr \/ (Len(p) < Total(f) /\ (taken = 0 \/ f.plen <= MaxFrame))
    <2> SUFFICES ASSUME p # <<>>
                 PROVE  Len(p) < f.hdr \/ (Len(p) < Total(f) /\ (taken = 0 \/ f.plen <= MaxFrame))
      OBVIOUS
    <2>1. parse_header(p) = f
      BY Front
    <2>2. ~Complete(p) => Len(p) < Total(f)
      BY <2>1, <1>2, <1>3 DEF Complete
    <2> QED BY <2>1, <2>2
  <1>5. p = <<>> => Len(p) = 0
    OBVIOUS
  <1>6. MaxFrame \in Nat
    BY FormatAssumption
  <1> HIDE DEF f
  <1>7. a + Len(p) < a + IF f.plen > MaxFrame /\ taken + 1 > 1 THEN f.hdr ELSE Total(f)
    BY <1>1, <1>2, <1>3, <1>4, <1>5, <1>6
  <1> QED BY <1>2, <1>3, <1>7, <1>1, <1>6 DEF Arrived, f

-----------------------------------------------------------------------------
(* Every step keeps the invariant and is a step of FrameEvents.             *)

(* A step that applies the next frame keeps the parser's state sound.       *)
LEMMA TakeOK ==
    FInv /\ Open /\ taken + 1 \in 1..Len(stream) /\ core' = Effect(core, F(taken + 1), taken + 1) =>
      CoreOK(core') /\ (Open' \/ core.handshake_done => core'.handshake_done)
  <1> SUFFICES ASSUME FInv, Open, taken + 1 \in 1..Len(stream),
                      core' = Effect(core, F(taken + 1), taken + 1)
               PROVE  CoreOK(core') /\ (core'.out.end = "open" \/ core.handshake_done => core'.handshake_done)
    BY DEF Open
  <1>1. F(taken + 1) \in Header /\ taken + 1 \in Nat
    BY FrameType DEF FInv
  <1>2. CoreOK(core) /\ core.out.end = "open"
    BY DEF FInv, Open
  <1> QED BY <1>1, <1>2, EffectOK

(* The read and the bytes parked before it are a run up to the new end.     *)
LEMMA ReadRun == ASSUME FInv, NEW n \in 1..MaxChunk, NEW p, At(p)
                 PROVE  LET bytes == [i \in 1..n |-> received + i]
                        IN /\ p \o bytes \in Seq(Nat)
                           /\ AtPos(p \o bytes, start[taken + 1], received + n)
                           /\ p \o bytes # <<>>
                           /\ p = <<>> => p \o bytes = bytes
  <1> DEFINE bytes == [i \in 1..n |-> received + i]
             a == start[taken + 1]
  <1>1. received \in Nat /\ n \in Nat \ {0} /\ taken + 1 \in 1..Len(start) /\ start \in Seq(Nat)
    BY ChunkAssumption DEF FInv, Offsets, Types
  <1>2. a \in Nat
    BY <1>1
  <1>3. Run(bytes, received) /\ Len(bytes) = n
    BY <1>1, RunRead
  <1>4. Run(p, a) /\ a + Len(p) = received /\ Len(p) \in Nat
    BY DEF At, AtPos, Run
  <1> HIDE DEF bytes, a
  <1>5. Run(p \o bytes, a) /\ Len(p \o bytes) = Len(p) + n
    BY <1>2, <1>3, <1>4, RunCat
  <1>6. p \o bytes \in Seq(Nat)
    BY <1>5 DEF Run
  <1>7. a + Len(p \o bytes) = received + n /\ Len(p \o bytes) > 0
    <2>1. n \in Nat
      BY <1>1
    <2>2. \A l \in Nat : \A m \in Nat \ {0} : l + m > 0
      OBVIOUS
    <2>3. a + (Len(p) + n) = received + n
      <3>1. received \in Nat /\ a + Len(p) = received /\ Len(p) \in Nat
        BY <1>1, <1>4
      <3> QED BY <1>2, <2>1, <3>1
    <2>4. Len(p) + n > 0
      BY <1>1, <1>4, <2>2, Zenon
    <2> QED BY <1>5, <2>3, <2>4, Zenon
  <1>8. p \o bytes # <<>>
    BY <1>7
  <1>9. p = <<>> => p \o bytes = bytes
    BY <1>3 DEF Run
  <1> QED BY Zenon, <1>5, <1>6, <1>7, <1>8, <1>9 DEF AtPos, bytes, a

(* data_received_inner() walks the bytes or parks them behind buf; either   *)
(* way what is to be parsed is everything unparsed.                         *)
LEMMA ReadStep == ASSUME FInv, NEW n \in 1..MaxChunk, Read(n)
                  PROVE  FInv' /\ UNCHANGED eventVars
  <1> DEFINE bytes == [i \in 1..n |-> received + i]
             data == recv_buf \o bytes
             a == start[taken + 1]
  <1>1. /\ scan.at = "idle" /\ Open /\ received' = received + n
        /\ received + n <= start[Len(stream) + 1]
        /\ UNCHANGED <<stream, compression, taken, core, start, buffered>>
    BY DEF Read, Open, eventVars
  <1>2. Offsets' /\ (taken' \in Nat /\ taken' <= Len(stream')) /\ CoreOK(core') /\ Open'
    <2>1. received' \in Nat
      BY <1>1, ChunkAssumption DEF FInv, Offsets
    <2>2. F(1)' = F(1) /\ \A k : F(k)' = F(k)
      BY <1>1 DEF F
    <2>3. Offsets'
      BY <1>1, <2>1, <2>2 DEF FInv, Offsets
    <2> QED BY <1>1, <2>3 DEF FInv, Types, Open
  <1>3. At(IF recv_buf = <<>> THEN buf ELSE recv_buf)
    BY <1>1 DEF FInv, Position
  <1>4. recv_buf # <<>> => /\ data \in Seq(Nat) /\ data # <<>>
                           /\ AtPos(data, a, received')
    BY <1>1, <1>3, ReadRun
  <1>5. recv_buf = <<>> => /\ buf \o bytes \in Seq(Nat) /\ AtPos(buf \o bytes, a, received')
                           /\ buf = <<>> => buf \o bytes = bytes
    BY Zenon, <1>1, <1>3, ReadRun
  <1>6. recv_buf = <<>> => data = bytes
    BY DEF data
  <1> HIDE DEF bytes, data, a
  <1>7. \/ /\ data_received_inner(bytes, "none") /\ recv_buf = <<>> /\ recv_buf' = <<>>
           /\ next_frame_needed' = NoNeed
        \/ /\ data_received_inner(data, "recv_buf") /\ recv_buf' = <<>>
           /\ next_frame_needed' = NoNeed /\ buffered
        \/ /\ next_frame_needed # NoNeed /\ Len(data) < next_frame_needed
           /\ recv_buf' = data /\ UNCHANGED <<next_frame_needed, buf, scan>> /\ buffered
    <2>1. CASE buffered /\ buffer_updated(bytes)
      BY <2>1 DEF buffer_updated, data
    <2>2. CASE /\ ~buffered /\ data_received_inner(bytes, "none")
               /\ UNCHANGED <<recv_buf, next_frame_needed>>
      BY <2>2 DEF FInv, Places, Hint
    <2> QED BY <2>1, <2>2 DEF Read, bytes
  <1>8. ASSUME NEW d, NEW o \in {"none", "recv_buf"}, data_received_inner(d, o),
               recv_buf' = <<>>, next_frame_needed' = NoNeed, o = "recv_buf" => buffered,
               recv_buf = <<>> => d = bytes, recv_buf # <<>> => d = data
        PROVE  Types' /\ Places' /\ Position' /\ Waits' /\ Hint'
    <2>1. recv_buf # <<>> => fast_path_eligible
      BY DEF FInv, Places, fast_path_eligible
    <2>2. CASE fast_path_eligible
      <3>1. buf = <<>> /\ buf' = <<>> /\ scan' = Walk(d, o)
        BY <1>8, <2>2 DEF data_received_inner, fast_path_eligible
      <3>2. d \in Seq(Nat) /\ AtPos(d, a, received')
        BY <1>8, <1>4, <1>5, <3>1
      <3>3. scan'.at = "walk" /\ scan'.data = d /\ scan'.owner = o
        BY <3>1 DEF Walk
      <3>4. Types'
        BY <1>1, <1>2, <1>8, <3>1, <3>2 DEF FInv, Types, Walk, NoNeed
      <3>5. Places'
        BY <1>1, <1>2, <1>8, <2>2, <3>1, <3>3 DEF FInv, Places, fast_path_eligible, Open
      <3>6. Position'
        BY <1>1, <1>8, <3>2, <3>3 DEF Position, At, a
      <3> QED BY <1>8, <3>3, <3>4, <3>5, <3>6 DEF Waits, Hint
    <2>3. CASE ~fast_path_eligible
      <3>1. recv_buf = <<>> /\ buf' = buf \o bytes /\ scan' = Drain
        BY <1>8, <2>1, <2>3 DEF data_received_inner, Park
      <3>2. scan'.at = "drain" /\ scan'.data = <<>> /\ scan'.owner = "none"
        BY <3>1 DEF Drain
      <3>3. Types'
        <4>1. <<>> \in Seq(Nat)
          OBVIOUS
        <4> QED BY Zenon, <1>1, <1>2, <1>5, <1>8, <3>1, <4>1 DEF FInv, Types, Drain, NoNeed
      <3>4. Places'
        BY <1>1, <1>2, <1>8, <3>2 DEF FInv, Places, Open
      <3>5. Position'
        BY <1>1, <1>5, <1>8, <3>1, <3>2 DEF Position, At, a
      <3> QED BY <1>8, <3>2, <3>3, <3>4, <3>5 DEF Waits, Hint
    <2> QED BY <2>2, <2>3
  <1>9. ASSUME next_frame_needed # NoNeed, Len(data) < next_frame_needed,
               recv_buf' = data, UNCHANGED <<next_frame_needed, buf, scan>>, buffered
        PROVE  Types' /\ Places' /\ Position' /\ Waits' /\ Hint'
    <2>1. /\ recv_buf # <<>> /\ taken < Len(stream) /\ next_frame_needed = Total(F(taken + 1))
          /\ F(taken + 1).plen <= MaxFrame
      BY <1>9 DEF FInv, Hint
    <2>2. data \in Seq(Nat) /\ data # <<>> /\ AtPos(data, a, received')
      BY <2>1, <1>4
    <2>3. Types'
      BY <1>1, <1>2, <1>9, <2>2 DEF FInv, Types
    <2>4. Places'
      BY <1>1, <1>2, <1>9, <2>1, <2>2 DEF FInv, Places, Open
    <2>5. Position'
      BY <1>1, <1>9, <2>2 DEF Position, At, a
    <2>6. Hint'
      BY <1>1, <1>9, <2>1, <2>2 DEF Hint, F
    <2>7. ~Arrived(taken + 1)'
      <3>1. taken + 1 \in 1..Len(stream)
        BY <2>1 DEF FInv, Types, Offsets
      <3>2. a \in Nat /\ Total(F(taken + 1)) \in Nat /\ F(taken + 1).plen \in Nat /\ MaxFrame \in Nat
        BY <3>1, FrameType, FormatAssumption DEF FInv, a
      <3>3. a + Len(data) = received' /\ Len(data) \in Nat
        BY <2>2 DEF AtPos
      <3>4. a + Len(data) < a + Total(F(taken + 1))
        BY <1>9, <2>1, <3>2, <3>3
      <3>5. ~(received' >= a + Total(F(taken + 1))) /\ ~(F(taken + 1).plen > MaxFrame)
        BY <2>1, <3>2, <3>3, <3>4
      <3> QED BY <1>1, <3>5 DEF Arrived, F, a
    <2>8. Waits'
      BY <1>1, <2>7 DEF Waits
    <2> QED BY <2>3, <2>4, <2>5, <2>6, <2>8
  <1>10. Types' /\ Places' /\ Position' /\ Waits' /\ Hint'
    <2>1. CASE /\ data_received_inner(bytes, "none") /\ recv_buf = <<>> /\ recv_buf' = <<>>
               /\ next_frame_needed' = NoNeed
      BY <2>1, <1>8
    <2>2. CASE /\ data_received_inner(data, "recv_buf") /\ recv_buf' = <<>>
               /\ next_frame_needed' = NoNeed /\ buffered
      BY <2>2, <1>6, <1>8
    <2> QED BY <1>7, <1>9, <2>1, <2>2
  <1> QED BY <1>1, <1>2, <1>10 DEF FInv, eventVars

(* A turn of the walk applies the next frame, and no other.                 *)
LEMMA WalkTakes == ASSUME FInv, Walking, HasHeader(scan.data), parse_header(scan.data).plen <= MaxFrame,
                          Complete(scan.data), Fast(parse_header(scan.data)),
                          core' = [core EXCEPT !.out = Visit(@, parse_header(scan.data), FrameAt(scan.data))],
                          taken' = taken + 1, UNCHANGED <<stream, compression>>
                   PROVE  /\ Take /\ CoreOK(core') /\ core'.fragment = core.fragment
                          /\ core'.handshake_done = core.handshake_done
                          /\ taken + 1 \in 1..Len(stream)
                          /\ Open' <=> parse_header(scan.data).op # "close"
                          /\ Rest(scan.data) \in Seq(Nat)
                          /\ AtPos(Rest(scan.data), start[taken + 1 + 1], received)
  <1> DEFINE f == F(taken + 1)
             id == taken + 1
  <1>1. At(scan.data) /\ scan.data # <<>> /\ Open /\ core.fragment.ids = <<>> /\ core.handshake_done
    BY DEF FInv, Position, Places, Walking, HasHeader
  <1>2. taken + 1 \in 1..Len(stream) /\ parse_header(scan.data) = f /\ FrameAt(scan.data) = id
    BY <1>1, Front DEF FInv
  <1>3. f \in Header /\ id \in Nat /\ taken < Len(stream)
    <2>1. f \in Header
      BY <1>2, FrameType DEF FInv
    <2>2. taken \in Nat /\ Len(stream) \in Nat
      BY DEF FInv, Types, Offsets
    <2> QED BY <1>2, <2>1, <2>2
  <1>4. core \in Cores /\ core.fragment = NoFragment /\ core.out \in Outs
    BY <1>1 DEF FInv, CoreOK, Cores
  <1>5. f.plen <= MaxFrame /\ f.fin /\ f.op # "continuation" /\ ~f.rsv1
        /\ core' = [core EXCEPT !.out = Visit(@, f, id)]
    BY <1>2 DEF Fast
  <1>6. Refusal(core, f) = "none"
    <2>1. ~(f.plen > MaxFrame)
      BY <1>3, <1>5, FormatAssumption DEF Header
    <2> HIDE DEF f
    <2> QED BY <1>1, <1>5, <2>1 DEF Refusal
  <1> HIDE DEF f, id
  <1>7. Effect(core, f, id) = NextEvent(core, f, id)
    BY <1>1, <1>6 DEF Effect
  <1>8. NextEvent(core, f, id) = [core EXCEPT !.out = Visit(@, f, id)]
    <2>1. CASE f.op # "data"
      BY <1>5, <2>1 DEF NextEvent
    <2>2. CASE f.op = "data"
      <3> DEFINE m == Joined(core.fragment, f, id)
      <3>1. m.ids = <<id>> /\ ~m.rsv1
        BY <1>1, <1>3, <1>4, <1>5 DEF Joined, Fragments, Cores
      <3>2. [core EXCEPT !.fragment = NoFragment] = core
        BY <1>4 DEF Cores
      <3>3. NextEvent(core, f, id) = Delivers([core EXCEPT !.fragment = NoFragment], m)
        BY <1>5, <2>2 DEF NextEvent
      <3> HIDE DEF m
      <3>4. Delivers(core, m) = [core EXCEPT !.out = Message(@, m.ids)]
        BY <3>1 DEF Delivers
      <3>5. Visit(core.out, f, id) = Message(core.out, <<id>>)
        BY <2>2 DEF Visit
      <3> QED BY <3>1, <3>2, <3>3, <3>4, <3>5
    <2> QED BY <2>1, <2>2
  <1>9. core' = Effect(core, f, id)
    BY <1>5, <1>7, <1>8
  <1>10. Take
    BY <1>1, <1>3, <1>9 DEF Take, Open, f, id
  <1>11. CoreOK(core')
    BY <1>1, <1>2, <1>9, TakeOK DEF f, id
  <1>12. core'.fragment = core.fragment /\ core'.handshake_done = core.handshake_done
         /\ core'.out = Visit(core.out, f, id)
    BY <1>4, <1>5 DEF Cores
  <1>13. Open' <=> f.op # "close"
    <2>1. f.op # "close" => Visit(core.out, f, id).end = core.out.end
      BY <1>3, <1>4, VisitOK
    <2>2. f.op = "close" => Visit(core.out, f, id).end = "peer"
      BY <1>3, <1>4, VisitOK
    <2> QED BY <1>1, <1>12, <2>1, <2>2 DEF Open
  <1>14. Rest(scan.data) \in Seq(Nat) /\ AtPos(Rest(scan.data), start[taken + 1 + 1], received)
    BY <1>1, AfterFrame DEF FInv
  <1> QED BY <1>2, <1>10, <1>11, <1>12, <1>13, <1>14

(* Where the frames start and what has been read do not change in a parse.  *)
LEMMA OffsetsKept == FInv /\ UNCHANGED <<stream, start, received>> => Offsets' /\ \A k : F(k)' = F(k)
  <1> SUFFICES ASSUME FInv, UNCHANGED <<stream, start, received>> PROVE Offsets' /\ \A k : F(k)' = F(k)
    OBVIOUS
  <1>1. \A k : F(k)' = F(k)
    BY DEF F
  <1> QED BY <1>1 DEF FInv, Offsets

(* VisitOutcome::Continue.                                                  *)
LEMMA WalkFrameStep == ASSUME FInv, WalkFrame PROVE FInv' /\ Take
  <1>1. /\ Take /\ CoreOK(core') /\ core'.fragment = core.fragment
        /\ core'.handshake_done = core.handshake_done /\ taken + 1 \in 1..Len(stream) /\ Open'
        /\ Rest(scan.data) \in Seq(Nat) /\ AtPos(Rest(scan.data), start[taken + 1 + 1], received)
    BY WalkTakes DEF WalkFrame
  <1>2. /\ scan.at = "walk" /\ scan' = [scan EXCEPT !.data = Rest(scan.data)] /\ taken' = taken + 1
        /\ UNCHANGED <<stream, compression, start, received, buffered, buf, recv_buf, next_frame_needed>>
    BY DEF WalkFrame, Walking
  <1>3. /\ buf = <<>> /\ recv_buf = <<>> /\ core.fragment.ids = <<>> /\ core.handshake_done
        /\ next_frame_needed = NoNeed /\ (~buffered => scan.owner = "none")
    BY <1>2 DEF FInv, Places, Hint
  <1>4. scan'.at = "walk" /\ scan'.data = Rest(scan.data) /\ scan'.owner = scan.owner
    BY <1>2 DEF FInv, Types
  <1>5. Offsets'
    BY <1>2, OffsetsKept
  <1>6. Types'
    <2>1. taken' \in Nat /\ taken' <= Len(stream')
      <3>1. Len(stream) \in Nat
        BY DEF FInv, Offsets
      <3> QED BY <1>1, <1>2, <3>1
    <2> QED BY Zenon, <1>1, <1>2, <2>1 DEF FInv, Types
  <1>7. Places'
    <2>1. taken' > 0
      BY <1>1, <1>2
    <2> QED BY <1>1, <1>2, <1>3, <1>4, <2>1 DEF Places
  <1>8. Position'
    BY <1>1, <1>2, <1>3, <1>4 DEF Position, At
  <1>9. Waits' /\ Hint'
    BY <1>2, <1>3, <1>4 DEF Waits, Hint
  <1> QED BY <1>1, <1>5, <1>6, <1>7, <1>8, <1>9 DEF FInv

(* ScanOutcome::Stopped.                                                    *)
LEMMA WalkCloseStep == ASSUME FInv, WalkClose PROVE FInv' /\ Take
  <1>1. /\ Take /\ CoreOK(core') /\ core'.fragment = core.fragment
        /\ core'.handshake_done = core.handshake_done /\ taken + 1 \in 1..Len(stream) /\ ~Open'
        /\ Rest(scan.data) \in Seq(Nat)
    BY WalkTakes DEF WalkClose
  <1>2. /\ scan.at = "walk" /\ scan' = Idle /\ taken' = taken + 1
        /\ recv_buf' = IF scan.owner = "recv_buf" THEN Rest(scan.data) ELSE recv_buf
        /\ UNCHANGED <<stream, compression, start, received, buffered, buf, next_frame_needed>>
    BY DEF WalkClose, Walking
  <1>3. /\ buf = <<>> /\ recv_buf = <<>> /\ core.fragment.ids = <<>> /\ core.handshake_done
        /\ next_frame_needed = NoNeed /\ (~buffered => scan.owner = "none")
    BY <1>2 DEF FInv, Places, Hint
  <1>4. scan'.at = "idle" /\ scan'.data = <<>> /\ scan'.owner = "none"
    BY <1>2 DEF Idle
  <1>5. Offsets'
    BY <1>2, OffsetsKept
  <1>6. Types'
    <2>1. taken' \in Nat /\ taken' <= Len(stream')
      <3>1. Len(stream) \in Nat
        BY DEF FInv, Offsets
      <3> QED BY <1>1, <1>2, <3>1
    <2>2. <<>> \in Seq(Nat)
      OBVIOUS
    <2> QED BY <1>1, <1>2, <2>1, <2>2 DEF FInv, Types, Idle
  <1>7. Places'
    <2>1. ~buffered => recv_buf' = <<>>
      BY <1>2, <1>3
    <2> QED BY <1>1, <1>2, <1>3, <1>4, <2>1 DEF Places
  <1>8. Position' /\ Waits' /\ Hint'
    BY <1>1, <1>2, <1>3 DEF Position, Waits, Hint
  <1> QED BY <1>1, <1>5, <1>6, <1>7, <1>8 DEF FInv

(* Bytes go from the walk to buf, or none are left.                         *)
LEMMA Parks == ASSUME FInv, Walking, scan' = Drain, buf' = buf \o scan.data,
                      UNCHANGED <<eventVars, start, received, buffered, recv_buf, next_frame_needed>>
               PROVE  FInv'
  <1>1. /\ buf = <<>> /\ recv_buf = <<>> /\ core.handshake_done /\ Open
        /\ next_frame_needed = NoNeed /\ At(scan.data) /\ scan.data \in Seq(Nat)
    BY DEF FInv, Places, Position, Hint, Walking, Types
  <1>2. buf' = scan.data
    BY <1>1
  <1>3. scan'.at = "drain" /\ scan'.data = <<>> /\ scan'.owner = "none"
    BY DEF Drain
  <1>4. Offsets' /\ CoreOK(core')
    BY OffsetsKept DEF FInv, eventVars
  <1>5. Types'
    <2>1. <<>> \in Seq(Nat)
      OBVIOUS
    <2> QED BY <1>1, <1>2, <2>1 DEF FInv, Types, Drain, eventVars
  <1>6. Places'
    BY <1>1, <1>3 DEF FInv, Places, Open, eventVars
  <1>7. Position'
    BY <1>1, <1>2, <1>3 DEF Position, At, eventVars
  <1>8. Waits' /\ Hint'
    BY <1>1, <1>3 DEF Waits, Hint
  <1> QED BY <1>4, <1>5, <1>6, <1>7, <1>8 DEF FInv

(* ScanOutcome::Exhausted and Partial: the tail is carried in recv_buf, or  *)
(* parked.                                                                  *)
LEMMA WalkStopsStep == ASSUME FInv, WalkStops PROVE FInv' /\ UNCHANGED eventVars
  <1> DEFINE d == scan.data
             f == parse_header(d)
             partial == HasHeader(d) /\ f.plen <= MaxFrame /\ ~Complete(d)
  <1>1. /\ Walking /\ (~HasHeader(d) \/ partial)
        /\ UNCHANGED <<eventVars, start, received, buffered>>
        /\ \/ /\ scan.owner = "recv_buf" /\ recv_buf' = d
              /\ next_frame_needed' = IF partial THEN Total(f) ELSE NoNeed
              /\ scan' = Idle /\ UNCHANGED buf
           \/ /\ UNCHANGED <<recv_buf, next_frame_needed>>
              /\ \/ d = <<>> /\ scan' = Idle /\ UNCHANGED buf
                 \/ scan' = Drain /\ buf' = buf \o d
    BY Zenon DEF WalkStops, park_tail_and_drain, Park
  <1>2. /\ buf = <<>> /\ recv_buf = <<>> /\ core.handshake_done /\ Open /\ core.fragment.ids = <<>>
        /\ next_frame_needed = NoNeed /\ At(d) /\ d \in Seq(Nat) /\ taken > 0
        /\ (~buffered => scan.owner = "none")
    BY <1>1 DEF FInv, Places, Position, Hint, Walking, Types
  <1>3. UNCHANGED <<stream, compression, taken, core>>
    BY <1>1 DEF eventVars
  <1>4. Offsets' /\ CoreOK(core') /\ \A k : F(k)' = F(k)
    BY <1>1, <1>3, OffsetsKept DEF FInv
  <1>5. taken = Len(stream) \/ ~Arrived(taken + 1)
    <2>1. d # <<>> => Len(d) < f.hdr \/ (~Complete(d) /\ f.plen <= MaxFrame)
      <3> SUFFICES ASSUME d # <<>> PROVE Len(d) < f.hdr \/ (~Complete(d) /\ f.plen <= MaxFrame)
        OBVIOUS
      <3>1. taken + 1 \in 1..Len(stream) /\ f = F(taken + 1)
        BY <1>2, Front DEF FInv
      <3>2. f.hdr \in Nat /\ Len(d) \in Nat
        <4>1. Offsets
          BY DEF FInv
        <4>2. Len(d) \in Nat
          BY <1>2
        <4> HIDE DEF f, d
        <4> QED BY <3>1, <4>1, <4>2, FrameType
      <3> HIDE DEF f, d
      <3>3. ~HasHeader(d) => Len(d) < f.hdr
        BY <3>2 DEF HasHeader, f
      <3> QED BY <1>1, <3>3
    <2> HIDE DEF d, f
    <2> QED BY <1>2, <2>1, NotArrived DEF FInv, f
  <1>6. Waits'
    BY <1>1, <1>3, <1>4, <1>5 DEF Waits, Arrived
  <1>7. <<>> \in Seq(Nat)
    OBVIOUS
  <1>8. CASE /\ scan.owner = "recv_buf" /\ recv_buf' = d
             /\ next_frame_needed' = IF partial THEN Total(f) ELSE NoNeed
             /\ scan' = Idle /\ UNCHANGED buf
    <2>1. scan'.at = "idle" /\ scan'.data = <<>> /\ scan'.owner = "none"
      BY <1>8 DEF Idle
    <2>2. partial => /\ d # <<>> /\ taken + 1 \in 1..Len(stream) /\ f = F(taken + 1)
                     /\ Total(f) \in Nat
      <3> SUFFICES ASSUME partial
                   PROVE  /\ d # <<>> /\ taken + 1 \in 1..Len(stream) /\ f = F(taken + 1)
                          /\ Total(f) \in Nat
        OBVIOUS
      <3>1. d # <<>>
        BY DEF HasHeader
      <3>2. taken + 1 \in 1..Len(stream) /\ f = F(taken + 1)
        BY <1>2, <3>1, Front DEF FInv
      <3> QED BY <3>1, <3>2, FrameType DEF FInv
    <2> HIDE DEF partial, f, d
    <2>3. Types'
      <3>1. next_frame_needed' \in Nat
        BY <1>8, <2>2 DEF NoNeed
      <3> QED BY <1>1, <1>2, <1>3, <1>7, <1>8, <3>1 DEF FInv, Types, Idle
    <2>4. Places'
      BY <1>1, <1>2, <1>3, <1>8, <2>1 DEF FInv, Places, Open
    <2>5. Position'
      <3>1. recv_buf' = <<>> => d = buf
        BY <1>2, <1>8
      <3> QED BY Zenon, <1>1, <1>2, <1>3, <1>8, <2>1, <3>1 DEF Position, At
    <2>6. Hint'
      <3> SUFFICES ASSUME next_frame_needed' # NoNeed PROVE Hint'
        BY DEF Hint
      <3>1. partial /\ next_frame_needed' = Total(F(taken + 1)) /\ d # <<>>
        BY <1>8, <2>2
      <3>2. F(taken + 1).plen <= MaxFrame
        BY <2>2, <3>1 DEF partial
      <3>3. taken < Len(stream)
        BY <2>2, <3>1 DEF FInv, Types, Offsets
      <3>4. F(taken + 1)' = F(taken + 1)
        BY <1>3, <1>4 DEF F
      <3> QED BY <1>3, <1>8, <2>1, <3>1, <3>2, <3>3, <3>4 DEF Hint
    <2> QED BY <1>1, <1>4, <1>6, <2>3, <2>4, <2>5, <2>6 DEF FInv
  <1>9. CASE UNCHANGED <<recv_buf, next_frame_needed>> /\ d = <<>> /\ scan' = Idle /\ UNCHANGED buf
    <2>1. scan'.at = "idle" /\ scan'.data = <<>> /\ scan'.owner = "none"
      BY <1>9 DEF Idle
    <2>2. Types'
      BY <1>1, <1>3, <1>7, <1>9 DEF FInv, Types, Idle
    <2>3. Places'
      BY <1>1, <1>2, <1>3, <1>9, <2>1 DEF FInv, Places, Open
    <2>4. Position'
      <3>1. At(buf)
        BY <1>2, <1>9
      <3> QED BY Zenon, <1>1, <1>2, <1>3, <1>9, <2>1, <3>1 DEF Position, At
    <2>5. Hint'
      BY <1>2, <1>9 DEF Hint
    <2> QED BY <1>1, <1>4, <1>6, <2>2, <2>3, <2>4, <2>5 DEF FInv
  <1>10. CASE UNCHANGED <<recv_buf, next_frame_needed>> /\ scan' = Drain /\ buf' = buf \o d
    BY <1>1, <1>10, Parks
  <1> QED BY Zenon, <1>1, <1>8, <1>9, <1>10

(* ScanOutcome::Fallback: the rest is walked again or parked.               *)
LEMMA WalkFallbackStep == ASSUME FInv, WalkFallback PROVE FInv' /\ UNCHANGED eventVars
  <1> DEFINE d == scan.data
  <1>1. /\ Walking /\ d # <<>>
        /\ UNCHANGED <<eventVars, start, received, buffered, recv_buf, next_frame_needed>>
        /\ \/ scan' = Walk(d, "none") /\ UNCHANGED buf
           \/ scan' = Drain /\ buf' = buf \o d
    BY DEF WalkFallback, HasHeader, park_tail_and_drain, data_received_inner, Park
  <1>2. CASE scan' = Walk(d, "none") /\ UNCHANGED buf
    <2>1. scan'.at = "walk" /\ scan'.data = d /\ scan'.owner = "none"
      BY <1>2 DEF Walk
    <2>2. UNCHANGED <<stream, compression, taken, core>>
      BY <1>1 DEF eventVars
    <2>3. Offsets' /\ CoreOK(core')
      BY <1>1, <2>2, OffsetsKept DEF FInv
    <2>4. Types'
      BY <1>1, <1>2, <2>2 DEF FInv, Types, Walk
    <2>5. Places'
      BY <1>1, <1>2, <2>1, <2>2 DEF FInv, Places, Open, Walking
    <2>6. Position'
      BY <1>1, <1>2, <2>1, <2>2 DEF FInv, Position, Places, At, Open, Walking
    <2>7. Waits' /\ Hint'
      BY Zenon, <1>1, <2>1 DEF FInv, Waits, Hint, Walking
    <2> QED BY <1>1, <2>3, <2>4, <2>5, <2>6, <2>7 DEF FInv
  <1>3. CASE scan' = Drain /\ buf' = buf \o d
    BY <1>1, <1>3, Parks
  <1> QED BY <1>1, <1>2, <1>3

(* While buf is drained the walk holds no bytes.                            *)
LEMMA DrainScan == FInv /\ Draining => scan = Drain
  BY DEF FInv, Types, Draining, Drain, Places

(* A frame taken from buf leaves the next one at the front, unless it ends  *)
(* the connection.                                                          *)
LEMMA DrainTakes == ASSUME FInv, Draining, Open, buf # <<>>,
                           core' = Effect(core, F(taken + 1), taken + 1), taken' = taken + 1,
                           UNCHANGED <<stream, compression, start, received, buffered, recv_buf, next_frame_needed>>,
                           buf' \in Seq(Nat), scan' \in {Drain, Idle},
                           scan' = Idle => ~Open', scan' = Drain => Open' \/ core.handshake_done,
                           Open' => Complete(buf) /\ buf' = Rest(buf)
                    PROVE  FInv' /\ Take
  <1>1. recv_buf = <<>> /\ At(buf) /\ next_frame_needed = NoNeed
    BY DEF FInv, Places, Position, Hint, Draining
  <1>2. taken + 1 \in 1..Len(stream) /\ taken \in Nat /\ Len(stream) \in Nat
    <2>1. Offsets /\ Types
      BY DEF FInv
    <2>2. taken \in Nat /\ Len(stream) \in Nat
      BY ONLY <2>1 DEF Types, Offsets
    <2>3. taken + 1 \in 1..Len(stream)
      BY <1>1, <2>1, Front
    <2> QED BY <2>2, <2>3
  <1>3. CoreOK(core') /\ (Open' \/ core.handshake_done => core'.handshake_done)
    BY <1>2, TakeOK
  <1>4. taken < Len(stream) /\ taken' \in Nat /\ taken' <= Len(stream') /\ taken' > 0
    BY <1>2
  <1>5. Take
    BY <1>4 DEF Take, Open
  <1>6. scan'.at \in {"drain", "idle"} /\ scan'.data = <<>> /\ scan'.owner = "none"
        /\ (scan'.at = "idle" => ~Open')
    BY DEF Drain, Idle
  <1>7. Offsets'
    BY OffsetsKept
  <1>8. Types'
    <2>1. <<>> \in Seq(Nat)
      OBVIOUS
    <2>2. scan' \in [at : {"idle", "walk", "drain"}, data : Seq(Nat), owner : {"none", "recv_buf"}]
      <3>1. CASE scan' = Drain
        BY <2>1, <3>1 DEF Drain
      <3>2. CASE scan' = Idle
        BY <2>1, <3>2 DEF Idle
      <3> QED BY <3>1, <3>2
    <2> QED BY <1>4, <2>2 DEF FInv, Types
  <1>9. Places'
    <2>1. scan'.at = "drain" => Open' \/ core'.handshake_done
      <3>1. scan' = Idle => scan'.at = "idle"
        BY DEF Idle
      <3> QED BY <1>3, <3>1
    <2> QED BY <1>1, <1>3, <1>4, <1>6, <2>1 DEF Places
  <1>10. Position'
    <2> SUFFICES ASSUME Open' PROVE AtPos(buf', start[taken + 1 + 1], received)
      BY <1>1, <1>6 DEF Position, At
    <2> QED BY <1>1, AfterFrame DEF FInv
  <1>11. Waits' /\ Hint'
    BY Zenon, <1>1, <1>6 DEF Waits, Hint
  <1> QED BY <1>3, <1>5, <1>7, <1>8, <1>9, <1>10, <1>11 DEF FInv

(* process_handshake(): the response is frame 1.                            *)
LEMMA HandshakeStep == ASSUME FInv, Handshake PROVE FInv' /\ Take
  <1>1. /\ Draining /\ ~core.handshake_done /\ buf # <<>> /\ Complete(buf)
        /\ core' = Answered(core, parse_header(buf)) /\ taken' = taken + 1 /\ buf' = Rest(buf)
        /\ scan' = (IF parse_header(buf).op = "reject" THEN Idle ELSE scan)
        /\ UNCHANGED <<stream, compression, start, received, buffered, recv_buf, next_frame_needed>>
    BY DEF Handshake
  <1>2. Open /\ At(buf)
    BY <1>1 DEF FInv, Places, Position, Draining
  <1>3. parse_header(buf) = F(taken + 1)
    BY <1>1, <1>2, Front DEF FInv
  <1>4. core' = Effect(core, F(taken + 1), taken + 1)
    BY <1>1, <1>3 DEF Effect
  <1>5. buf' \in Seq(Nat)
    BY <1>1, <1>2, AfterFrame DEF FInv
  <1>6. parse_header(buf).op = "reject" => ~Open'
    <2>1. core \in Cores
      BY DEF FInv, CoreOK
    <2>2. Fails(core, "rejected").out.end = "rejected"
      BY <2>1, FailsOK DEF Endings
    <2> QED BY <1>1, <2>2 DEF Answered, Open
  <1>7. scan = Drain
    BY <1>1, DrainScan
  <1>8. parse_header(buf).op # "reject" => Open'
    <2>1. core \in Cores
      BY DEF FInv, CoreOK
    <2> QED BY <1>1, <1>2, <2>1 DEF Answered, Open, Cores
  <1>9. Drain # Idle
    BY DEF Drain, Idle
  <1> QED BY <1>1, <1>2, <1>4, <1>5, <1>6, <1>7, <1>8, <1>9, DrainTakes

(* One turn of emit_protocol_events() and next_event().                     *)
LEMMA DrainFrameStep == ASSUME FInv, DrainFrame PROVE FInv' /\ Take
  <1> DEFINE f == parse_header(buf)
  <1>1. /\ Draining /\ core.handshake_done /\ Open /\ HasHeader(buf)
        /\ (f.plen > MaxFrame \/ Complete(buf)) /\ taken' = taken + 1
        /\ core' = (IF Refusal(core, f) # "none" THEN Fails(core, Refusal(core, f))
                    ELSE NextEvent(core, f, FrameAt(buf)))
        /\ buf' = (IF Refusal(core, f) # "none" THEN buf ELSE Rest(buf))
        /\ UNCHANGED <<stream, compression, start, received, buffered, recv_buf, next_frame_needed, scan>>
    BY Zenon DEF DrainFrame, Open
  <1>2. At(buf) /\ buf # <<>> /\ scan = Drain
    BY Zenon, <1>1, DrainScan DEF FInv, Places, Position, Draining, HasHeader
  <1>3. f = F(taken + 1) /\ FrameAt(buf) = taken + 1
    BY <1>2, Front DEF FInv
  <1>4. core' = Effect(core, F(taken + 1), taken + 1)
    BY <1>1, <1>3 DEF Effect
  <1>5. Refusal(core, f) # "none" => ~Open'
    <2> SUFFICES ASSUME Refusal(core, f) # "none" PROVE ~Open'
      OBVIOUS
    <2>1. Refusal(core, f) \in {"1002", "1009"}
      BY DEF Refusal
    <2>2. core \in Cores /\ Refusal(core, f) \in Endings /\ Refusal(core, f) # "open"
      BY <2>1 DEF FInv, CoreOK, Endings
    <2>3. Fails(core, Refusal(core, f)).out.end = Refusal(core, f)
      BY <2>2, FailsOK
    <2> QED BY Zenon, <1>1, <2>2, <2>3 DEF Open
  <1>6. Refusal(core, f) = "none" => Complete(buf)
    BY Zenon, <1>1 DEF Refusal
  <1>7. buf' \in Seq(Nat)
    BY Zenon, <1>1, <1>2, <1>6, AfterFrame DEF FInv, Types
  <1>8. Drain # Idle
    BY DEF Drain, Idle
  <1> QED BY <1>1, <1>2, <1>4, <1>5, <1>6, <1>7, <1>8, DrainTakes

(* The drain ends when no whole frame is left or the connection ended.      *)
LEMMA DrainStopsStep == ASSUME FInv, DrainStops PROVE FInv' /\ UNCHANGED eventVars
  <1> DEFINE f == parse_header(buf)
  <1>1. /\ Draining /\ scan' = Idle
        /\ UNCHANGED <<eventVars, start, received, buffered, buf, recv_buf, next_frame_needed>>
        /\ \/ ~core.handshake_done /\ ~(buf # <<>> /\ Complete(buf))
           \/ core.handshake_done /\ ~Open
           \/ core.handshake_done /\ ~(HasHeader(buf) /\ (f.plen > MaxFrame \/ Complete(buf)))
    BY DEF DrainStops, Open
  <1>2. recv_buf = <<>> /\ (Open => At(buf)) /\ next_frame_needed = NoNeed
        /\ (Open => (core.handshake_done <=> taken > 0)) /\ buf \in Seq(Nat)
    BY <1>1 DEF FInv, Places, Position, Hint, Draining, Types
  <1>3. UNCHANGED <<stream, compression, taken, core>>
    BY <1>1 DEF eventVars
  <1>4. scan'.at = "idle" /\ scan'.data = <<>> /\ scan'.owner = "none"
    BY <1>1 DEF Idle
  <1>5. Offsets' /\ CoreOK(core')
    BY <1>1, <1>3, OffsetsKept DEF FInv
  <1>6. Types'
    <2>1. <<>> \in Seq(Nat)
      OBVIOUS
    <2> QED BY <1>1, <1>3, <2>1 DEF FInv, Types, Idle
  <1>7. Places'
    BY Zenon, <1>1, <1>2, <1>3, <1>4 DEF FInv, Places, Open
  <1>8. Position'
    BY Zenon, <1>1, <1>2, <1>3, <1>4 DEF Position, At, Open
  <1>9. Waits'
    <2> SUFFICES ASSUME Open PROVE taken = Len(stream) \/ ~Arrived(taken + 1)
      BY Zenon, <1>1, <1>3 DEF Waits, Open, Arrived, F
    <2>1. buf # <<>> => Len(buf) < f.hdr \/ (~Complete(buf) /\ (taken = 0 \/ f.plen <= MaxFrame))
      <3> SUFFICES ASSUME buf # <<>>
                   PROVE  Len(buf) < f.hdr \/ (~Complete(buf) /\ (taken = 0 \/ f.plen <= MaxFrame))
        OBVIOUS
      <3>1. taken + 1 \in 1..Len(stream) /\ f = F(taken + 1) /\ taken \in Nat
        BY <1>2, Front DEF FInv, Types
      <3>2. f.hdr \in Nat /\ f.plen \in Nat /\ MaxFrame \in Nat /\ Len(buf) \in Nat
        BY <1>2, <3>1, FrameType, FormatAssumption DEF FInv
      <3> HIDE DEF f
      <3>3. ~HasHeader(buf) => Len(buf) < f.hdr
        BY <3>2 DEF HasHeader, f
      <3>4. ~(f.plen > MaxFrame) => f.plen <= MaxFrame
        BY <3>2
      <3>5. ~core.handshake_done => taken = 0
        BY <1>2, <3>1
      <3> QED BY <1>1, <3>3, <3>4, <3>5 DEF f
    <2> HIDE DEF f
    <2> QED BY <1>2, <2>1, NotArrived DEF FInv, f
  <1>10. Hint'
    BY <1>1, <1>2 DEF Hint
  <1> QED BY <1>1, <1>5, <1>6, <1>7, <1>8, <1>9, <1>10 DEF FInv

(* What the peer sends later changes nothing that is being parsed, and has  *)
(* not arrived.                                                             *)
LEMMA PeerFrameStep == ASSUME FInv, NEW kind \in DOMAIN Format, PeerFrame(kind)
                       PROVE  FInv' /\ PeerSends(kind)
  <1> DEFINE n == Len(stream)
             t == Total(Format[kind])
             last == start[Len(start)]
  <1>1. /\ scan.at = "idle" /\ PeerSends(kind) /\ stream' = Append(stream, kind)
        /\ start' = Append(start, last + t)
        /\ UNCHANGED <<compression, taken, core, received, buffered, buf, recv_buf, next_frame_needed, scan>>
    BY DEF PeerFrame, PeerSends
  <1>2. /\ n \in Nat /\ stream \in Seq(DOMAIN Format) /\ start \in Seq(Nat) /\ Len(start) = n + 1
        /\ received \in Nat /\ received <= last /\ taken \in Nat /\ taken <= n
    BY DEF FInv, Offsets, Types
  <1>3. Format[kind] \in Header
    BY FormatAssumption
  <1>4. t \in Nat \ {0} /\ last \in Nat
    BY <1>2, <1>3 DEF Total, Header
  <1>5. /\ stream' \in Seq(DOMAIN Format) /\ Len(stream') = n + 1 /\ stream'[n + 1] = kind
        /\ \A k \in 1..n : stream'[k] = stream[k]
    BY <1>1, <1>2
  <1>6. /\ start' \in Seq(Nat) /\ Len(start') = n + 2 /\ start'[n + 2] = last + t
        /\ \A k \in 1..(n + 1) : start'[k] = start[k]
    BY <1>1, <1>2, <1>4
  <1>7. \A k \in 1..n : F(k)' = F(k)
    BY <1>5 DEF F
  <1>8. \A k : k = n + 1 => F(k)' = Format[kind]
    BY <1>5 DEF F
  <1> HIDE DEF t
  <1>9. Offsets'
    <2>1. ASSUME NEW k \in 1..(n + 1) PROVE start'[k + 1] = start'[k] + Total(F(k)')
      <3>1. CASE k \in 1..n
        <4>1. start'[k + 1] = start[k + 1] /\ start'[k] = start[k]
          <5>1. k + 1 \in 1..(n + 1) /\ k \in 1..(n + 1)
            BY <3>1, <1>2
          <5> QED BY <5>1, <1>6
        <4> QED BY <3>1, <4>1, <1>7 DEF FInv, Offsets
      <3>2. CASE k = n + 1
        <4>1. start'[k + 1] = last + t /\ start'[k] = last
          <5>1. k + 1 = n + 2 /\ n + 1 \in 1..(n + 1) /\ start[n + 1] = last
            BY <3>2, <1>2
          <5> QED BY ONLY <3>2, <5>1, <1>6
        <4>2. F(k)' = Format[kind]
          BY <3>2, <1>8
        <4> QED BY <4>1, <4>2 DEF t
      <3> QED BY <3>1, <3>2, <1>2
    <2>2. ASSUME NEW j \in 1..(n + 2), NEW k \in 1..(n + 2), j < k PROVE start'[j] < start'[k]
      <3>1. j \in 1..(n + 1) /\ start'[j] = start[j] /\ start[j] \in Nat
        BY <2>2, <1>2, <1>6
      <3>2. CASE k \in 1..(n + 1)
        BY <2>2, <3>1, <3>2, <1>2, <1>6 DEF FInv, Offsets
      <3>3. CASE k = n + 2
        <4>1. start[j] <= last
          <5>1. j = n + 1 => start[j] = last
            BY <1>2
          <5>2. j < n + 1 => start[j] < last
            BY <3>1, <1>2 DEF FInv, Offsets
          <5> QED BY <5>1, <5>2, <3>1, <1>2, <1>4
        <4>2. start'[k] = last + t
          BY <3>3, <1>6
        <4> QED BY <3>1, <4>1, <4>2, <1>4
      <3> QED BY <3>2, <3>3, <1>2
    <2>3. received' <= start'[Len(stream') + 1]
      BY <1>1, <1>2, <1>4, <1>5, <1>6
    <2>4. Len(start') = Len(stream') + 1 /\ Len(stream') = n + 1 /\ Len(start') = n + 2
      BY <1>2, <1>5, <1>6
    <2>5. \A k \in 1..Len(stream') : start'[k + 1] = start'[k] + Total(F(k)')
      BY <2>1, <2>4
    <2>6. \A j, k \in 1..Len(start') : j < k => start'[j] < start'[k]
      BY <2>2, <2>4
    <2>7. stream' \in Seq(DOMAIN Format) /\ start' \in Seq(Nat) /\ received' \in Nat
      BY <1>1, <1>2, <1>5, <1>6
    <2> QED BY <2>3, <2>4, <2>5, <2>6, <2>7 DEF Offsets, Total
  <1>10. Types'
    <2>1. taken <= n + 1
      BY <1>2
    <2>2. Types
      BY DEF FInv
    <2> QED BY ONLY <1>1, <1>5, <2>1, <2>2 DEF Types
  <1>11. CoreOK(core') /\ Places'
    BY Zenon, <1>1 DEF FInv, Places, Open
  <1>12. start'[taken + 1] = start[taken + 1] /\ start[taken + 1] \in Nat
    BY <1>2, <1>6
  <1>13. Position'
    BY Zenon, <1>1, <1>12 DEF FInv, Position, At, Open
  <1>14. Waits'
    <2> SUFFICES ASSUME Open PROVE ~Arrived(taken + 1)'
      BY <1>1 DEF Waits, Open
    <2>1. CASE taken # n
      <3>1. taken + 1 \in 1..n
        BY <2>1, <1>2
      <3>2. F(taken + 1)' = F(taken + 1)
        BY <3>1, <1>1, <1>7 DEF F
      <3>3. ~Arrived(taken + 1)
        BY <2>1, <1>1 DEF FInv, Waits
      <3> QED BY Zenon, <1>1, <1>12, <3>2, <3>3 DEF Arrived
    <2>2. CASE taken = n
      <3>1. received <= start[taken + 1]
        BY <2>2, <1>2
      <3>2. F(taken + 1)' = Format[kind]
        <4>1. taken' = n + 1 - 1 /\ stream'[taken + 1] = kind
          BY <2>2, <1>1, <1>2, <1>5
        <4> QED BY <1>1, <4>1 DEF F
      <3>3. Format[kind].hdr \in Nat \ {0} /\ t \in Nat \ {0} /\ t = Total(Format[kind])
        BY <1>3, <1>4 DEF Header, t
      <3>4. ~(received >= start[taken + 1] +
                IF Format[kind].plen > MaxFrame /\ taken + 1 > 1 THEN Format[kind].hdr ELSE t)
        <4> DEFINE from == start[taken + 1]
        <4>1. from \in Nat /\ received \in Nat /\ received <= from
          BY <3>1, <1>2, <1>12
        <4> HIDE DEF from
        <4>2. ~(received >= from + Format[kind].hdr) /\ ~(received >= from + t)
          BY ONLY <3>3, <4>1
        <4> QED BY ONLY <4>2 DEF from
      <3> QED BY Zenon, <1>1, <1>12, <3>2, <3>3, <3>4 DEF Arrived
    <2> QED BY <2>1, <2>2
  <1>15. Hint'
    <2> SUFFICES ASSUME next_frame_needed # NoNeed PROVE Hint'
      BY <1>1 DEF Hint
    <2>1. taken < n /\ taken + 1 \in 1..n
      BY <1>2 DEF FInv, Hint
    <2>2. F(taken + 1)' = F(taken + 1)
      BY <2>1, <1>1, <1>7 DEF F
    <2>3. taken' < Len(stream')
      BY <2>1, <1>1, <1>2, <1>5
    <2> QED BY <1>1, <2>2, <2>3 DEF FInv, Hint
  <1> QED BY <1>1, <1>9, <1>10, <1>11, <1>13, <1>14, <1>15 DEF FInv

(* Frames start one after the other.                                        *)
LEMMA StartsOrdered == Offsets =>
    \A i, j \in 1..Len(start) : start[i] \in Nat /\ (i <= j => start[i] <= start[j])
  <1> SUFFICES ASSUME Offsets, NEW i \in 1..Len(start), NEW j \in 1..Len(start)
               PROVE  start[i] \in Nat /\ (i <= j => start[i] <= start[j])
    OBVIOUS
  <1>1. start[i] \in Nat /\ start[j] \in Nat
    BY DEF Offsets
  <1>2. i < j => start[i] < start[j]
    BY DEF Offsets
  <1> QED BY <1>1, <1>2

(* Before the first byte nothing waits.                                     *)
LEMMA InitInv == Init => FInv
  <1> SUFFICES ASSUME Init PROVE FInv
    OBVIOUS
  <1>1. <<>> \in Seq(Nat) /\ <<>> \in Seq(Seq(Nat)) /\ Len(<<>>) = 0
    OBVIOUS
  <1>2. CoreOK(core) /\ Open /\ ~core.handshake_done /\ taken = 0
    BY InitCore DEF Init, EventsInit, Open
  <1>3. stream = <<>> /\ start = <<0>> /\ received = 0
    BY DEF Init, EventsInit
  <1>4. Offsets
    <2>1. <<>> \in Seq(DOMAIN Format) /\ <<0>> \in Seq(Nat) /\ Len(<<0>>) = 1 /\ <<0>>[1] = 0
      OBVIOUS
    <2> QED BY <1>1, <1>3, <2>1 DEF Offsets
  <1>5. scan.at = "idle" /\ scan.data = <<>> /\ scan.owner = "none" /\ scan = Idle
    BY DEF Init, Idle
  <1>6. Types
    <2>1. scan \in [at : {"idle", "walk", "drain"}, data : Seq(Nat), owner : {"none", "recv_buf"}]
      BY <1>1, <1>5 DEF Idle
    <2>2. buf = <<>> /\ recv_buf = <<>> /\ next_frame_needed = 0
      BY DEF Init, NoNeed
    <2>3. buffered \in BOOLEAN /\ compression \in BOOLEAN
      BY DEF Init, EventsInit
    <2>4. taken \in Nat /\ taken <= Len(stream) /\ 0 \in Nat
      BY <1>1, <1>2, <1>3
    <2> QED BY ONLY Zenon, <1>1, <2>1, <2>2, <2>3, <2>4 DEF Types
  <1>7. Places
    BY <1>2, <1>5 DEF Init, Places
  <1>8. Position
    <2>1. At(<<>>)
      <3>1. start[taken + 1] = 0
        BY <1>2, <1>3
      <3>2. AtPos(<<>>, 0, 0)
        BY RunEmpty DEF AtPos
      <3> QED BY <1>3, <3>1, <3>2 DEF At
    <2> QED BY <1>5, <2>1 DEF Init, Position
  <1>9. Waits /\ Hint
    BY <1>1, <1>2, <1>3 DEF Init, Waits, Hint
  <1> QED BY <1>2, <1>4, <1>6, <1>7, <1>8, <1>9 DEF FInv

(* Every step keeps the invariant, and applies one frame, sends one, or     *)
(* changes nothing that FrameEvents sees.                                   *)
LEMMA NextInv == FInv /\ [Next]_vars => FInv' /\ [EventsNext]_eventVars
  <1> SUFFICES ASSUME FInv, [Next]_vars PROVE FInv' /\ [EventsNext]_eventVars
    OBVIOUS
  <1>1. ASSUME NEW n \in 1..MaxChunk, Read(n) PROVE FInv' /\ [EventsNext]_eventVars
    BY <1>1, ReadStep
  <1>2. ASSUME NEW k \in DOMAIN Format, PeerFrame(k) PROVE FInv' /\ [EventsNext]_eventVars
    BY <1>2, PeerFrameStep DEF EventsNext
  <1>3. CASE WalkFrame
    BY <1>3, WalkFrameStep DEF EventsNext
  <1>4. CASE WalkClose
    BY <1>4, WalkCloseStep DEF EventsNext
  <1>5. CASE WalkStops
    BY <1>5, WalkStopsStep
  <1>6. CASE WalkFallback
    BY <1>6, WalkFallbackStep
  <1>7. CASE Handshake
    BY <1>7, HandshakeStep DEF EventsNext
  <1>8. CASE DrainFrame
    BY <1>8, DrainFrameStep DEF EventsNext
  <1>9. CASE DrainStops
    BY <1>9, DrainStopsStep
  <1>10. CASE UNCHANGED vars
    <2>1. /\ UNCHANGED <<stream, compression, taken, core>> /\ UNCHANGED eventVars
          /\ UNCHANGED <<start, received, buffered, buf, recv_buf, next_frame_needed, scan>>
      BY <1>10 DEF vars, eventVars, byteVars
    <2>2. Offsets'
      BY <2>1, OffsetsKept
    <2> QED BY Zenon, <2>1, <2>2 DEF FInv, Types, Places, Position, Waits, Hint, Open, At, Arrived, F
  <1> QED BY <1>1, <1>2, <1>3, <1>4, <1>5, <1>6, <1>7, <1>8, <1>9, <1>10 DEF Next

-----------------------------------------------------------------------------
(* The inductive invariant: what has been read and not parsed is in one     *)
(* place, starts with the next frame, and is not all of it between reads.   *)
THEOREM Invariant == Spec => []FInv
  BY InitInv, NextInv, PTL DEF Spec

(* However the stream is cut into reads, the two parsers apply its frames   *)
(* in order, each whole and each once.                                      *)
THEOREM ReadsImplementEvents == Spec => ImplementsEvents
  <1>1. Init => EventsInit
    BY DEF Init
  <1> QED BY <1>1, InitInv, NextInv, PTL DEF Spec, EventsSpec, ImplementsEvents

(* recv_buf and buf never both hold bytes, and recv_buf none while a        *)
(* fragmented message is open.                                              *)
THEOREM ParkedOnce == Spec => []OneParkingPlace
  <1>1. FInv => OneParkingPlace
    BY DEF FInv, Places, OneParkingPlace
  <1> QED BY <1>1, Invariant, PTL

(* A message of several frames stays within MAX_MESSAGE_SIZE.               *)
THEOREM FragmentsBounded == Spec => []FragmentBounded
  <1>1. FInv => FragmentBounded
    BY DEF FInv, CoreOK, FragmentBounded
  <1> QED BY <1>1, Invariant, PTL

(* Between reads, exactly the frames that have arrived have been applied.   *)
THEOREM NoFrameWaits == Spec => []NothingWaits
  <1>1. FInv => NothingWaits
    <2> SUFFICES ASSUME FInv, scan.at = "idle", Open, NEW k \in 1..Len(stream)
                 PROVE  k <= taken <=> Arrived(k)
      BY DEF NothingWaits, Open
    <2> DEFINE need(j) == IF F(j).plen > MaxFrame /\ j > 1 THEN F(j).hdr ELSE Total(F(j))
               a == start[taken + 1]
               b == start[taken + 1 + 1]
               nk == need(k)
    <2>1. /\ taken \in Nat /\ taken <= Len(stream) /\ Len(stream) \in Nat /\ received \in Nat
          /\ Len(start) = Len(stream) + 1
      BY DEF FInv, Offsets, Types
    <2>2. \A j \in 1..Len(stream) : need(j) \in Nat \ {0} /\ start[j] + need(j) <= start[j + 1]
      <3> SUFFICES ASSUME NEW j \in 1..Len(stream)
                   PROVE  need(j) \in Nat \ {0} /\ start[j] + need(j) <= start[j + 1]
        OBVIOUS
      <3>1. F(j).hdr \in Nat \ {0} /\ start[j] \in Nat /\ Total(F(j)) \in Nat /\ F(j).hdr <= Total(F(j))
        BY FrameType DEF FInv
      <3>2. start[j + 1] = start[j] + Total(F(j))
        BY DEF FInv, Offsets
      <3> QED BY <3>1, <3>2
    <2>3. Arrived(k) <=> received >= start[k] + nk
      BY DEF Arrived
    <2>4. nk \in Nat \ {0} /\ start[k] + nk <= start[k + 1]
      BY <2>2
    <2>5. start[k] \in Nat /\ start[k + 1] \in Nat /\ a \in Nat
      <3>1. k \in 1..Len(start) /\ k + 1 \in 1..Len(start) /\ taken + 1 \in 1..Len(start)
        BY <2>1
      <3> QED BY <3>1, StartsOrdered DEF FInv
    <2>6. a <= received
      <3>1. PICK p : At(p)
        BY DEF FInv, Position, Types
      <3>2. a + Len(p) = received /\ Len(p) \in Nat
        BY <3>1 DEF At, AtPos, Run
      <3> QED BY <2>5, <3>2
    <2>7. CASE k <= taken
      <3>1. k + 1 \in 1..Len(start) /\ taken + 1 \in 1..Len(start) /\ k + 1 <= taken + 1
        BY <2>1, <2>7
      <3>2. start[k + 1] <= a
        BY <3>1, StartsOrdered DEF FInv
      <3> HIDE DEF nk, a
      <3> QED BY <2>1, <2>3, <2>4, <2>5, <2>6, <2>7, <3>2
    <2>8. CASE k > taken
      <3>1. taken # Len(stream) /\ taken + 1 \in 1..Len(stream) /\ taken + 1 + 1 \in 1..Len(start)
        BY <2>1, <2>8
      <3>2. ~Arrived(taken + 1)
        BY <3>1 DEF FInv, Waits
      <3>3. CASE k = taken + 1
        BY <3>2, <3>3, <2>8, <2>1
      <3>4. CASE k # taken + 1
        <4>1. taken + 1 + 1 <= k /\ k \in 1..Len(start)
          BY <2>1, <2>8, <3>4
        <4>2. b <= start[k] /\ b \in Nat
          BY <3>1, <4>1, StartsOrdered DEF FInv
        <4>3. a + need(taken + 1) <= b /\ need(taken + 1) \in Nat
          BY <2>2, <3>1
        <4>4. ~(received >= a + need(taken + 1))
          BY <3>2 DEF Arrived
        <4> HIDE DEF need, nk, a, b
        <4>5. received < start[k]
          BY <2>1, <2>5, <4>2, <4>3, <4>4
        <4> QED BY <2>1, <2>3, <2>4, <2>5, <2>8, <4>5
      <3> QED BY <3>3, <3>4
    <2> QED BY <2>1, <2>7, <2>8
  <1> QED BY <1>1, Invariant, PTL

(* However the reads cut the stream, the client delivers exactly the        *)
(* messages sent, each from its own frames, in order and none missing.      *)
THEOREM ReadsDeliver == Spec => []MessagesAsSent
  BY ReadsImplementEvents, EventsDeliver, PTL DEF ImplementsEvents

(* However the reads cut the stream, every Ping is answered and every Pong  *)
(* acknowledged, once and in order.                                         *)
THEOREM ReadsAnswer == Spec => []ControlsAsSent
  BY ReadsImplementEvents, EventsDeliver, PTL DEF ImplementsEvents
=============================================================================

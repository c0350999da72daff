---------------------------- MODULE FrameMeaning ----------------------------
(***************************************************************************)
(* What a stream means, as one closed formula over the frames sent and the  *)
(* bytes received, without a parser: the reference FrameStream is checked   *)
(* against.                                                                 *)
(***************************************************************************)
EXTENDS FrameStream

RECURSIVE SumSeq(_)
SumSeq(s) == IF s = <<>> THEN 0 ELSE Head(s) + SumSeq(Tail(s))

PayloadLen(ids) == SumSeq([i \in DOMAIN ids |-> F(ids[i]).plen])
InflatedLen(ids) == SumSeq([i \in DOMAIN ids |-> F(ids[i]).inflated])

Frames == 2..Len(stream)
Opens(k) == F(k).op = "data" /\ ~F(k).fin
Closes(k) == F(k).op = "continuation" /\ F(k).fin
InProgress(k) == \E j \in 2..(k - 1) : Opens(j) /\ \A i \in (j + 1)..(k - 1) : ~Closes(i)
Opening(k) == CHOOSE j \in 2..(k - 1) : Opens(j) /\ \A i \in (j + 1)..(k - 1) : ~Opens(i)
Pieces(k) ==
  IF F(k).op = "data" THEN <<k>>
  ELSE SelectSeq([i \in 1..k |-> i], LAMBDA i : i >= Opening(k) /\ F(i).op \in {"data", "continuation"})
Completes(k) == F(k).fin /\ F(k).op \in {"data", "continuation"}

(* How frame k leaves the connection.                                       *)
Verdict(k) ==
  LET whole == Pieces(k)
      zipped == F(whole[1]).rsv1
  IN CASE F(k).plen > MaxFrame -> "1009"
       [] F(k).plen <= MaxFrame /\ F(k).op = "close" -> "peer"
       [] F(k).plen <= MaxFrame /\ F(k).op \notin {"data", "continuation", "close"} -> "open"
       [] F(k).plen <= MaxFrame /\ F(k).op = "data" /\ InProgress(k) -> "1002"
       [] F(k).plen <= MaxFrame /\ F(k).op = "continuation" /\ ~InProgress(k) -> "1002"
       [] OTHER ->
            IF Len(whole) > 1 /\ PayloadLen(whole) > MaxMessage THEN "1009"
            ELSE IF Completes(k) /\ zipped /\ ~compression THEN "1002"
            ELSE IF Completes(k) /\ zipped /\ InflatedLen(whole) > MaxMessage THEN "1009"
            ELSE "open"

Expected ==
  LET bad == {k \in Frames : Verdict(k) # "open"}
      first == {k \in bad : \A j \in bad : k <= j}
      Seen(P(_)) == SelectSeq([i \in 1..Len(stream) |-> i],
                              LAMBDA k : k > 1 /\ Arrived(k) /\ P(k) /\ \A j \in bad : k < j)
      done == Seen(Completes)
  IN [messages |-> [i \in DOMAIN done |-> Pieces(done[i])],
      acks |-> Seen(LAMBDA k : F(k).op = "pong"),
      pongs |-> Seen(LAMBDA k : F(k).op = "ping"),
      end |-> IF \E k \in first : Arrived(k) THEN Verdict(CHOOSE k \in first : TRUE) ELSE "open"]

Nothing == [messages |-> <<>>, acks |-> <<>>, pongs |-> <<>>, end |-> "open"]

(* However the reads cut the stream, and whichever of the two receive       *)
(* interfaces delivers them, the client has raised exactly the events of    *)
(* the frames that have arrived: none is missing, late, repeated, or made   *)
(* of other bytes, and the connection fails at the first frame that must    *)
(* fail it and with that frame's code.                                      *)
EventsAsSent ==
  scan.at = "idle" /\ stream # <<>> =>
    core.out = IF F(1).op = "accept" THEN Expected
               ELSE [Nothing EXCEPT !.end = IF Arrived(1) THEN "rejected" ELSE "open"]
=============================================================================

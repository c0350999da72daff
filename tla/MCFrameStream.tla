--------------------------- MODULE MCFrameStream ----------------------------
(* FrameStream for TLC: one kind of frame for each case the parsers tell    *)
(* apart, with headers of one or two bytes and payloads of up to two.       *)
EXTENDS FrameMeaning

Kind(op, fin, rsv1, hdr, plen, inflated) ==
  [op |-> op, fin |-> fin, rsv1 |-> rsv1, hdr |-> hdr, plen |-> plen, inflated |-> inflated]

MCFormat ==
  [accept |-> Kind("accept", TRUE, FALSE, 1, 1, 0),
   reject |-> Kind("reject", TRUE, FALSE, 1, 1, 0),
   long   |-> Kind("data", TRUE, FALSE, 2, 2, 0),
   zip    |-> Kind("data", TRUE, TRUE, 1, 1, 1),
   zipbig |-> Kind("data", TRUE, TRUE, 1, 1, 9),
   first  |-> Kind("data", FALSE, FALSE, 1, 1, 0),
   firstz |-> Kind("data", FALSE, TRUE, 1, 1, 1),
   more   |-> Kind("continuation", FALSE, FALSE, 1, 1, 0),
   last   |-> Kind("continuation", TRUE, FALSE, 1, 1, 1),
   ping   |-> Kind("ping", TRUE, FALSE, 1, 1, 0),
   pong   |-> Kind("pong", TRUE, FALSE, 1, 0, 0),
   close  |-> Kind("close", TRUE, FALSE, 1, 0, 0),
   huge   |-> Kind("data", TRUE, FALSE, 1, 3, 0),
   other  |-> Kind("reserved", TRUE, FALSE, 1, 0, 0)]
=============================================================================

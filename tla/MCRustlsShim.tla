---------------------------- MODULE MCRustlsShim ----------------------------
(* RustlsShim for TLC: an upgrade response of two bytes and frames of two   *)
(* to four; a frame whose length does not fit; an endless response.         *)
EXTENDS RustlsShim

F(first, need, last) == [first |-> first, need |-> need, last |-> last, fits |-> TRUE]
TooLong(first) == [first |-> first, need |-> 2, last |-> first + 1, fits |-> FALSE]

MCStreams ==
  {[hs |-> 2, len |-> 11, frames |-> {F(3, 2, 4), F(5, 3, 9), F(10, 2, 11)}],
   [hs |-> 2, len |-> 6, frames |-> {F(3, 2, 4), TooLong(5)}],
   [hs |-> 4, len |-> 4, frames |-> {}]}
=============================================================================

--------------------------- MODULE MCAsyncClient ----------------------------
(* AsyncClient for TLC: channels of one or two slots stand for 64.          *)
EXTENDS AsyncClient
=============================================================================

--------------------------- MODULE MCVantiqClient ---------------------------
(* A small instance of VantiqClient: documents of none and of two bytes,   *)
(* read in pieces of one or two; bodies of up to two bytes in pieces of    *)
(* one or two; an answer that succeeds and one that fails.                 *)
EXTENDS VantiqClient

CONSTANTS x, y

MCByte == {x, y}
MCPayload == {<< >>, <<x, y>>}
MCChunk == {<<x>>, <<y, x>>}
=============================================================================

------------------------------ MODULE MCVmeBuf ------------------------------
(* A small instance of VmeBuf: sizes 2 / 6 / 8 stand for 64 / 1024 / 1MB.  *)
EXTENDS VmeBuf

CONSTANTS x, y

MCByte == {x, y}
MCPiece == {<< >>, <<x, y>>, <<y, y, x>>}
=============================================================================

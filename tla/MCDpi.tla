------------------------------- MODULE MCDpi -------------------------------
(* A small instance of Dpi: messages shorter than the first buffer, as     *)
(* long as it, and longer than it, of two bytes.                           *)
EXTENDS Dpi

CONSTANTS x, y

MCByte == {x, y}
MCEot == <<y, y>>
MCMessage == {<<x>>, <<x, y, x, y>>, <<x, x, y, x, y>>}
=============================================================================

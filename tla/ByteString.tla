----------------------------- MODULE ByteString -----------------------------
(***************************************************************************)
(* What a vmebuf_t promises its users: a string of bytes that only grows   *)
(* at its end, is emptied by a truncation and can be copied out.  There is *)
(* no capacity here, and nothing an allocation could lose.                 *)
(***************************************************************************)
EXTENDS Sequences

CONSTANTS
  Piece,    \* the sequences of bytes that may be appended
  NUL       \* the terminator of a copy

VARIABLES
  exists,   \* between creation and destruction
  bytes,    \* the string
  copy      \* the last copy taken, a C string

vars == <<exists, bytes, copy>>

Init == exists = FALSE /\ bytes = << >> /\ copy = << >>

Create == ~exists /\ exists' = TRUE /\ bytes' = << >> /\ UNCHANGED copy

Extend ==
  /\ exists
  /\ \E s \in Piece : bytes' = bytes \o s
  /\ UNCHANGED <<exists, copy>>

Clear == exists /\ bytes' = << >> /\ UNCHANGED <<exists, copy>>

Copy == exists /\ copy' = Append(bytes, NUL) /\ UNCHANGED <<exists, bytes>>

Destroy == exists /\ exists' = FALSE /\ bytes' = << >> /\ UNCHANGED copy

Next == Create \/ Extend \/ Clear \/ Copy \/ Destroy

Spec == Init /\ [][Next]_vars
=============================================================================

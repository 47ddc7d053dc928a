------------------------------- MODULE VmeBuf -------------------------------
(***************************************************************************)
(* One vmebuf_t and the calls its users make, in any order: the life of a  *)
(* receive buffer, of a message under construction or of a URL buffer.     *)
(* A truncation is vmebuf_truncate or the direct len = 0 of _getordelete.  *)
(***************************************************************************)
EXTENDS VmeBufOps

CONSTANTS
  Piece,       \* what the users concatenate
  MaxBytes     \* bound: no call makes the contents longer than this

ASSUME PieceAssumption == Piece \subseteq Seq(Byte)
ASSUME MaxBytesAssumption == MaxBytes \in Nat

VARIABLES
  live,        \* the buffer is allocated
  buf,         \* its fields; NewHeader when it is not
  copy         \* the last string vmebuf_tostr returned

vars == <<live, buf, copy>>

Init == live = FALSE /\ buf = NewHeader /\ copy = << >>

-----------------------------------------------------------------------------
(* vmebuf_ensure_size(NULL, size), also written vmebuf_alloc(). *)
Alloc(size) ==
  /\ ~live
  /\ live' = TRUE
  /\ buf' = vmebuf_create(size)
  /\ UNCHANGED copy

EnsureIncr(incrsize) ==
  /\ live
  /\ buf' = vmebuf_ensure_incr_size(buf, incrsize)
  /\ UNCHANGED <<live, copy>>

Truncate ==
  /\ live
  /\ buf' = vmebuf_truncate(buf)
  /\ UNCHANGED <<live, copy>>

Push(c) ==
  /\ live
  /\ buf.len < MaxBytes
  /\ buf' = vmebuf_push(buf, c)
  /\ UNCHANGED <<live, copy>>

Concat(s) ==
  /\ live
  /\ buf.len + Len(s) <= MaxBytes
  /\ buf' = vmebuf_concat(buf, s)
  /\ UNCHANGED <<live, copy>>

ToStr ==
  /\ live
  /\ copy' = vmebuf_tostr(buf)
  /\ UNCHANGED <<live, buf>>

Dealloc ==
  /\ live
  /\ live' = FALSE
  /\ buf' = NewHeader
  /\ UNCHANGED copy

Next ==
  \/ \E n \in 0 .. MaxBytes : Alloc(n) \/ EnsureIncr(n)
  \/ \E c \in Byte : Push(c)
  \/ \E s \in Piece : Concat(s)
  \/ Truncate
  \/ ToStr
  \/ Dealloc

Spec == Init /\ [][Next]_vars

-----------------------------------------------------------------------------
(* Every field has its type. *)
TypeOK ==
  /\ live \in BOOLEAN
  /\ buf \in Buffer
  /\ copy \in Seq(Byte \cup {NUL})

(* The assertions of buf.c: no byte in use lies outside the allocation,    *)
(* and no byte in use is one that a reallocation left unassigned.          *)
InBounds == WellFormed(buf)

(* "shrink the buffer in case one outlying use is chewing up lots of mem": *)
(* an append that leaves the contents short also gives the memory of an    *)
(* outlier back, however the buffer came to be that large.                 *)
OutlierReleased ==
  [][(live /\ live' /\ buf'.len > buf.len
        /\ 2 * buf'.len + MIN_BUF_SIZE <= SML_BUF_SIZE)
     => buf'.limit < LRG_BUF_SIZE]_vars

(* The buffer implements a byte string: growing, shrinking and moving the  *)
(* allocation never changes, loses or invents a byte of the contents.      *)
Abstract == INSTANCE ByteString
  WITH exists <- live, bytes <- Contents(buf),
       Piece <- Piece \cup {<<c>> : c \in Byte}
ImplementsByteString == Abstract!Spec

=============================================================================

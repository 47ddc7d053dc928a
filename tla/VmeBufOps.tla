----------------------------- MODULE VmeBufOps -----------------------------
(***************************************************************************)
(* The dynamically expanding buffer of src/vme/buf.c, as operators on      *)
(* buffer values.  A buffer is what a vmebuf_t holds: the number of bytes  *)
(* in use, the number allocated, and the allocated cells themselves.  A    *)
(* cell that was never written holds Junk.                                 *)
(*                                                                         *)
(* Allocation is assumed to succeed: buf.c asserts it where it checks it   *)
(* at all.  Sizes are natural numbers: a size_t cannot wrap as long as     *)
(* len + 3/2 * n is below SIZE_MAX, far beyond what fits in memory.        *)
(***************************************************************************)
EXTENDS Naturals, Sequences

CONSTANTS
  Byte,           \* what a cell may be assigned
  Junk,           \* what a cell holds before it is assigned
  NUL,            \* the terminator of a C string
  MIN_BUF_SIZE,   \* 64 in the code
  SML_BUF_SIZE,   \* 1024 in the code
  LRG_BUF_SIZE    \* 1024 * 1024 in the code

ASSUME BufSizesAssumption ==
  /\ MIN_BUF_SIZE \in Nat \ {0}
  /\ SML_BUF_SIZE \in Nat
  /\ LRG_BUF_SIZE \in Nat
  /\ MIN_BUF_SIZE <= SML_BUF_SIZE
  /\ SML_BUF_SIZE < LRG_BUF_SIZE

ASSUME CellAssumption == Junk \notin Byte /\ NUL \notin Byte

Cell == Byte \cup {Junk}

Buffer == [len : Nat, limit : Nat, data : Seq(Cell)]

(* The bytes in use: what a reader of data[0 .. len-1] sees. *)
Contents(b) == SubSeq(b.data, 1, b.len)

(* The well-formed buffers: the assertions of buf.c, and an allocation of  *)
(* exactly limit cells whose first len cells have been assigned.           *)
WellFormed(b) ==
  /\ b \in Buffer
  /\ Len(b.data) = b.limit
  /\ b.len <= b.limit
  /\ \A i \in 1 .. b.len : b.data[i] \in Byte

-----------------------------------------------------------------------------
(* A header fresh from malloc, before the first realloc of its data. *)
NewHeader == [len |-> 0, limit |-> 0, data |-> << >>]

(* realloc keeps the cells that fit and leaves the others unassigned. *)
Realloc(data, n) == [i \in 1 .. n |-> IF i <= Len(data) THEN data[i] ELSE Junk]

(* Fault: the cells are allocated anew and nothing is copied. *)
ResizeFresh(b, n) == [len |-> b.len, limit |-> n, data |-> Realloc(<< >>, n)]

Resize(b, n) == [len |-> b.len, limit |-> n, data |-> Realloc(b.data, n)]

(* Fault: the outlier test is off, so the buffer never shrinks. *)
GrowOnly(b, n) == b.limit < n

(* Grow, or give back the memory of an outlier once little is asked for. *)
MustRealloc(b, n) ==
  \/ b.limit < n
  \/ n <= SML_BUF_SIZE /\ b.limit >= LRG_BUF_SIZE

vmebuf_ensure_size(b, newSize) ==
  LET n == IF newSize < MIN_BUF_SIZE THEN MIN_BUF_SIZE ELSE newSize
  IN  IF MustRealloc(b, n)
      THEN Resize(b, n)
      ELSE b

(* The macro vmebuf_alloc() is vmebuf_create(0). *)
vmebuf_create(size) == vmebuf_ensure_size(NewHeader, size)

vmebuf_ensure_incr_size(b, incrsize) == vmebuf_ensure_size(b, b.len + incrsize)

vmebuf_truncate(b) == [len |-> 0, limit |-> b.limit, data |-> b.data]

(* Assign the bytes of s to the cells after those in use. *)
Store(b, s) ==
  [len |-> b.len + Len(s),
   limit |-> b.limit,
   data |-> [i \in 1 .. b.limit |->
               IF i > b.len /\ i <= b.len + Len(s) THEN s[i - b.len] ELSE b.data[i]]]

vmebuf_push(b, c) == Store(vmebuf_ensure_size(b, b.len + MIN_BUF_SIZE), <<c>>)

(* Fault: room is made for the new bytes only, not for those already in. *)
ConcatNoLen(b, s) == Store(vmebuf_ensure_size(b, Len(s) + Len(s) \div 2), s)

vmebuf_concat(b, s) ==
  Store(vmebuf_ensure_size(b, b.len + Len(s) + Len(s) \div 2), s)

(* Fault: the whole allocation is copied. *)
ToStrLimit(b) == Append(b.data, NUL)

(* A fresh C string with the bytes in use. *)
vmebuf_tostr(b) == Append(Contents(b), NUL)
=============================================================================

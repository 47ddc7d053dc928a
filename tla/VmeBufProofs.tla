---------------------------- MODULE VmeBufProofs ----------------------------
(***************************************************************************)
(* Theorems about the life of a buffer, for every value of the sizes and   *)
(* of the bytes: the invariants and the action property of VmeBuf, and     *)
(* that it implements ByteString.                                          *)
(***************************************************************************)
EXTENDS VmeBuf, VmeBufOpsProofs

-----------------------------------------------------------------------------
(* The inductive invariant: a buffer that is not allocated is the header   *)
(* vmebuf_ensure_size starts from, which the refinement relies on.         *)
Inv == TypeOK /\ InBounds /\ (~live => buf = NewHeader)

(* A program without a buffer satisfies the invariant.                     *)
LEMMA InitInv == Init => Inv
<1> SUFFICES ASSUME Init PROVE Inv
  OBVIOUS
<1>1. WellFormed(NewHeader)
  BY DEF NewHeader, WellFormed, Buffer
<1>2. << >> \in Seq(Byte \cup {NUL})
  OBVIOUS
<1>3. NewHeader \in Buffer
  BY <1>1 DEF WellFormed
<1> QED  BY <1>1, <1>2, <1>3 DEF Init, Inv, TypeOK, InBounds

(* Every call keeps the invariant.                                         *)
LEMMA NextInv == Inv /\ [Next]_vars => Inv'
<1> SUFFICES ASSUME Inv, [Next]_vars PROVE Inv'
  OBVIOUS
<1>0. WellFormed(buf) /\ buf \in Buffer /\ copy \in Seq(Byte \cup {NUL}) /\ live \in BOOLEAN
  BY DEF Inv, TypeOK, InBounds
<1>a. \A n \in 0 .. MaxBytes : n \in Nat
  BY MaxBytesAssumption
<1>1. ASSUME NEW n \in 0 .. MaxBytes, Alloc(n) PROVE Inv'
  <2>1. WellFormed(vmebuf_create(n))
    BY <1>1, <1>a, CreateIsEmpty
  <2> QED  BY <2>1, <1>0, <1>1 DEF Alloc, Inv, TypeOK, InBounds, WellFormed
<1>2. ASSUME NEW n \in 0 .. MaxBytes, EnsureIncr(n) PROVE Inv'
  <2>1. WellFormed(vmebuf_ensure_incr_size(buf, n))
    BY <1>0, <1>2, <1>a, EnsureIncrKeeps
  <2> QED  BY <2>1, <1>0, <1>2 DEF EnsureIncr, Inv, TypeOK, InBounds, WellFormed
<1>3. ASSUME NEW c \in Byte, Push(c) PROVE Inv'
  <2>1. WellFormed(vmebuf_push(buf, c))
    BY <1>0, <1>3, PushAppends
  <2> QED  BY <2>1, <1>0, <1>3 DEF Push, Inv, TypeOK, InBounds, WellFormed
<1>4. ASSUME NEW s \in Piece, Concat(s) PROVE Inv'
  <2>1. WellFormed(vmebuf_concat(buf, s))
    BY <1>0, <1>4, PieceAssumption, ConcatAppends
  <2> QED  BY <2>1, <1>0, <1>4 DEF Concat, Inv, TypeOK, InBounds, WellFormed
<1>5. CASE Truncate
  <2>1. WellFormed(vmebuf_truncate(buf))
    BY <1>0, TruncateEmpties
  <2> QED  BY <2>1, <1>0, <1>5 DEF Truncate, Inv, TypeOK, InBounds, WellFormed
<1>6. CASE ToStr
  <2>1. Contents(buf) \in Seq(Byte \cup {NUL})
    BY <1>0, ContentsType
  <2>2. vmebuf_tostr(buf) \in Seq(Byte \cup {NUL})
    BY <2>1 DEF vmebuf_tostr
  <2> QED  BY <2>2, <1>0, <1>6 DEF ToStr, Inv, TypeOK, InBounds
<1>7. CASE Dealloc
  <2>1. WellFormed(NewHeader)
    BY DEF NewHeader, WellFormed, Buffer
  <2> QED  BY <2>1, <1>0, <1>7 DEF Dealloc, Inv, TypeOK, InBounds, WellFormed
<1>8. CASE UNCHANGED vars
  BY <1>8 DEF vars, Inv, TypeOK, InBounds
<1> QED  BY <1>1, <1>2, <1>3, <1>4, <1>5, <1>6, <1>7, <1>8 DEF Next

(* The invariant holds whatever calls are made.                            *)
LEMMA Invariance == Spec => []Inv
  BY InitInv, NextInv, PTL DEF Spec

(* Every field has its type, for all sizes and bytes.                      *)
THEOREM TypeCorrect == Spec => []TypeOK
<1>1. Inv => TypeOK
  BY DEF Inv
<1> QED  BY <1>1, Invariance, PTL

(* No sequence of calls ever uses a byte outside the allocation or one     *)
(* that a reallocation left unassigned: the assertions of buf.c hold.      *)
THEOREM AlwaysInBounds == Spec => []InBounds
<1>1. Inv => InBounds
  BY DEF Inv
<1> QED  BY <1>1, Invariance, PTL

(* The memory of an outlier is given back by the first append that leaves  *)
(* the contents short, for all sizes.                                      *)
THEOREM OutliersReleased == Spec => OutlierReleased
<1> DEFINE Released ==
             (live /\ live' /\ buf'.len > buf.len
                /\ 2 * buf'.len + MIN_BUF_SIZE <= SML_BUF_SIZE)
             => buf'.limit < LRG_BUF_SIZE
<1>1. Inv /\ [Next]_vars => [Released]_vars
  <2> SUFFICES ASSUME Inv, [Next]_vars PROVE [Released]_vars
    OBVIOUS
  <2>0. WellFormed(buf) /\ buf.len \in Nat /\ buf.limit \in Nat
    BY DEF Inv, InBounds, WellFormed, Buffer
  <2>a. \A n \in 0 .. MaxBytes : n \in Nat
    BY MaxBytesAssumption
  <2>1. ASSUME NEW n \in 0 .. MaxBytes, Alloc(n) PROVE Released
    BY <2>1 DEF Alloc
  <2>2. ASSUME NEW n \in 0 .. MaxBytes, EnsureIncr(n) PROVE Released
    BY <2>0, <2>2, <2>a, EnsureIncrKeeps DEF EnsureIncr
  <2>3. ASSUME NEW c \in Byte, Push(c) PROVE Released
    <3> SUFFICES ASSUME 2 * buf'.len + MIN_BUF_SIZE <= SML_BUF_SIZE
                 PROVE  buf'.limit < LRG_BUF_SIZE
      OBVIOUS
    <3>1. buf'.len = buf.len + 1
      BY <2>0, <2>3, PushAppends DEF Push
    <3>2. buf.len + MIN_BUF_SIZE \in Nat /\ buf.len + MIN_BUF_SIZE <= SML_BUF_SIZE
      BY <2>0, <3>1, BufSizesAssumption
    <3>3. vmebuf_ensure_size(buf, buf.len + MIN_BUF_SIZE).limit < LRG_BUF_SIZE
      BY <2>0, <3>2, EnsureSizeReleases
    <3> QED  BY <2>3, <3>3 DEF Push, vmebuf_push, Store
  <2>4. ASSUME NEW s \in Piece, Concat(s) PROVE Released
    <3> SUFFICES ASSUME 2 * buf'.len + MIN_BUF_SIZE <= SML_BUF_SIZE
                 PROVE  buf'.limit < LRG_BUF_SIZE
      OBVIOUS
    <3> DEFINE n == buf.len + Len(s) + Len(s) \div 2
    <3>1. buf'.len = buf.len + Len(s) /\ Len(s) \in Nat
      BY <2>0, <2>4, PieceAssumption, ConcatAppends DEF Concat
    <3>2. n \in Nat /\ n <= SML_BUF_SIZE
      <4>1. Len(s) \div 2 \in Nat /\ Len(s) \div 2 <= Len(s)
        BY <3>1
      <4> QED  BY <4>1, <2>0, <3>1, BufSizesAssumption
    <3>3. vmebuf_ensure_size(buf, n).limit < LRG_BUF_SIZE
      BY <2>0, <3>2, EnsureSizeReleases
    <3> QED  BY <2>4, <3>3 DEF Concat, vmebuf_concat, Store
  <2>5. CASE Truncate
    BY <2>0, <2>5 DEF Truncate, vmebuf_truncate
  <2>6. CASE ToStr
    BY <2>0, <2>6 DEF ToStr
  <2>7. CASE Dealloc
    BY <2>7 DEF Dealloc
  <2>8. CASE UNCHANGED vars
    BY <2>8
  <2> QED  BY <2>1, <2>2, <2>3, <2>4, <2>5, <2>6, <2>7, <2>8 DEF Next
<1> QED  BY <1>1, Invariance, PTL DEF Spec, OutlierReleased

-----------------------------------------------------------------------------
(* No buffer is the empty byte string.                                     *)
LEMMA InitRefines == Init => Abstract!Init
  BY DEF Init, Abstract!Init, NewHeader, Contents

(* Every call is a step of the byte string or a stutter.                   *)
LEMMA StepRefines == Inv /\ [Next]_vars => [Abstract!Next]_(Abstract!vars)
<1> SUFFICES ASSUME Inv, [Next]_vars PROVE [Abstract!Next]_(Abstract!vars)
  OBVIOUS
<1> USE DEF Abstract!Next, Abstract!vars
<1>0. WellFormed(buf) /\ (~live => buf = NewHeader) /\ Contents(NewHeader) = << >>
  BY DEF Inv, InBounds, NewHeader, Contents
<1>a. \A n \in 0 .. MaxBytes : n \in Nat
  BY MaxBytesAssumption
<1>1. ASSUME NEW n \in 0 .. MaxBytes, Alloc(n) PROVE Abstract!Create
  BY <1>0, <1>1, <1>a, CreateIsEmpty DEF Alloc, Abstract!Create
<1>2. ASSUME NEW n \in 0 .. MaxBytes, EnsureIncr(n) PROVE UNCHANGED Abstract!vars
  BY <1>0, <1>2, <1>a, EnsureIncrKeeps DEF EnsureIncr
<1>3. ASSUME NEW c \in Byte, Push(c) PROVE Abstract!Extend
  <2>1. Contents(buf)' = Contents(buf) \o <<c>>
    BY <1>0, <1>3, PushAppends DEF Push
  <2> QED  BY <2>1, <1>3 DEF Push, Abstract!Extend
<1>4. ASSUME NEW s \in Piece, Concat(s) PROVE Abstract!Extend
  <2>1. Contents(buf)' = Contents(buf) \o s
    BY <1>0, <1>4, PieceAssumption, ConcatAppends DEF Concat
  <2> QED  BY <2>1, <1>4 DEF Concat, Abstract!Extend
<1>5. CASE Truncate
  BY <1>0, <1>5, TruncateEmpties DEF Truncate, Abstract!Clear
<1>6. CASE ToStr
  BY <1>6 DEF ToStr, vmebuf_tostr, Abstract!Copy
<1>7. CASE Dealloc
  BY <1>0, <1>7 DEF Dealloc, Abstract!Destroy
<1>8. CASE UNCHANGED vars
  BY <1>8 DEF vars
<1> QED  BY <1>1, <1>2, <1>3, <1>4, <1>5, <1>6, <1>7, <1>8 DEF Next

(* The buffer implements a byte string that only grows at its end, is      *)
(* emptied and is copied, for all sizes: growing and shrinking is unseen.  *)
THEOREM Refinement == Spec => ImplementsByteString
<1>1. Spec => Abstract!Init /\ [][Abstract!Next]_(Abstract!vars)
  BY InitRefines, StepRefines, Invariance, PTL DEF Spec
<1> QED  BY <1>1 DEF ImplementsByteString, Abstract!Spec
=============================================================================

-------------------------- MODULE VmeBufOpsProofs --------------------------
(***************************************************************************)
(* What each operator of VmeBufOps does to the contents of a well-formed   *)
(* buffer, for every value of the sizes and of the bytes.                  *)
(***************************************************************************)
EXTENDS VmeBufOps, SequenceTheorems, TLAPS

(* A reallocation to at least the bytes in use keeps every one of them.    *)
LEMMA ResizeKeeps ==
  ASSUME NEW b, WellFormed(b), NEW n \in Nat, b.len <= n
  PROVE  /\ WellFormed(Resize(b, n))
         /\ Resize(b, n).len = b.len
         /\ Resize(b, n).limit = n
         /\ Contents(Resize(b, n)) = Contents(b)
<1> DEFINE d == Realloc(b.data, n)
<1>1. b \in Buffer /\ Len(b.data) = b.limit /\ b.len <= b.limit
      /\ \A i \in 1 .. b.len : b.data[i] \in Byte
  BY DEF WellFormed
<1>2. b.len \in Nat /\ b.limit \in Nat /\ b.data \in Seq(Cell)
  BY <1>1 DEF Buffer
<1>3. d \in Seq(Cell) /\ Len(d) = n
  <2>1. \A i \in 1 .. n : (IF i <= Len(b.data) THEN b.data[i] ELSE Junk) \in Cell
    BY <1>2 DEF Cell
  <2> QED  BY <2>1 DEF Realloc
<1>4. \A i \in 1 .. b.len : d[i] = b.data[i]
  BY <1>1, <1>2 DEF Realloc
<1>5. Resize(b, n) = [len |-> b.len, limit |-> n, data |-> d]
  BY DEF Resize
<1>6. WellFormed(Resize(b, n))
  BY <1>1, <1>2, <1>3, <1>4, <1>5 DEF WellFormed, Buffer
<1>7. SubSeq(d, 1, b.len) = SubSeq(b.data, 1, b.len)
  BY <1>1, <1>2, <1>3, <1>4
<1> HIDE DEF d
<1> QED  BY <1>2, <1>3, <1>5, <1>6, <1>7 DEF Contents

(* vmebuf_ensure_size, asked for at least the bytes in use, makes the room *)
(* asked for and loses none of them, whether it grows, shrinks or neither. *)
LEMMA EnsureSizeKeeps ==
  ASSUME NEW b, WellFormed(b), NEW n \in Nat, b.len <= n
  PROVE  /\ WellFormed(vmebuf_ensure_size(b, n))
         /\ vmebuf_ensure_size(b, n).len = b.len
         /\ n <= vmebuf_ensure_size(b, n).limit
         /\ Contents(vmebuf_ensure_size(b, n)) = Contents(b)
<1> DEFINE m == IF n < MIN_BUF_SIZE THEN MIN_BUF_SIZE ELSE n
<1>1. m \in Nat /\ n <= m /\ b.len <= m
  BY BufSizesAssumption DEF WellFormed, Buffer
<1>2. vmebuf_ensure_size(b, n) = IF MustRealloc(b, m) THEN Resize(b, m) ELSE b
  BY DEF vmebuf_ensure_size
<1> HIDE DEF m
<1>3. CASE MustRealloc(b, m)
  BY <1>1, <1>2, <1>3, ResizeKeeps
<1>4. CASE ~MustRealloc(b, m)
  <2>1. m <= b.limit
    BY <1>1, <1>4 DEF MustRealloc, WellFormed, Buffer
  <2> QED  BY <1>1, <1>2, <1>4, <2>1 DEF WellFormed, Buffer
<1> QED  BY <1>3, <1>4

(* Bytes stored where there is room for them are appended to the contents. *)
LEMMA StoreAppends ==
  ASSUME NEW b, WellFormed(b), NEW s \in Seq(Byte), b.len + Len(s) <= b.limit
  PROVE  /\ WellFormed(Store(b, s))
         /\ Store(b, s).len = b.len + Len(s)
         /\ Store(b, s).limit = b.limit
         /\ Contents(Store(b, s)) = Contents(b) \o s
<1> DEFINE d == [i \in 1 .. b.limit |->
                   IF i > b.len /\ i <= b.len + Len(s) THEN s[i - b.len] ELSE b.data[i]]
<1>1. b.len \in Nat /\ b.limit \in Nat /\ b.data \in Seq(Cell) /\ Len(s) \in Nat
      /\ Len(b.data) = b.limit /\ b.len <= b.limit
      /\ \A i \in 1 .. b.len : b.data[i] \in Byte
  BY DEF WellFormed, Buffer
<1>2. d \in Seq(Cell) /\ Len(d) = b.limit
  <2>1. \A i \in 1 .. b.limit : d[i] \in Cell
    BY <1>1 DEF Cell
  <2>2. d \in [1 .. b.limit -> Cell]
    BY <2>1
  <2> HIDE DEF d
  <2>3. d \in Seq(Cell)
    BY <2>2, <1>1, SeqDef
  <2>4. 1 .. Len(d) = 1 .. b.limit /\ Len(d) \in Nat
    BY <2>2, <2>3, LenProperties
  <2> QED  BY <2>3, <2>4, <1>1
<1>3. \A i \in 1 .. b.len : d[i] = b.data[i]
  BY <1>1
<1>4. \A i \in 1 .. Len(s) : d[b.len + i] = s[i]
  BY <1>1
<1>5. Store(b, s) = [len |-> b.len + Len(s), limit |-> b.limit, data |-> d]
  BY DEF Store
<1> HIDE DEF d
<1>6. \A i \in 1 .. b.len + Len(s) : d[i] \in Byte
  <2> TAKE i \in 1 .. b.len + Len(s)
  <2>1. CASE i <= b.len
    BY <2>1, <1>1, <1>3
  <2>2. CASE i > b.len
    <3>1. i - b.len \in 1 .. Len(s) /\ i = b.len + (i - b.len)
      BY <2>2, <1>1
    <3> QED  BY <3>1, <1>4
  <2> QED  BY <2>1, <2>2, <1>1
<1>7. WellFormed(Store(b, s))
  BY <1>1, <1>2, <1>5, <1>6 DEF WellFormed, Buffer
<1>8. Contents(Store(b, s)) = Contents(b) \o s
  <2> DEFINE c == Contents(b)
             e == SubSeq(d, 1, b.len + Len(s))
             t == c \o s
  <2>1. Contents(Store(b, s)) = e
    BY <1>1, <1>2, <1>5 DEF Contents
  <2>2. /\ c \in Seq(Cell) /\ Len(c) = b.len
        /\ \A i \in 1 .. b.len : c[i] = b.data[i]
    BY <1>1 DEF Contents
  <2>3. /\ e \in Seq(Cell) /\ Len(e) = b.len + Len(s)
        /\ \A i \in 1 .. b.len + Len(s) : e[i] = d[i]
    BY <1>1, <1>2
  <2>4. s \in Seq(Cell)
    BY DEF Cell
  <2> HIDE DEF c, e
  <2>5. /\ t \in Seq(Cell)
        /\ Len(t) = b.len + Len(s)
        /\ \A i \in 1 .. b.len + Len(s) :
             t[i] = IF i <= b.len THEN c[i] ELSE s[i - b.len]
    <3>1. /\ c \o s \in Seq(Cell)
          /\ Len(c \o s) = Len(c) + Len(s)
          /\ \A i \in 1 .. Len(c) + Len(s) :
               (c \o s)[i] = IF i <= Len(c) THEN c[i] ELSE s[i - Len(c)]
      BY <2>2, <2>4, ConcatProperties
    <3> QED  BY <3>1, <2>2 DEF t
  <2> HIDE DEF t
  <2>6. ASSUME NEW i \in 1 .. b.len + Len(s)
        PROVE  e[i] = t[i]
    <3>1. CASE i <= b.len
      BY <3>1, <2>6, <2>2, <2>3, <2>5, <1>1, <1>3
    <3>2. CASE i > b.len
      <4>1. i - b.len \in 1 .. Len(s) /\ i = b.len + (i - b.len)
        BY <3>2, <2>6, <1>1
      <4>2. d[b.len + (i - b.len)] = s[i - b.len]
        BY <4>1, <1>4
      <4> QED  BY <4>1, <4>2, <3>2, <2>6, <2>3, <2>5, <1>1
    <3> QED  BY <3>1, <3>2, <2>6, <1>1
  <2> QED  BY <2>1, <2>3, <2>5, <2>6, SeqEqual DEF c, t
<1> QED  BY <1>1, <1>5, <1>7, <1>8

(* The bytes in use of a well-formed buffer are a string of that length.   *)
LEMMA ContentsType ==
  ASSUME NEW b, WellFormed(b)
  PROVE  Contents(b) \in Seq(Byte) /\ Len(Contents(b)) = b.len
<1>1. b.len \in Nat /\ \A i \in 1 .. b.len : b.data[i] \in Byte
  BY DEF WellFormed, Buffer
<1>2. SubSeq(b.data, 1, b.len) \in Seq(Byte)
      /\ Len(SubSeq(b.data, 1, b.len)) = IF 1 <= b.len THEN b.len - 1 + 1 ELSE 0
  BY <1>1, SubSeqProperties
<1> QED  BY <1>1, <1>2 DEF Contents

(* vmebuf_push appends the byte, whatever the allocation was.              *)
LEMMA PushAppends ==
  ASSUME NEW b, WellFormed(b), NEW c \in Byte
  PROVE  /\ WellFormed(vmebuf_push(b, c))
         /\ vmebuf_push(b, c).len = b.len + 1
         /\ Contents(vmebuf_push(b, c)) = Contents(b) \o <<c>>
<1> DEFINE e == vmebuf_ensure_size(b, b.len + MIN_BUF_SIZE)
<1>1. b.len \in Nat /\ b.len + MIN_BUF_SIZE \in Nat /\ b.len + 1 <= b.len + MIN_BUF_SIZE
  BY BufSizesAssumption DEF WellFormed, Buffer
<1>2. WellFormed(e) /\ e.len = b.len /\ b.len + MIN_BUF_SIZE <= e.limit
      /\ Contents(e) = Contents(b)
  BY <1>1, EnsureSizeKeeps
<1>3. <<c>> \in Seq(Byte) /\ Len(<<c>>) = 1
  OBVIOUS
<1>4. e.len + Len(<<c>>) <= e.limit
  BY <1>1, <1>2, <1>3, BufSizesAssumption DEF WellFormed, Buffer
<1> HIDE DEF e
<1>5. /\ WellFormed(Store(e, <<c>>)) /\ Store(e, <<c>>).len = e.len + Len(<<c>>)
      /\ Contents(Store(e, <<c>>)) = Contents(e) \o <<c>>
  BY <1>2, <1>3, <1>4, StoreAppends
<1>6. vmebuf_push(b, c) = Store(e, <<c>>)
  BY DEF vmebuf_push, e
<1> QED  BY <1>2, <1>3, <1>5, <1>6

(* vmebuf_concat appends the bytes given, whatever the allocation was.     *)
LEMMA ConcatAppends ==
  ASSUME NEW b, WellFormed(b), NEW s \in Seq(Byte)
  PROVE  /\ WellFormed(vmebuf_concat(b, s))
         /\ vmebuf_concat(b, s).len = b.len + Len(s)
         /\ Contents(vmebuf_concat(b, s)) = Contents(b) \o s
<1> DEFINE n == b.len + Len(s) + Len(s) \div 2
           e == vmebuf_ensure_size(b, n)
<1>1. b.len \in Nat /\ Len(s) \in Nat
  BY DEF WellFormed, Buffer
<1>2. n \in Nat /\ b.len <= n /\ b.len + Len(s) <= n
  <2>1. Len(s) \div 2 \in Nat
    BY <1>1
  <2> QED  BY <2>1, <1>1
<1> HIDE DEF n
<1>3. WellFormed(e) /\ e.len = b.len /\ n <= e.limit /\ Contents(e) = Contents(b)
  BY <1>2, EnsureSizeKeeps
<1>4. e.len + Len(s) <= e.limit
  BY <1>1, <1>2, <1>3 DEF WellFormed, Buffer
<1> HIDE DEF e
<1>5. /\ WellFormed(Store(e, s)) /\ Store(e, s).len = e.len + Len(s)
      /\ Contents(Store(e, s)) = Contents(e) \o s
  BY <1>3, <1>4, StoreAppends
<1>6. vmebuf_concat(b, s) = Store(e, s)
  BY DEF vmebuf_concat, e, n
<1> QED  BY <1>3, <1>5, <1>6

(* A new buffer is empty and has room.                                     *)
LEMMA CreateIsEmpty ==
  ASSUME NEW n \in Nat
  PROVE  /\ WellFormed(vmebuf_create(n))
         /\ vmebuf_create(n).len = 0
         /\ Contents(vmebuf_create(n)) = << >>
<1>1. WellFormed(NewHeader) /\ NewHeader.len = 0 /\ Contents(NewHeader) = << >>
  BY DEF NewHeader, WellFormed, Buffer, Contents
<1> QED  BY <1>1, EnsureSizeKeeps DEF vmebuf_create

(* A truncation keeps the allocation and forgets the contents.             *)
LEMMA TruncateEmpties ==
  ASSUME NEW b, WellFormed(b)
  PROVE  /\ WellFormed(vmebuf_truncate(b))
         /\ vmebuf_truncate(b).len = 0
         /\ Contents(vmebuf_truncate(b)) = << >>
  BY DEF vmebuf_truncate, WellFormed, Buffer, Contents

(* vmebuf_ensure_incr_size leaves the contents alone.                      *)
LEMMA EnsureIncrKeeps ==
  ASSUME NEW b, WellFormed(b), NEW n \in Nat
  PROVE  /\ WellFormed(vmebuf_ensure_incr_size(b, n))
         /\ vmebuf_ensure_incr_size(b, n).len = b.len
         /\ Contents(vmebuf_ensure_incr_size(b, n)) = Contents(b)
<1>1. b.len \in Nat /\ b.len + n \in Nat /\ b.len <= b.len + n
  BY DEF WellFormed, Buffer
<1> QED  BY <1>1, EnsureSizeKeeps DEF vmebuf_ensure_incr_size

(* Asked for little, vmebuf_ensure_size never keeps the memory of an       *)
(* outlier.                                                                *)
LEMMA EnsureSizeReleases ==
  ASSUME NEW b, b.limit \in Nat, NEW n \in Nat, n <= SML_BUF_SIZE
  PROVE  vmebuf_ensure_size(b, n).limit < LRG_BUF_SIZE
<1> DEFINE m == IF n < MIN_BUF_SIZE THEN MIN_BUF_SIZE ELSE n
<1>1. m \in Nat /\ m <= SML_BUF_SIZE /\ m < LRG_BUF_SIZE
  BY BufSizesAssumption
<1>2. vmebuf_ensure_size(b, n) = IF MustRealloc(b, m) THEN Resize(b, m) ELSE b
  BY DEF vmebuf_ensure_size
<1> HIDE DEF m
<1>3. CASE MustRealloc(b, m)
  BY <1>1, <1>2, <1>3 DEF Resize
<1>4. CASE ~MustRealloc(b, m)
  BY <1>1, <1>2, <1>4, BufSizesAssumption DEF MustRealloc
<1> QED  BY <1>3, <1>4
=============================================================================

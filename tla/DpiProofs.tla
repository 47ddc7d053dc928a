----------------------------- MODULE DpiProofs -----------------------------
(***************************************************************************)
(* What vipo gathers from its socket, for every size of its buffer, every  *)
(* message, and every way the stream is cut up: no byte is lost, the       *)
(* terminator has its cell, and nothing is acknowledged or published but a *)
(* beginning of what was sent.                                             *)
(***************************************************************************)
EXTENDS Dpi, VmeBufOpsProofs

(* Before a message is there, none is acknowledged or published; one that  *)
(* is there has a byte; what is published afterwards is the one that was   *)
(* acknowledged.                                                           *)
Progress ==
  /\ pc = "connect" => sent = << >> /\ socket = << >>
  /\ pc = "connect" \/ Fetching => ~acked /\ msg = << >> /\ published = << >>
  /\ pc = "received" => buf.len > 0
  /\ pc = "publish" => published = << >> /\ (msg # << >> => acked)
  /\ msg # << >> => Front(msg) \in Seq(Byte)

Inv == TypeOK /\ StreamKept /\ RoomForTerminator /\ OnlyWhatWasSent /\ Progress

-----------------------------------------------------------------------------
(* A stream is what is read of it and the rest. *)
LEMMA ReadAndRest ==
  ASSUME NEW s \in Seq(Byte), NEW n \in 0 .. Len(s)
  PROVE  /\ SubSeq(s, 1, n) \in Seq(Byte) /\ Len(SubSeq(s, 1, n)) = n
         /\ SubSeq(s, n + 1, Len(s)) \in Seq(Byte)
         /\ SubSeq(s, 1, n) \o SubSeq(s, n + 1, Len(s)) = s
<1>1. \A i \in 1 .. Len(s) : s[i] \in Byte
  OBVIOUS
<1>2. SubSeq(s, 1, n) \in Seq(Byte) /\ Len(SubSeq(s, 1, n)) = n
  BY <1>1, SubSeqProperties
<1>3. SubSeq(s, n + 1, Len(s)) \in Seq(Byte)
  BY <1>1, SubSeqProperties
<1>4. SubSeq(s, 1, n) \o SubSeq(s, n + 1, Len(s)) = SubSeq(s, 1, Len(s))
  <2>1. Len(s) \in Nat /\ 1 \in 1 .. Len(s) + 1 /\ n \in 1 - 1 .. Len(s) /\ Len(s) \in n .. Len(s)
    OBVIOUS
  <2> QED
    BY <2>1, ConcatAdjacentSubSeq
<1> QED
  BY <1>2, <1>3, <1>4, SubSeqFull

LEMMA Associative ==
  \A s, t, u \in Seq(Byte) : (s \o t) \o u = s \o (t \o u)
BY ConcatAssociative

LEMMA FrontOfAppend ==
  ASSUME NEW S, NEW s \in Seq(S), NEW e
  PROVE  Front(Append(s, e)) = s
<1> DEFINE T == S \cup {e}
           a == Append(s, e)
<1>1. s \in Seq(T) /\ e \in T
  OBVIOUS
<1>2. a \in Seq(T) /\ Len(a) = Len(s) + 1 /\ \A i \in 1 .. Len(s) : a[i] = s[i]
  BY <1>1, AppendProperties
<1>3. Len(s) \in Nat /\ Front(a) = SubSeq(a, 1, Len(s))
  BY <1>2 DEF Front
<1>4. /\ SubSeq(a, 1, Len(s)) \in Seq(T) /\ Len(SubSeq(a, 1, Len(s))) = Len(s)
      /\ \A i \in 1 .. Len(s) : SubSeq(a, 1, Len(s))[i] = s[i]
  <2> HIDE DEF a, T
  <2>1. \A i \in 1 .. Len(s) : a[i] \in T
    BY <1>1, <1>2, <1>3
  <2> QED
    BY <1>2, <1>3, <2>1, SubSeqProperties
<1> HIDE DEF a, T
<1>5. SubSeq(a, 1, Len(s)) = s
  BY <1>1, <1>4, SeqEqual
<1> QED
  BY <1>3, <1>5 DEF a

(* What was a beginning of the stream stays one. *)
LEMMA PrefixOfConcat ==
  ASSUME NEW s \in Seq(Byte), NEW t \in Seq(Byte), NEW u \in Seq(Byte), IsPrefix(s, t)
  PROVE  IsPrefix(s, t \o u)
<1>1. t \o u \in Seq(Byte) /\ Len(t \o u) = Len(t) + Len(u) /\ Len(s) <= Len(t)
      /\ \A i \in 1 .. Len(t) : (t \o u)[i] = t[i]
  BY ConcatProperties DEF IsPrefix
<1>2. CASE s = << >>
  BY <1>1, <1>2 DEF IsPrefix
<1>3. CASE s # << >>
  <2>1. 1 \in 1 .. Len(t) /\ Len(s) \in 1 .. Len(t)
    BY <1>1, <1>3
  <2>2. SubSeq(t \o u, 1, Len(s)) = SubSeq(t, 1, Len(s))
    BY <2>1, SubSeqOfConcat1
  <2> QED
    BY <1>1, <2>2 DEF IsPrefix
<1> QED
  BY <1>2, <1>3

LEMMA PrefixOfWhole ==
  ASSUME NEW s \in Seq(Byte), NEW u \in Seq(Byte)
  PROVE  IsPrefix(s, s \o u)
<1>1. IsPrefix(s, s)
  BY DEF IsPrefix
<1> QED
  BY <1>1, PrefixOfConcat

-----------------------------------------------------------------------------
LEMMA InitInv == Init => Inv
<1> SUFFICES ASSUME Init PROVE Inv
  OBVIOUS
<1>1. WellFormed(buf)
  BY DEF Init, NewHeader, WellFormed, Buffer
<1>2. TypeOK
  <2>1. /\ pc = "connect" /\ msg \in Seq(Byte \cup {NUL}) /\ published \in Seq(Byte)
        /\ sent \in Seq(Byte) /\ socket \in Seq(Byte)
    BY DEF Init
  <2>2. writes \in 0 .. MaxSent
    BY DpiAssumption DEF Init
  <2>3. acked \in BOOLEAN /\ closed \in BOOLEAN
    BY DEF Init
  <2> QED
    BY <1>1, <2>1, <2>2, <2>3 DEF TypeOK
<1>3. StreamKept /\ RoomForTerminator /\ OnlyWhatWasSent /\ Progress
  BY DEF Init, StreamKept, RoomForTerminator, OnlyWhatWasSent, Progress, Fetching
<1> QED
  BY <1>2, <1>3 DEF Inv

LEMMA WritesInv == Inv /\ DpiWrites => Inv'
<1> SUFFICES ASSUME Inv, NEW m \in Message \cup {PROT_EOT},
                    pc # "connect", writes < MaxSent, writes' = writes + 1,
                    sent' = sent \o m, socket' = socket \o m,
                    UNCHANGED <<pc, buf, msg, published, acked, closed>>
             PROVE  Inv'
  BY DEF DpiWrites
<1>1. m \in Seq(Byte) /\ sent \in Seq(Byte) /\ socket \in Seq(Byte) /\ Contents(buf) \in Seq(Byte)
  BY DpiAssumption, ContentsType DEF Inv, TypeOK
<1>2. sent' \in Seq(Byte) /\ socket' \in Seq(Byte)
  BY <1>1, ConcatProperties
<1>3. TypeOK'
  <2>1. WellFormed(buf') /\ writes' \in 0 .. MaxSent
    BY DpiAssumption DEF Inv, TypeOK
  <2> QED
    BY <1>2, <2>1 DEF Inv, TypeOK
<1>4. StreamKept'
  <2>1. (Contents(buf) \o socket) \o m = Contents(buf) \o (socket \o m)
    BY <1>1, Associative
  <2> QED
    BY <2>1 DEF Inv, StreamKept, Fetching, Contents
<1>5. OnlyWhatWasSent'
  <2>1. acked => Front(msg) \in Seq(Byte) /\ IsPrefix(Front(msg), sent')
    BY <1>1, PrefixOfConcat DEF Inv, OnlyWhatWasSent, Progress
  <2> QED
    BY <2>1 DEF Inv, OnlyWhatWasSent
<1> QED
  BY <1>3, <1>4, <1>5 DEF Inv, RoomForTerminator, Progress, Fetching

LEMMA ConnectInv == Inv /\ Connect => Inv'
<1> SUFFICES ASSUME Inv, Connect PROVE Inv'
  OBVIOUS
<1>1. WellFormed(vmebuf_create(INITBUFSIZE)) /\ Contents(vmebuf_create(INITBUFSIZE)) = << >>
  BY DpiAssumption, CreateIsEmpty
<1>2. pc = "connect" /\ sent = << >> /\ socket = << >> /\ UNCHANGED <<msg, published, acked, dpi>>
  BY DEF Connect, Inv, Progress
<1>3. CASE pc' = "select" /\ buf' = vmebuf_create(INITBUFSIZE)
  BY <1>1, <1>2, <1>3 DEF Inv, TypeOK, StreamKept, RoomForTerminator, OnlyWhatWasSent, Progress,
     Fetching, dpi
<1>4. CASE pc' = "exit" /\ UNCHANGED buf
  BY <1>2, <1>4 DEF Inv, TypeOK, StreamKept, RoomForTerminator, OnlyWhatWasSent, Progress,
     Fetching, dpi
<1> QED
  BY <1>3, <1>4 DEF Connect

(* The bytes received go behind those that are there: buffer and stream    *)
(* together stay what they were.                                           *)
LEMMA StoredKeeps ==
  ASSUME NEW b, WellFormed(b), NEW s \in Seq(Byte), NEW n \in 0 .. Len(s), n <= b.limit - b.len
  PROVE  LET read == Store(b, SubSeq(s, 1, n))
             rest == SubSeq(s, n + 1, Len(s))
         IN  /\ WellFormed(read) /\ read.len = b.len + n /\ read.limit = b.limit
             /\ rest \in Seq(Byte)
             /\ Contents(read) \o rest = Contents(b) \o s
<1> DEFINE rest == SubSeq(s, n + 1, Len(s))
<1>1. Contents(b) \in Seq(Byte)
  BY ContentsType
<1>2. PICK got \in Seq(Byte) : /\ got = SubSeq(s, 1, n) /\ Len(got) = n
                             /\ rest \in Seq(Byte) /\ got \o rest = s
  BY ReadAndRest
<1>3. b.len + Len(got) <= b.limit
  <2>1. b.len \in Nat /\ b.limit \in Nat /\ n \in Nat
    BY DEF WellFormed, Buffer
  <2> QED
    BY <1>2, <2>1
<1>4. /\ WellFormed(Store(b, got)) /\ Store(b, got).len = b.len + Len(got)
      /\ Store(b, got).limit = b.limit /\ Contents(Store(b, got)) = Contents(b) \o got
  BY <1>3, StoreAppends
<1>5. (Contents(b) \o got) \o rest = Contents(b) \o (got \o rest)
  BY <1>1, <1>2, Associative
<1> QED
  BY <1>2, <1>4, <1>5

LEMMA RecvInv == Inv /\ Recv => Inv'
<1> SUFFICES ASSUME Inv, pc = "recv", NEW n \in 0 .. Len(socket), n <= Avail,
                    NEW read, read = Store(buf, SubSeq(socket, 1, n)),
                    socket' = SubSeq(socket, n + 1, Len(socket)),
                    IF Full(n) THEN buf' = Grow(read) /\ UNCHANGED <<pc, msg, published>>
                    ELSE /\ buf' = read
                         /\ IF NothingCame(n) THEN Fetched(<< >>)
                            ELSE \E eot \in IsEot(n, read) :
                                   IF eot THEN Fetched(<< >>)
                                   ELSE pc' = "received" /\ UNCHANGED <<msg, published>>,
                    UNCHANGED <<acked, sent, writes, closed>>
             PROVE  Inv'
  BY DEF Recv
<1>1. /\ WellFormed(read) /\ read.len = buf.len + n /\ read.limit = buf.limit
      /\ socket' \in Seq(Byte) /\ Contents(read) \o socket' = sent
  <2>1. WellFormed(buf) /\ socket \in Seq(Byte) /\ Contents(buf) \o socket = sent
    BY DEF Inv, TypeOK, StreamKept, Fetching
  <2>2. n <= buf.limit - buf.len
    BY DEF Avail
  <2>3. LET r == Store(buf, SubSeq(socket, 1, n))
            rest == SubSeq(socket, n + 1, Len(socket))
        IN  /\ WellFormed(r) /\ r.len = buf.len + n /\ r.limit = buf.limit
            /\ rest \in Seq(Byte)
            /\ Contents(r) \o rest = Contents(buf) \o socket
    BY <2>1, <2>2, StoredKeeps
  <2> QED
    BY <2>1, <2>3
<1>2. ~acked /\ msg = << >> /\ published = << >>
  BY DEF Inv, Progress, Fetching
<1>3. msg' = << >> /\ published' = << >> /\ pc' \in {"recv", "received", "publish"}
  BY <1>2 DEF Fetched
<1>4. WellFormed(buf') /\ Contents(buf') = Contents(read)
  <2>1. CASE Full(n)
    <3>1. read.limit \in Nat /\ read.limit * 2 \in Nat /\ read.len <= read.limit * 2
      BY <1>1 DEF WellFormed, Buffer
    <3>2. WellFormed(Resize(read, read.limit * 2))
            /\ Contents(Resize(read, read.limit * 2)) = Contents(read)
      BY <1>1, <3>1, ResizeKeeps
    <3> QED
      BY <2>1, <3>2 DEF Grow
  <2>2. CASE ~Full(n)
    BY <1>1, <2>2
  <2> QED
    BY <2>1, <2>2
<1>5. pc' = "received" => buf'.len > 0 /\ buf'.len < buf'.limit
  <2>1. SUFFICES ASSUME pc' = "received" PROVE buf'.len > 0 /\ buf'.len < buf'.limit
    OBVIOUS
  <2>2. ~Full(n) /\ ~NothingCame(n) /\ buf' = read
    BY <2>1 DEF Fetched
  <2>3. buf.len \in Nat /\ buf.limit \in Nat /\ n \in Nat
    BY DEF Inv, TypeOK, WellFormed, Buffer
  <2> QED
    BY <1>1, <2>2, <2>3 DEF Full, NothingCame, Avail
<1>6. TypeOK'
  BY <1>1, <1>3, <1>4 DEF Inv, TypeOK
<1>7. StreamKept'
  <2>1. Contents(buf') \o socket' = sent'
    BY <1>1, <1>4
  <2> QED
    BY <2>1 DEF StreamKept, Contents
<1>8. OnlyWhatWasSent' /\ Progress' /\ RoomForTerminator'
  BY <1>2, <1>3, <1>5 DEF OnlyWhatWasSent, Progress, RoomForTerminator, Fetching
<1> QED
  BY <1>6, <1>7, <1>8 DEF Inv

LEMMA AcknowledgeInv == Inv /\ Acknowledge => Inv'
<1> SUFFICES ASSUME Inv, Acknowledge PROVE Inv'
  OBVIOUS
<1>1. /\ pc = "received" /\ acked' = TRUE /\ pc' = "publish" /\ msg' = Append(Contents(buf), NUL)
      /\ published' = << >> /\ UNCHANGED <<buf, sent, writes, socket, closed>>
  BY DEF Acknowledge, Fetched, vmebuf_tostr, Inv, Progress, Fetching, dpi
<1>2. /\ Contents(buf) \in Seq(Byte) /\ Len(Contents(buf)) = buf.len /\ buf.len > 0
      /\ socket \in Seq(Byte) /\ Contents(buf) \o socket = sent
  BY <1>1, ContentsType DEF Inv, TypeOK, Progress, StreamKept, Fetching
<1>3. Front(msg') = Contents(buf) /\ IsPrefix(Contents(buf), sent) /\ Contents(buf) # << >>
  <2>1. Front(Append(Contents(buf), NUL)) = Contents(buf)
    BY <1>2, FrontOfAppend
  <2>2. IsPrefix(Contents(buf), Contents(buf) \o socket)
    BY <1>2, PrefixOfWhole
  <2> QED
    BY <1>1, <1>2, <2>1, <2>2
<1>4. msg' \in Seq(Byte \cup {NUL}) /\ msg' # << >>
  <2>1. Contents(buf) \in Seq(Byte \cup {NUL}) /\ NUL \in Byte \cup {NUL}
    BY <1>2
  <2> QED
    BY <1>1, <2>1, AppendProperties
<1>5. TypeOK'
  BY <1>1, <1>4 DEF Inv, TypeOK
<1>6. OnlyWhatWasSent'
  BY <1>1, <1>3, <1>4 DEF OnlyWhatWasSent
<1>7. Progress'
  BY <1>1, <1>2, <1>3 DEF Progress, Fetching
<1> QED
  BY <1>1, <1>5, <1>6, <1>7 DEF Inv, StreamKept, RoomForTerminator, Fetching

LEMMA PublishInv == Inv /\ Publish => Inv'
<1> SUFFICES ASSUME Inv, Publish PROVE Inv'
  OBVIOUS
<1>1. pc = "publish" /\ pc' \in {"exit", "dead"} /\ UNCHANGED <<buf, msg, acked, dpi>>
  BY DEF Publish
<1>2. published' = published \/ (msg # << >> /\ acked /\ published' = Front(msg))
  BY <1>1 DEF Publish, Inv, Progress
<1>3. published' \in Seq(Byte) /\ (published' # << >> => acked /\ published' = Front(msg))
  BY <1>2 DEF Inv, TypeOK, OnlyWhatWasSent, Progress
<1>4. TypeOK'
  BY <1>1, <1>3 DEF Inv, TypeOK, dpi
<1>5. OnlyWhatWasSent'
  BY <1>1, <1>3 DEF Inv, OnlyWhatWasSent, dpi
<1> QED
  BY <1>1, <1>4, <1>5 DEF Inv, StreamKept, RoomForTerminator, Progress, Fetching, dpi

(* Waking up, giving up and aborting gather nothing. *)
LEMMA WaitInv ==
  ASSUME Inv, UNCHANGED <<buf, acked, published, dpi>>, pc \in {"select", "recv", "received"},
         pc' \in {"recv", "dead", "publish"}, msg' = << >>
  PROVE  Inv'
<1>1. TypeOK'
  BY DEF Inv, TypeOK, dpi
<1>2. StreamKept'
  BY DEF Inv, StreamKept, Fetching, Contents, dpi
<1> QED
  BY <1>1, <1>2 DEF Inv, RoomForTerminator, OnlyWhatWasSent, Progress, Fetching, dpi

LEMMA StepInv == Inv /\ [Next]_vars => Inv'
<1> SUFFICES ASSUME Inv, [Next]_vars PROVE Inv'
  OBVIOUS
<1>1. CASE DpiCloses
  BY <1>1 DEF DpiCloses, Inv, TypeOK, StreamKept, RoomForTerminator, OnlyWhatWasSent, Progress,
     Fetching, Contents
<1>2. CASE SelectReady
  BY <1>2, WaitInv DEF SelectReady, Inv, Progress, Fetching
<1>3. CASE SelectGivesUp
  BY <1>3, WaitInv DEF SelectGivesUp, Fetched
<1>4. CASE Aborts
  BY <1>4, WaitInv DEF Aborts, Inv, Progress, Fetching
<1>5. CASE UNCHANGED vars
  BY <1>5 DEF vars, Inv, TypeOK, StreamKept, RoomForTerminator, OnlyWhatWasSent, Progress,
     Fetching, Contents
<1> QED
  BY <1>1, <1>2, <1>3, <1>4, <1>5, WritesInv, ConnectInv, RecvInv, AcknowledgeInv, PublishInv
     DEF Next, Vipo

(* The inductive invariant holds in every state of vipo (vipo.c, main).    *)
THEOREM Invariance == Spec => []Inv
<1>1. Init => Inv
  BY InitInv
<1>2. Inv /\ [Next]_vars => Inv'
  BY StepInv
<1> QED
  BY <1>1, <1>2, PTL DEF Spec

(* The variables of vipo have their types, and its buffer is well-formed,  *)
(* whatever the DPI writes (fetch_discovery_msg).                          *)
THEOREM TypeCorrect == Spec => []TypeOK
<1>1. Inv => TypeOK
  BY DEF Inv
<1> QED
  BY <1>1, Invariance, PTL

(* Over any number of receives and reallocations no byte of the stream is  *)
(* lost, doubled or moved (fetch_discovery_msg).                           *)
THEOREM StreamsKept == Spec => []StreamKept
<1>1. Inv => StreamKept
  BY DEF Inv
<1> QED
  BY <1>1, Invariance, PTL

(* When the loop ends with a message there is a cell for the terminator,   *)
(* for every first size of the buffer (fetch_discovery_msg).               *)
THEOREM TerminatorFits == Spec => []RoomForTerminator
<1>1. Inv => RoomForTerminator
  BY DEF Inv
<1> QED
  BY <1>1, Invariance, PTL

(* What is acknowledged is a beginning of the stream that is not empty,    *)
(* and what is published is what was acknowledged (main).                  *)
THEOREM OnlySentIsPublished == Spec => []OnlyWhatWasSent
<1>1. Inv => OnlyWhatWasSent
  BY DEF Inv
<1> QED
  BY <1>1, Invariance, PTL
=============================================================================

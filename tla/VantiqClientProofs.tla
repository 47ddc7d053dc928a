------------------------- MODULE VantiqClientProofs -------------------------
(***************************************************************************)
(* Theorems about VantiqClient for every size of buffers, every document,  *)
(* and every way in which libcurl and the server answer.                   *)
(***************************************************************************)
EXTENDS VantiqClient, VmeBufOpsProofs

(* What a call asks of the CURL handle are options, and the message is     *)
(* announced with its own length.                                          *)
LEMMA OptionsType ==
  ASSUME TypeOK
  PROVE  /\ DefaultOpts \in Options
         /\ common_curl_setup(http_hdrs) \in Options
         /\ common_curl_setup({"Authorization"}) \in Options
         /\ common_curl_setup(http_hdrs).source = "none"
         /\ common_curl_setup({"Authorization"}).source = "none"
<1>0. http_hdrs \subseteq Headers
  BY DEF TypeOK
<1>1. http_hdrs \subseteq Headers /\ {"Authorization"} \subseteq Headers
  BY <1>0 DEF Headers
<1>2. DefaultOpts \in Options
  BY DEF DefaultOpts, Options
<1>3. ASSUME NEW h \in SUBSET Headers
      PROVE  common_curl_setup(h) \in Options /\ common_curl_setup(h).source = "none"
  BY <1>2, <1>3 DEF common_curl_setup, Options, DefaultOpts
<1> QED  BY <1>1, <1>2, <1>3

(* A GET or DELETE has typed options, and they point to no message.        *)
LEMMA GetOptsType ==
  ASSUME TypeOK
  PROVE  /\ GetOpts \in Options /\ GetOpts.source = "none"
         /\ DeleteOpts \in Options /\ DeleteOpts.source = "none"
<1> DEFINE c == common_curl_setup(http_hdrs)
<1>1. c \in Options /\ c.source = "none"
  BY OptionsType
<1> HIDE DEF c
<1>2. DeleteOpts = [c EXCEPT !.verb = "DELETE", !.custom = TRUE] /\ GetOpts = c
  BY DEF DeleteOpts, GetOpts, c
<1>3. [c EXCEPT !.verb = "DELETE", !.custom = TRUE] \in Options
  BY <1>1 DEF Options
<1>4. [c EXCEPT !.verb = "DELETE", !.custom = TRUE].source = "none"
  BY <1>1 DEF Options
<1> QED  BY <1>1, <1>2, <1>3, <1>4

(* A PUT or POST of any document has typed options.                        *)
LEMMA UploadOptsType ==
  ASSUME TypeOK, NEW verb \in {"PUT", "POST"}, NEW m, WellFormed(m)
  PROVE  /\ UploadOpts(verb, m) \in Options /\ UploadOpts(verb, m).source = "read"
         /\ UploadOpts(verb, m).size = m.len
<1> DEFINE c == common_curl_setup(http_hdrs)
           o == [c EXCEPT !.verb = verb, !.source = "read", !.size = m.len, !.errbuf = TRUE]
<1>1. c \in Options /\ m.len \in Nat
  BY OptionsType DEF WellFormed, Buffer
<1> HIDE DEF c
<1>2. o \in Options /\ o.source = "read" /\ o.size = m.len
  BY <1>1 DEF Options
<1> QED  BY <1>2 DEF UploadOpts, c

(* So has a PATCH, whose document libcurl is given whole.                  *)
LEMMA PatchOptsType ==
  ASSUME TypeOK, NEW json \in Seq(Byte)
  PROVE  /\ PatchOpts(json) \in Options /\ PatchOpts(json).source = "fields"
         /\ PatchOpts(json).fields = json
<1> DEFINE c == common_curl_setup(http_hdrs)
           o == [c EXCEPT !.verb = "PATCH", !.custom = TRUE, !.source = "fields",
                          !.fields = json, !.errbuf = TRUE]
<1>1. c \in Options
  BY OptionsType
<1> HIDE DEF c
<1>2. o \in Options /\ o.source = "fields" /\ o.fields = json
  BY <1>1 DEF Options
<1> QED  BY <1>2 DEF PatchOpts, c

(* A transfer starts typed, with nothing sent and nothing received but the *)
(* count left.                                                             *)
LEMMA NewTransferType ==
  ASSUME NEW o \in Options, NEW left \in Nat
  PROVE  LET t == NewTransfer(o, left)
         IN  /\ t \in TransferState /\ t.sent = << >> /\ t.body = << >>
             /\ t.count = left /\ t.upload = o.source
             /\ t.phase = "request" /\ ~t.switched /\ ~t.eof
             /\ t.status = 0 /\ t.code = "OK"
  BY DEF NewTransfer, TransferState, Options

(* A message is a well-formed buffer that holds its document.              *)
LEMMA MessageHolds ==
  ASSUME NEW json \in Seq(Byte)
  PROVE  /\ WellFormed(NewMessage(json)) /\ NewMessage(json) # NULL
         /\ NewMessage(json).len = Len(json) /\ Contents(NewMessage(json)) = json
<1> DEFINE e == vmebuf_create(Len(json))
<1>1. Len(json) \in Nat
  OBVIOUS
<1>2. WellFormed(e) /\ e.len = 0 /\ Contents(e) = << >>
  BY <1>1, CreateIsEmpty
<1> HIDE DEF e
<1>3. /\ WellFormed(vmebuf_concat(e, json))
      /\ vmebuf_concat(e, json).len = e.len + Len(json)
      /\ Contents(vmebuf_concat(e, json)) = Contents(e) \o json
  BY <1>2, ConcatAppends
<1>4. << >> \o json = json
  BY ConcatEmptySeq
<1>5. NewMessage(json) = vmebuf_concat(e, json)
  BY DEF NewMessage, e
<1>6. WellFormed(NewMessage(json)) => NewMessage(json) # NULL
  BY NullAssumption DEF WellFormed
<1> QED  BY <1>1, <1>2, <1>3, <1>4, <1>5, <1>6

-----------------------------------------------------------------------------
(* A program without a handle satisfies the invariant.                     *)
LEMMA InitInv == Init => Inv
<1> SUFFICES ASSUME Init PROVE Inv
  OBVIOUS
<1> USE DEF Init
<1>1. WellFormed(NewHeader)
  BY DEF NewHeader, WellFormed, Buffer
<1>2. DefaultOpts \in Options /\ DefaultOpts.source = "none"
  BY DEF DefaultOpts, Options
<1>3. /\ net \in TransferState /\ net.sent = << >> /\ net.body = << >>
      /\ net.phase = "done" /\ net.upload = "none"
  <2> DEFINE t == NewTransfer(DefaultOpts, 0)
  <2>1. /\ t \in TransferState /\ t.sent = << >> /\ t.body = << >>
        /\ t.upload = "none"
    BY <1>2, NewTransferType
  <2> HIDE DEF t
  <2>2. net = [t EXCEPT !.phase = "done"]
    BY DEF t
  <2> QED  BY <2>1, <2>2 DEF TransferState
<1>4. << >> \in Seq(Byte) /\ Len(<< >>) = 0 /\ SubSeq(<< >>, 1, 0) = << >>
  OBVIOUS
<1>5. TypeOK
  BY <1>1, <1>2, <1>3, <1>4 DEF TypeOK, Call
<1>6. DocumentInv
  <2>1. pc = "none" /\ payload = << >>
    OBVIOUS
  <2> HIDE DEF Init
  <2> QED  BY <1>3, <1>4, <2>1 DEF DocumentInv
<1> QED  BY <1>3, <1>5, <1>6 DEF Inv, ReceiveInv, MessageInv, PhaseInv,
           QuiescentBetweenCalls, CallbackGetsBody, ResultFaithful, Returned

(* Between calls the count pending is a number, the one that is left.      *)
LEMMA CountLeftType ==
  ASSUME Inv, pc = "app"
  PROVE  CountLeft \in Nat /\ result_count = CountLeft
<1>1. net.count \in Nat
  BY DEF Inv, TypeOK, TransferState
<1> QED  BY <1>1 DEF CountLeft, Inv, QuiescentBetweenCalls

(* The calls without a document: nothing of an earlier exchange is left.   *)
LEMMA StartWithoutDocument ==
  ASSUME Inv, pc # "curl", NEW c \in Call, c \notin {"put", "post"},
         NEW o \in Options, o.source = "none", NEW left \in Nat,
         Perform(c, << >>, o, left),
         WellFormed(recv_buf'), Contents(recv_buf)' = << >>, result_count' = left,
         recv_callback' = (c = "get_callback"), http_hdrs' \subseteq Headers,
         send_state' \in [readptr : Nat, sizeleft : Nat], UNCHANGED <<msg, result>>
  PROVE  Inv'
<1>1. /\ net' \in TransferState /\ net'.sent = << >> /\ net'.body = << >>
      /\ net'.count = left /\ net'.upload = "none" /\ net'.phase = "request"
      /\ net'.status = 0 /\ net'.code = "OK"
  BY NewTransferType DEF Perform
<1>2. /\ pc' = "curl" /\ call' = c /\ payload' = << >> /\ opts' = o
      /\ given' = << >> /\ stalled' = FALSE
  BY DEF Perform
<1>3. << >> \in Seq(Byte) /\ Len(<< >>) = 0
  OBVIOUS
<1>4. TypeOK'
  BY <1>1, <1>2, <1>3 DEF Inv, TypeOK
<1>5. ReceiveInv'
  BY <1>1, <1>2 DEF ReceiveInv, Kept
<1>6. MessageInv'
  BY <1>1, <1>2 DEF Inv, MessageInv
<1>7. DocumentInv'
  BY <1>1, <1>2, <1>3 DEF DocumentInv
<1> QED  BY <1>1, <1>2, <1>4, <1>5, <1>6, <1>7
         DEF Inv, PhaseInv, QuiescentBetweenCalls, CallbackGetsBody, ResultFaithful, Returned

(* vc_init starts its authentication with a new, empty handle.             *)
LEMMA vc_initInv == ASSUME Inv, vc_init PROVE Inv'
<1>1. WellFormed(recv_buf') /\ Contents(recv_buf)' = << >>
  BY CreateIsEmpty DEF vc_init
<1>2. common_curl_setup({"Authorization"}) \in Options
      /\ common_curl_setup({"Authorization"}).source = "none"
  BY OptionsType DEF Inv
<1> DEFINE o == common_curl_setup({"Authorization"})
<1>3. /\ http_hdrs' \subseteq Headers /\ send_state' \in [readptr : Nat, sizeleft : Nat]
      /\ result_count' = 0 /\ recv_callback' = ("authenticate" = "get_callback")
      /\ pc # "curl" /\ Perform("authenticate", << >>, o, 0) /\ UNCHANGED <<msg, result>>
  BY DEF vc_init, Headers
<1>4. "authenticate" \in Call \ {"put", "post"}
  BY DEF Call
<1> HIDE DEF o
<1> QED  BY <1>1, <1>2, <1>3, <1>4, StartWithoutDocument DEF o

(* Whatever the options, _getordelete starts with an empty buffer.         *)
LEMMA GetOrDeleteInv ==
  ASSUME Inv, pc = "app", NEW c \in {"get", "get_callback", "delete"},
         NEW o \in Options, o.source = "none", getordelete(c, o),
         recv_callback' = (c = "get_callback")
  PROVE  Inv'
<1>1. WellFormed(recv_buf') /\ Contents(recv_buf)' = << >>
  BY TruncateEmpties DEF getordelete, Inv, TypeOK
<1>2. CountLeft \in Nat /\ result_count' = CountLeft
  BY CountLeftType DEF getordelete
<1>3. http_hdrs' \subseteq Headers /\ send_state' \in [readptr : Nat, sizeleft : Nat]
  BY DEF getordelete, Inv, TypeOK
<1>4. c \in Call /\ c \notin {"put", "post"}
  BY DEF Call
<1> QED  BY <1>1, <1>2, <1>3, <1>4, StartWithoutDocument DEF getordelete

(* A select that returns a body.                                           *)
LEMMA vc_getInv == ASSUME Inv, vc_get PROVE Inv'
<1>1. recv_callback' = FALSE /\ pc = "app" /\ getordelete("get", GetOpts)
  BY DEF vc_get, Inv, QuiescentBetweenCalls, TypeOK
<1> QED  BY <1>1, GetOrDeleteInv, GetOptsType DEF Inv

(* A select whose body goes to the application.                            *)
LEMMA vme_select_callbackInv == ASSUME Inv, vme_select_callback PROVE Inv'
  BY GetOrDeleteInv, GetOptsType DEF vme_select_callback, Inv

(* A delete.                                                               *)
LEMMA vc_deleteInv == ASSUME Inv, vc_delete PROVE Inv'
<1>1. recv_callback' = FALSE /\ pc = "app" /\ getordelete("delete", DeleteOpts)
  BY DEF vc_delete, Inv, QuiescentBetweenCalls, TypeOK
<1> QED  BY <1>1, GetOrDeleteInv, GetOptsType DEF Inv

(* A document is sent from a message of its own.                           *)
LEMMA PutOrPostInv ==
  ASSUME Inv, pc = "app", NEW c \in {"put", "post"}, NEW json \in Payload,
         putorpost(c, json, NewMessage(json))
  PROVE  Inv'
<1> DEFINE m == NewMessage(json)
           o == UploadOpts(IF c = "put" THEN "PUT" ELSE "POST", m)
<1>1. json \in Seq(Byte) /\ Len(json) \in Nat
  BY PayloadAssumption
<1>2. WellFormed(m) /\ m # NULL /\ m.len = Len(json) /\ Contents(m) = json
  BY <1>1, MessageHolds
<1> HIDE DEF m
<1>3. o \in Options /\ o.source = "read" /\ o.size = m.len
  BY <1>2, UploadOptsType DEF Inv
<1> HIDE DEF o
<1>4. Perform(c, json, o, CountLeft) /\ msg' = m
      /\ send_state' = [readptr |-> 0, sizeleft |-> m.len]
  BY DEF putorpost, SendMessage, m, o
<1>5. UNCHANGED <<result_count, recv_callback, http_hdrs, result>>
  BY DEF putorpost
<1>5a. CountLeft \in Nat /\ result_count = CountLeft
  BY CountLeftType
<1>6. /\ net' \in TransferState /\ net'.sent = << >> /\ net'.body = << >>
      /\ net'.count = CountLeft /\ net'.upload = "read" /\ net'.phase = "request" /\ ~net'.eof
      /\ net'.status = 0 /\ net'.code = "OK"
  BY <1>3, <1>4, <1>5a, NewTransferType DEF Perform
<1>7. /\ pc' = "curl" /\ call' = c /\ payload' = json /\ opts' = o
      /\ given' = << >> /\ stalled' = FALSE
  BY <1>4 DEF Perform
<1>8. WellFormed(recv_buf') /\ Contents(recv_buf)' = << >>
  BY TruncateEmpties DEF putorpost, Inv, TypeOK
<1>9. << >> \in Seq(Byte) /\ Len(<< >>) = 0 /\ SubSeq(json, 1, 0) = << >>
  BY <1>1
<1>10. TypeOK'
  BY <1>1, <1>2, <1>3, <1>4, <1>5, <1>6, <1>7, <1>8, <1>9 DEF Inv, TypeOK, Call
<1>11. ReceiveInv'
  BY <1>5, <1>5a, <1>6, <1>7, <1>8 DEF ReceiveInv, Kept, Inv, QuiescentBetweenCalls, TypeOK
<1>12. MessageInv'
  BY <1>1, <1>2, <1>3, <1>4, <1>6, <1>7, <1>9 DEF MessageInv
<1>13. DocumentInv'
  BY <1>1, <1>6, <1>7, <1>9 DEF DocumentInv
<1> QED  BY <1>6, <1>7, <1>10, <1>11, <1>12, <1>13
         DEF Inv, PhaseInv, QuiescentBetweenCalls, CallbackGetsBody, ResultFaithful, Returned

(* A patch truncates the buffer and sends from no message.                 *)
LEMMA vc_patchInv == ASSUME Inv, vc_patch PROVE Inv'
<1>0. PICK json \in Payload : Perform("patch", json, PatchOpts(json), CountLeft)
  BY DEF vc_patch
<1>1. json \in Seq(Byte) /\ Len(json) \in Nat
  BY PayloadAssumption
<1> DEFINE o == PatchOpts(json)
<1>2. o \in Options /\ o.source = "fields" /\ o.fields = json
  BY <1>1, PatchOptsType DEF Inv
<1> HIDE DEF o
<1>3. /\ pc' = "curl" /\ call' = "patch" /\ payload' = json /\ opts' = o
      /\ given' = << >> /\ stalled' = FALSE
  BY <1>0 DEF Perform, o
<1>4. UNCHANGED <<result_count, recv_callback, send_state, http_hdrs, msg, result>>
      /\ pc = "app"
  BY DEF vc_patch
<1>4a. CountLeft \in Nat /\ result_count = CountLeft
  BY <1>4, CountLeftType
<1>5. /\ net' \in TransferState /\ net'.sent = << >> /\ net'.body = << >>
      /\ net'.count = CountLeft /\ net'.upload = "fields" /\ net'.phase = "request"
      /\ net'.status = 0 /\ net'.code = "OK"
  BY <1>0, <1>2, <1>4a, NewTransferType DEF Perform, o
<1>6. WellFormed(recv_buf') /\ Contents(recv_buf)' = << >>
  BY TruncateEmpties DEF vc_patch, Inv, TypeOK
<1>7. << >> \in Seq(Byte) /\ Len(<< >>) = 0 /\ SubSeq(json, 1, 0) = << >>
  BY <1>1
<1>8. TypeOK'
  BY <1>1, <1>2, <1>3, <1>4, <1>5, <1>6, <1>7 DEF Inv, TypeOK, Call
<1>9. ReceiveInv'
  BY <1>3, <1>4, <1>4a, <1>5, <1>6 DEF ReceiveInv, Kept, Inv, QuiescentBetweenCalls, TypeOK
<1>10. MessageInv'
  BY <1>3, <1>4, <1>5 DEF MessageInv, Inv, QuiescentBetweenCalls
<1>11. DocumentInv'
  BY <1>1, <1>2, <1>3, <1>5, <1>7 DEF DocumentInv
<1> QED  BY <1>3, <1>5, <1>8, <1>9, <1>10, <1>11
         DEF Inv, PhaseInv, QuiescentBetweenCalls, CallbackGetsBody, ResultFaithful, Returned

-----------------------------------------------------------------------------
(* The bytes read_callback copies are the next ones of the document.       *)
LEMMA ReadsNext ==
  ASSUME NEW b, WellFormed(b), NEW r \in Nat, NEW n \in Nat, r + n <= b.len
  PROVE  /\ SubSeq(b.data, r + 1, r + n) \in Seq(Byte)
         /\ SubSeq(Contents(b), 1, r) \o SubSeq(b.data, r + 1, r + n)
              = SubSeq(Contents(b), 1, r + n)
         /\ Len(SubSeq(Contents(b), 1, r)) = r
<1> DEFINE c == Contents(b)
<1>1. /\ b.len \in Nat /\ b.data \in Seq(Cell) /\ Len(b.data) = b.limit /\ b.len <= b.limit
      /\ \A i \in 1 .. b.len : b.data[i] \in Byte
  BY DEF WellFormed, Buffer
<1>2. c \in Seq(Byte) /\ Len(c) = b.len
  BY ContentsType
<1>3. \A i \in 1 .. b.len : c[i] = b.data[i]
  BY <1>1 DEF Contents
<1> HIDE DEF c
<1>4. SubSeq(b.data, r + 1, r + n) = SubSeq(c, r + 1, r + n)
  BY <1>1, <1>2, <1>3
<1>5. SubSeq(c, 1, r) \o SubSeq(c, r + 1, r + n) = SubSeq(c, 1, r + n)
  <2>1. 1 \in 1 .. Len(c) + 1 /\ r \in 1 - 1 .. Len(c) /\ r + n \in r .. Len(c)
    BY <1>2, <1>1
  <2> QED  BY <2>1, <1>2, ConcatAdjacentSubSeq
<1>6. SubSeq(c, r + 1, r + n) \in Seq(Byte) /\ Len(SubSeq(c, 1, r)) = r
  BY <1>1, <1>2
<1> QED  BY <1>4, <1>5, <1>6 DEF c

(* What read_callback gives extends what the server has.                   *)
LEMMA read_callbackInv ==
  ASSUME Inv, NEW size \in 1 .. MaxRead, read_callback(size)
  PROVE  Inv'
<1> DEFINE n == CopySize(send_state.sizeleft, size)
           r == send_state.readptr
           d == SubSeq(msg.data, r + 1, r + n)
<1>1. /\ pc = "curl" /\ net.upload = "read" /\ net.phase = "request"
      /\ net \in TransferState /\ payload \in Seq(Byte)
      /\ r \in Nat /\ send_state.sizeleft \in Nat /\ size \in Nat /\ size # 0
  BY ClientBoundsAssumption DEF read_callback, Inv, TypeOK
<1>2. /\ n \in Nat /\ n <= send_state.sizeleft
      /\ n = 0 => send_state.sizeleft = 0
  BY <1>1 DEF CopySize
<1> HIDE DEF n
<1>3. /\ WellFormed(msg) /\ msg # NULL /\ Contents(msg) = payload
      /\ r + send_state.sizeleft = msg.len /\ opts.size = msg.len
      /\ net.sent = SubSeq(payload, 1, r)
      /\ call \in {"put", "post"}
  BY <1>1 DEF Inv, MessageInv, TypeOK
<1>4. msg.len \in Nat /\ Len(payload) = msg.len
  BY <1>3, ContentsType DEF WellFormed, Buffer
<1>5. /\ d \in Seq(Byte) /\ net.sent \o d = SubSeq(payload, 1, r + n)
      /\ Len(net.sent) = r
  <2>1. r + n <= msg.len
    BY <1>1, <1>2, <1>3, <1>4
  <2> HIDE DEF r
  <2> QED  BY <1>1, <1>2, <1>3, <2>1, ReadsNext, ZenonT(40)
<1>6. /\ send_state' = [readptr |-> r + n, sizeleft |-> send_state.sizeleft - n]
      /\ net' = [net EXCEPT !.sent = net.sent \o d, !.eof = (n = 0)]
      /\ UNCHANGED <<pc, call, payload, result_count, recv_buf, recv_callback,
                     http_hdrs, opts, msg, given, result>>
      /\ stalled' \in BOOLEAN
  BY DEF read_callback, Advance, n, Moves, Inv, TypeOK
<1> HIDE DEF d
<1>7. SubSeq(payload, 1, r + n) \in Seq(Byte) /\ Len(SubSeq(payload, 1, r + n)) = r + n
  BY <1>1, <1>2, <1>3, <1>4, SMTT(30)
<1>8. net.sent \o d \in Seq(Cell)
  BY <1>5, <1>7 DEF Cell
<1>9. /\ net' \in TransferState /\ net'.sent = SubSeq(payload, 1, r + n)
      /\ net'.eof = (n = 0)
      /\ net'.phase = "request" /\ net'.upload = "read" /\ net'.body = net.body
      /\ net'.status = net.status /\ net'.count = net.count /\ net'.code = net.code
      /\ net'.switched = net.switched
  BY <1>1, <1>5, <1>6, <1>8 DEF TransferState
<1>10. send_state' \in [readptr : Nat, sizeleft : Nat]
       /\ send_state'.readptr = r + n /\ send_state'.sizeleft = send_state.sizeleft - n
  BY <1>1, <1>2, <1>6
<1>11. TypeOK'
  BY <1>6, <1>9, <1>10 DEF Inv, TypeOK
<1>12. ReceiveInv'
  BY <1>6, <1>9 DEF Inv, ReceiveInv, Kept
<1>13. MessageInv'
  <2>1. r + n + (send_state.sizeleft - n) = msg.len
    BY <1>1, <1>2, <1>3, <1>4
  <2>2. n = 0 => send_state.sizeleft - n = 0
    BY <1>1, <1>2
  <2> QED  BY <1>1, <1>3, <1>6, <1>9, <1>10, <2>1, <2>2 DEF MessageInv
<1>14. DocumentInv'
  <2>1. Len(net'.sent) = r + n /\ r + n <= Len(payload)
    BY <1>1, <1>2, <1>3, <1>4, <1>7, <1>9
  <2> QED  BY <1>1, <1>6, <1>9, <2>1 DEF DocumentInv
<1> QED  BY <1>1, <1>6, <1>9, <1>11, <1>12, <1>13, <1>14
         DEF Inv, PhaseInv, QuiescentBetweenCalls, CallbackGetsBody, ResultFaithful, Returned

(* A count that arrives is the count of this exchange.                     *)
LEMMA header_callbackInv ==
  ASSUME Inv, NEW n \in Count, header_callback(n)
  PROVE  Inv'
<1>1. /\ pc = "curl" /\ net \in TransferState /\ n \in Nat /\ net.phase # "done"
      /\ result_count' = n /\ net' = [net EXCEPT !.count = n] /\ stalled' \in BOOLEAN
      /\ UNCHANGED <<pc, call, payload, recv_buf, recv_callback, send_state,
                     http_hdrs, opts, msg, given, result>>
  BY ServerAssumption DEF header_callback, Moves, Inv, TypeOK
<1>2. /\ net' \in TransferState /\ net'.count = n /\ net'.sent = net.sent
      /\ net'.eof = net.eof /\ net'.phase = net.phase /\ net'.upload = net.upload
      /\ net'.body = net.body /\ net'.status = net.status /\ net'.code = net.code
      /\ net'.switched = net.switched
  BY <1>1 DEF TransferState
<1>3. TypeOK'
  BY <1>1, <1>2 DEF Inv, TypeOK
<1>4. ReceiveInv'
  BY <1>1, <1>2 DEF Inv, ReceiveInv, Kept
<1>5. MessageInv'
  BY <1>1, <1>2 DEF Inv, MessageInv
<1>6. DocumentInv'
  BY <1>1, <1>2 DEF Inv, DocumentInv
<1> QED  BY <1>1, <1>2, <1>3, <1>4, <1>5, <1>6
         DEF Inv, PhaseInv, QuiescentBetweenCalls, CallbackGetsBody, ResultFaithful, Returned

(* A piece of the body extends the buffer, or what the application has.    *)
LEMMA write_callbackInv ==
  ASSUME Inv, NEW contents \in Chunk, write_callback(contents)
  PROVE  Inv'
<1>1. /\ pc = "curl" /\ net \in TransferState /\ net.phase = "response"
      /\ contents \in Seq(Byte) /\ net.body \in Seq(Byte) /\ given \in Seq(Byte)
      /\ UNCHANGED <<pc, call, payload, result_count, recv_callback, send_state,
                     http_hdrs, opts, msg, result>>
      /\ stalled' \in BOOLEAN
  BY ChunkAssumption DEF write_callback, Moves, Inv, TypeOK, TransferState
<1>2. net.body \o contents \in Seq(Byte) /\ given \o contents \in Seq(Byte)
  BY <1>1
<1>3. /\ net' \in TransferState /\ net'.body = net.body \o contents
      /\ net'.phase = "response" => net'.code = net.code
      /\ net'.phase \in {"response", "done"} /\ net'.sent = net.sent
      /\ net'.eof = net.eof /\ net'.upload = net.upload /\ net'.status = net.status
      /\ net'.count = net.count /\ net'.switched = net.switched
      /\ net'.code \in {net.code, "FAILED"}
  BY <1>1, <1>2, ZenonT(40) DEF write_callback, TransferState
<1>4. /\ WellFormed(recv_buf')
      /\ Contents(recv_buf)' = IF recv_callback THEN Contents(recv_buf)
                               ELSE Contents(recv_buf) \o contents
  <2>1. WellFormed(recv_buf) /\ Len(contents) \in Nat
    BY <1>1 DEF Inv, TypeOK
  <2> DEFINE e == vmebuf_ensure_incr_size(recv_buf, Len(contents))
  <2>2. WellFormed(e) /\ Contents(e) = Contents(recv_buf)
    BY <2>1, EnsureIncrKeeps
  <2> HIDE DEF e
  <2>3. WellFormed(vmebuf_concat(e, contents))
        /\ Contents(vmebuf_concat(e, contents)) = Contents(recv_buf) \o contents
    BY <2>2, <1>1, ConcatAppends
  <2>4. recv_buf' = IF recv_callback THEN recv_buf ELSE vmebuf_concat(e, contents)
    BY DEF write_callback, e
  <2> QED  BY <2>1, <2>3, <2>4
<1>5. given' = IF recv_callback THEN given \o contents ELSE given
  BY DEF write_callback
<1>6. recv_callback <=> call = "get_callback"
  BY <1>1 DEF Inv, ReceiveInv
<1>7. TypeOK'
  BY <1>1, <1>2, <1>3, <1>4, <1>5 DEF Inv, TypeOK
<1>8. ReceiveInv'
  BY <1>1, <1>3, <1>4, <1>6 DEF Inv, ReceiveInv, Kept
<1>9. MessageInv'
  BY <1>1, <1>3 DEF Inv, MessageInv
<1>10. DocumentInv'
  BY <1>1, <1>3 DEF Inv, DocumentInv
<1>11. CallbackGetsBody'
  BY <1>1, <1>3, <1>5, <1>6 DEF Inv, CallbackGetsBody
<1> QED  BY <1>1, <1>3, <1>7, <1>8, <1>9, <1>10, <1>11
         DEF Inv, PhaseInv, QuiescentBetweenCalls, ResultFaithful, Returned

(* A step of libcurl or of the server changes nothing but the transfer.    *)
LEMMA TransferInv ==
  ASSUME Inv, Transfer, stalled' \in BOOLEAN, net' \in TransferState,
         net'.body = net.body,
         net'.count = net.count, MessageInv', DocumentInv', PhaseInv'
  PROVE  Inv'
<1>1. pc = "curl" /\ UNCHANGED <<pc, call, payload, result_count, recv_buf,
        recv_callback, send_state, http_hdrs, opts, msg, given, result>>
  BY DEF Transfer, handle
<1>2. TypeOK'
  BY <1>1 DEF Inv, TypeOK
<1>3. ReceiveInv'
  BY <1>1 DEF Inv, ReceiveInv, Kept
<1> QED  BY <1>1, <1>2, <1>3
         DEF Inv, QuiescentBetweenCalls, CallbackGetsBody, ResultFaithful, Returned

(* The document of a PATCH is sent from the caller's memory.               *)
LEMMA SendFieldsInv == ASSUME Inv, SendFields PROVE Inv'
<1>1. /\ pc = "curl" /\ net \in TransferState /\ opts.fields \in Seq(Byte)
      /\ net.upload = "fields" /\ net.phase = "request"
      /\ net' = [net EXCEPT !.sent = opts.fields]
      /\ UNCHANGED <<pc, call, payload, send_state, opts, msg>>
      /\ opts.fields = payload
  BY DEF SendFields, Transfer, handle, Inv, TypeOK, Options, DocumentInv
<1>2. opts.fields \in Seq(Cell)
  BY <1>1 DEF Cell
<1>3. /\ net' \in TransferState /\ net'.sent = payload
      /\ net'.upload = "fields" /\ net'.phase = "request"
      /\ net'.code = net.code /\ net'.status = net.status
      /\ net'.body = net.body /\ net'.count = net.count
  BY <1>1, <1>2 DEF TransferState
<1>4. MessageInv'
  BY <1>1, <1>3 DEF Inv, MessageInv
<1>5. Len(payload) \in Nat /\ payload = SubSeq(payload, 1, Len(payload))
  BY <1>1
<1>6. DocumentInv'
  BY <1>1, <1>3, <1>5 DEF DocumentInv
<1>7. PhaseInv'
  BY <1>1, <1>3 DEF Inv, PhaseInv
<1> QED  BY <1>3, <1>4, <1>6, <1>7, TransferInv DEF SendFields, Moves, Inv, TypeOK

(* Once libcurl has all it has to send, that is the whole document.        *)
LEMMA CompleteIsWhole ==
  ASSUME Inv, pc = "curl", UploadComplete, ~net.switched
  PROVE  net.sent = payload
<1>1. /\ net \in TransferState /\ payload \in Seq(Byte) /\ opts \in Options
      /\ Len(net.sent) <= Len(payload) /\ net.sent = SubSeq(payload, 1, Len(net.sent))
  BY DEF Inv, TypeOK, DocumentInv
<1>2. Len(net.sent) \in Nat /\ Len(payload) \in Nat
  BY <1>1 DEF TransferState
<1>3. SUFFICES Len(payload) <= Len(net.sent)
  <2>1. SUFFICES ASSUME Len(payload) <= Len(net.sent) PROVE net.sent = payload
    BY <1>3
  <2>2. Len(net.sent) = Len(payload)
    BY <1>1, <1>2, <2>1
  <2> QED  BY <1>1, <2>2
<1>4. CASE net.upload = "none"
  BY <1>2, <1>4 DEF Inv, DocumentInv
<1>5. CASE net.upload = "fields" /\ net.sent = opts.fields
  BY <1>2, <1>5 DEF Inv, DocumentInv
<1>6. CASE net.upload = "read" /\ (Len(net.sent) >= opts.size \/ net.eof)
  <2>1. /\ WellFormed(msg) /\ Contents(msg) = payload
        /\ send_state.readptr + send_state.sizeleft = msg.len
        /\ net.sent = SubSeq(payload, 1, send_state.readptr)
        /\ opts.size = msg.len /\ (net.eof => send_state.sizeleft = 0)
        /\ send_state \in [readptr : Nat, sizeleft : Nat]
    BY <1>6 DEF Inv, MessageInv, TypeOK
  <2>2. msg.len \in Nat /\ Len(payload) = msg.len
    BY <2>1, ContentsType DEF WellFormed, Buffer
  <2>3. CASE Len(net.sent) >= opts.size
    BY <2>1, <2>2, <2>3, <1>2
  <2>4. CASE net.eof
    <3>1. send_state.readptr = Len(payload)
      BY <2>1, <2>2, <2>4
    <3> QED  BY <3>1, <2>1, <1>1, <1>2
  <2> QED  BY <1>6, <2>3, <2>4
<1> QED  BY <1>4, <1>5, <1>6 DEF UploadComplete

(* An answer comes once the document is whole, or refuses it.              *)
LEMMA RespondInv == ASSUME Inv, NEW status \in Status, Respond(status) PROVE Inv'
<1>1. /\ pc = "curl" /\ net \in TransferState /\ status \in Nat
      /\ net.phase = "request"
      /\ net' = [net EXCEPT !.phase = "response", !.status = status]
      /\ UNCHANGED <<pc, call, payload, send_state, opts, msg>>
  BY ServerAssumption DEF Respond, Transfer, handle, Inv, TypeOK
<1>2. /\ net' \in TransferState /\ net'.sent = net.sent /\ net'.body = net.body
      /\ net'.count = net.count /\ net'.upload = net.upload /\ net'.eof = net.eof
      /\ net'.switched = net.switched /\ net'.status = status
      /\ net'.phase = "response" /\ net'.code = net.code
  BY <1>1 DEF TransferState
<1>3. MessageInv'
  BY <1>1, <1>2 DEF Inv, MessageInv
<1>4. status < 400 /\ ~net.switched => net.sent = payload
  BY <1>1, CompleteIsWhole DEF Respond
<1>5. DocumentInv'
  BY <1>1, <1>2, <1>4 DEF Inv, DocumentInv
<1>6. PhaseInv'
  BY <1>1, <1>2 DEF Inv, PhaseInv
<1> QED  BY <1>2, <1>3, <1>5, <1>6, TransferInv DEF Respond, Moves, Inv, TypeOK

(* A redirection that gives up the document and asks with GET.             *)
LEMMA RedirectSwitchInv == ASSUME Inv, RedirectSwitch PROVE Inv'
<1>1. /\ pc = "curl" /\ net \in TransferState /\ payload \in Seq(Byte)
      /\ net.phase = "request"
      /\ UNCHANGED <<pc, call, payload, send_state, opts, msg>>
  BY DEF RedirectSwitch, Transfer, handle, Inv, TypeOK
<1>2. /\ net' \in TransferState /\ net'.sent = << >> /\ net'.body = net.body
      /\ net'.count = net.count /\ net'.upload = "none" /\ net'.switched
      /\ net'.phase = "request" /\ net'.code = net.code /\ net'.status = net.status
  <2> DEFINE v == IF opts.custom THEN net.verb ELSE "GET"
  <2>1. v \in {"GET", "PUT", "POST", "DELETE", "PATCH"}
    BY <1>1 DEF TransferState
  <2>2. << >> \in Seq(Cell)
    OBVIOUS
  <2>3. net' = [net EXCEPT !.switched = TRUE, !.verb = v, !.upload = "none", !.sent = << >>]
    BY DEF RedirectSwitch
  <2> HIDE DEF v
  <2> QED  BY <1>1, <2>1, <2>2, <2>3 DEF TransferState
<1>3. MessageInv'
  BY <1>1, <1>2 DEF Inv, MessageInv
<1>4. Len(<< >>) = 0 /\ Len(payload) \in Nat /\ SubSeq(payload, 1, 0) = << >>
  BY <1>1
<1>5. DocumentInv'
  BY <1>1, <1>2, <1>4 DEF DocumentInv
<1>6. PhaseInv'
  BY <1>1, <1>2 DEF Inv, PhaseInv
<1> QED  BY <1>2, <1>3, <1>5, <1>6, TransferInv DEF RedirectSwitch, Moves, Inv, TypeOK

(* A redirection that sends the request again, if nothing was read.        *)
LEMMA RedirectKeepInv == ASSUME Inv, RedirectKeep PROVE Inv'
<1>1. /\ pc = "curl" /\ net \in TransferState /\ payload \in Seq(Byte)
      /\ net.phase = "request"
      /\ UNCHANGED <<pc, call, payload, send_state, opts, msg>>
  BY DEF RedirectKeep, Transfer, handle, Inv, TypeOK
<1>2. CASE net.upload = "read" /\ net.sent # << >>
  <2>1. net' = [net EXCEPT !.phase = "done", !.code = "FAILED"]
    BY <1>2 DEF RedirectKeep
  <2>2. /\ net' \in TransferState /\ net'.body = net.body /\ net'.count = net.count
        /\ net'.sent = net.sent /\ net'.upload = net.upload /\ net'.eof = net.eof
        /\ net'.switched = net.switched /\ net'.code = "FAILED"
        /\ net'.phase = "done"
    BY <1>1, <2>1 DEF TransferState
  <2>3. MessageInv'
    BY <1>1, <2>2 DEF Inv, MessageInv
  <2>4. DocumentInv'
    BY <1>1, <2>2 DEF Inv, DocumentInv
  <2>5. PhaseInv'
    BY <1>1, <2>2 DEF PhaseInv
  <2> QED  BY <2>2, <2>3, <2>4, <2>5, TransferInv DEF RedirectKeep, Moves, Inv, TypeOK
<1>3. CASE ~(net.upload = "read" /\ net.sent # << >>)
  <2>1. net' = [net EXCEPT !.sent = << >>, !.eof = FALSE]
    BY <1>3 DEF RedirectKeep
  <2>2. << >> \in Seq(Cell)
    OBVIOUS
  <2>3. /\ net' \in TransferState /\ net'.body = net.body /\ net'.count = net.count
        /\ net'.sent = << >> /\ net'.upload = net.upload /\ ~net'.eof
        /\ net'.switched = net.switched /\ net'.phase = "request"
        /\ net'.code = net.code /\ net'.status = net.status
    BY <1>1, <2>1, <2>2 DEF TransferState
  <2>4. MessageInv'
    BY <1>1, <1>3, <2>3 DEF Inv, MessageInv
  <2>5. Len(<< >>) = 0 /\ Len(payload) \in Nat /\ SubSeq(payload, 1, 0) = << >>
    BY <1>1
  <2>6. DocumentInv'
    BY <1>1, <2>3, <2>5 DEF Inv, DocumentInv
  <2>7. PhaseInv'
    BY <1>1, <2>3 DEF Inv, PhaseInv
  <2> QED  BY <2>3, <2>4, <2>6, <2>7, TransferInv DEF RedirectKeep, Moves, Inv, TypeOK
<1> QED  BY <1>2, <1>3

(* The answer has arrived whole.                                           *)
LEMMA AnswerEndsInv == ASSUME Inv, AnswerEnds PROVE Inv'
<1>1. /\ pc = "curl" /\ net \in TransferState /\ net.phase = "response"
      /\ net' = [net EXCEPT !.phase = "done"]
      /\ UNCHANGED <<pc, call, payload, send_state, opts, msg>>
  BY DEF AnswerEnds, Transfer, handle, Inv, TypeOK
<1>2. /\ net' \in TransferState /\ net'.body = net.body /\ net'.count = net.count
      /\ net'.sent = net.sent /\ net'.upload = net.upload /\ net'.eof = net.eof
      /\ net'.switched = net.switched /\ net'.code = net.code
      /\ net'.status = net.status /\ net'.phase = "done"
  BY <1>1 DEF TransferState
<1>3. MessageInv'
  BY <1>1, <1>2 DEF Inv, MessageInv
<1>4. DocumentInv'
  BY <1>1, <1>2 DEF Inv, DocumentInv
<1>5. PhaseInv'
  BY <1>1, <1>2 DEF PhaseInv
<1> QED  BY <1>2, <1>3, <1>4, <1>5, TransferInv DEF AnswerEnds, Inv, TypeOK

(* A failure at any moment keeps what has arrived.                         *)
LEMMA TransferFailsInv == ASSUME Inv, TransferFails PROVE Inv'
<1>1. /\ pc = "curl" /\ net \in TransferState
      /\ net' = [net EXCEPT !.phase = "done", !.code = "FAILED"]
      /\ UNCHANGED <<pc, call, payload, send_state, opts, msg>>
  BY DEF TransferFails, Transfer, handle, Inv, TypeOK
<1>2. /\ net' \in TransferState /\ net'.body = net.body /\ net'.count = net.count
      /\ net'.sent = net.sent /\ net'.upload = net.upload /\ net'.eof = net.eof
      /\ net'.switched = net.switched /\ net'.code = "FAILED"
      /\ net'.phase = "done"
  BY <1>1 DEF TransferState
<1>3. MessageInv'
  BY <1>1, <1>2 DEF Inv, MessageInv
<1>4. DocumentInv'
  BY <1>1, <1>2 DEF Inv, DocumentInv
<1>5. PhaseInv'
  BY <1>1, <1>2 DEF PhaseInv
<1> QED  BY <1>2, <1>3, <1>4, <1>5, TransferInv DEF TransferFails, Inv, TypeOK

(* A transfer stalls.                                                      *)
LEMMA StallInv == ASSUME Inv, Stall PROVE Inv'
<1>1. Transfer /\ net' = net /\ stalled' = TRUE
      /\ UNCHANGED <<pc, call, payload, send_state, opts, msg>>
  BY DEF Stall, Transfer, handle
<1>2. MessageInv' /\ DocumentInv' /\ PhaseInv' /\ net \in TransferState
  BY <1>1 DEF Inv, MessageInv, DocumentInv, PhaseInv, TypeOK
<1> QED  BY <1>1, <1>2, TransferInv

-----------------------------------------------------------------------------
(* vc_init returns, with a handle or without.                              *)
LEMMA InitReturnsInv == ASSUME Inv, InitReturns PROVE Inv'
<1>1. /\ pc = "curl" /\ call = "authenticate" /\ pc' \in {"none", "app"}
      /\ net.phase = "done"
      /\ http_hdrs \subseteq Headers
      /\ http_hdrs' = http_hdrs \cup {"Content-Type", "Expect"}
      /\ opts' = DefaultOpts
      /\ stalled' = FALSE
      /\ UNCHANGED <<call, payload, result_count, recv_buf, recv_callback,
                     send_state, msg, given, result, net>>
  BY DEF InitReturns, OptionsAfter, curl_easy_reset, Inv, TypeOK
<1>2. result_count = net.count /\ ~recv_callback
  BY <1>1 DEF Inv, ReceiveInv
<1>3. msg = NULL
  BY <1>1 DEF Inv, MessageInv
<1>4. http_hdrs' \subseteq Headers /\ DefaultOpts \in Options
  BY <1>1, OptionsType DEF Inv, Headers
<1>5. TypeOK'
  BY <1>1, <1>4 DEF Inv, TypeOK
<1>6. DocumentInv'
  BY <1>1 DEF Inv, DocumentInv
<1>7. ReceiveInv' /\ MessageInv' /\ PhaseInv' /\ QuiescentBetweenCalls'
  BY <1>1, <1>2, <1>3 DEF ReceiveInv, PhaseInv, MessageInv, QuiescentBetweenCalls,
                          CountLeft
<1>8. CallbackGetsBody' /\ ResultFaithful'
  BY <1>1 DEF Inv, CallbackGetsBody, ResultFaithful, Returned
<1> QED  BY <1>5, <1>6, <1>7, <1>8 DEF Inv

(* A call's result is made of the bytes of its own exchange.               *)
LEMMA ResultOfExchange ==
  ASSUME Inv, CallReturns
  PROVE  result' \in Result /\ ResultFaithful'
<1>1. /\ pc = "curl" /\ net \in TransferState /\ WellFormed(recv_buf)
      /\ result_count \in Nat /\ Contents(recv_buf) = Kept /\ result_count = net.count
  BY DEF CallReturns, Inv, TypeOK, ReceiveInv
<1>2. /\ result' = prepare_result(net.code, net.status, recv_buf, result_count)
      /\ UNCHANGED <<call, net>>
  BY DEF CallReturns
<1>3. /\ Kept \in Seq(Byte) /\ Len(Kept) = recv_buf.len /\ recv_buf.len \in Nat
      /\ (recv_buf.len > 0 <=> Kept # << >>)
  <2>1. Kept \in Seq(Byte) /\ Len(Kept) = recv_buf.len
    BY <1>1, ContentsType
  <2> HIDE DEF Kept
  <2> QED  BY <2>1, EmptySeq
<1>4. Kept' = Kept
  BY <1>2 DEF Kept
<1>5. /\ Kept # NULL /\ CurlText # NULL
      /\ Kept \in Seq(Cell) /\ Kept \in Seq(Cell \cup {NUL})
      /\ CurlText \in Seq(Cell \cup {NUL})
  <2>1. Kept \in Seq(Byte \cup {NUL}) /\ CurlText \in Seq(Byte \cup {NUL})
    BY <1>3 DEF CurlText
  <2>2. Kept \in Seq(Cell) /\ Kept \in Seq(Cell \cup {NUL})
        /\ CurlText \in Seq(Cell \cup {NUL})
    BY <1>3 DEF Cell, CurlText
  <2> QED  BY <2>1, <2>2, NullAssumption
<1> HIDE DEF Kept, CurlText
<1> DEFINE j == IF recv_buf.len > 0 /\ net.status < 400 THEN Kept ELSE NULL
           e == IF recv_buf.len > 0 /\ net.status >= 400 THEN Kept
                ELSE IF net.code # "OK" THEN CurlText ELSE NULL
<1>6. result' = [vme_size |-> recv_buf.len, vme_count |-> net.count,
                 vme_json_data |-> j, vme_error_msg |-> e]
  BY <1>1, <1>2 DEF prepare_result
<1>7. j \in Seq(Cell) \cup {NULL} /\ e \in Seq(Cell \cup {NUL}) \cup {NULL}
  BY <1>5
<1>8. net.status \in Nat /\ net.code \in {"OK", "FAILED"} /\ net.count \in Nat
  BY <1>1 DEF TransferState
<1>9. /\ net.status < 400 /\ Kept # << >> => j = Kept
      /\ net.status >= 400 /\ Kept # << >> => e = Kept
      /\ net.status >= 400 \/ Kept = << >> => j = NULL
      /\ net.code = "FAILED" => e # NULL
  BY <1>3, <1>5, <1>8
<1> HIDE DEF j, e
<1>10. result' \in Result
  BY <1>3, <1>6, <1>7, <1>8 DEF Result
<1>11. /\ result'.vme_size = Len(Kept) /\ result'.vme_count = net.count
       /\ result'.vme_json_data = j /\ result'.vme_error_msg = e
  BY <1>3, <1>6
<1> QED  BY <1>2, <1>4, <1>9, <1>10, <1>11 DEF ResultFaithful

(* A call returns its result and leaves the handle quiet.                  *)
LEMMA CallReturnsInv == ASSUME Inv, CallReturns PROVE Inv'
<1>1. /\ pc = "curl" /\ pc' = "app" /\ result_count' = 0 /\ opts' = DefaultOpts
      /\ net.phase = "done"
      /\ msg' = NULL /\ recv_callback' = (recv_callback /\ call # "get_callback")
      /\ recv_callback \in BOOLEAN /\ stalled' = FALSE
      /\ UNCHANGED <<call, payload, recv_buf, send_state, http_hdrs, given, net>>
  BY DEF CallReturns, OptionsAfter, curl_easy_reset, CallbackAfter, Inv, TypeOK
<1>2. recv_callback' = FALSE
  BY <1>1 DEF Inv, ReceiveInv
<1>3. result' \in Result /\ ResultFaithful'
  BY ResultOfExchange
<1>4. DefaultOpts \in Options
  BY OptionsType DEF Inv
<1>5. TypeOK'
  BY <1>1, <1>2, <1>3, <1>4 DEF Inv, TypeOK
<1>6. DocumentInv'
  BY <1>1 DEF Inv, DocumentInv
<1>7. ReceiveInv' /\ MessageInv' /\ PhaseInv'
  BY <1>1, <1>2 DEF ReceiveInv, PhaseInv, MessageInv
<1>8. QuiescentBetweenCalls'
  <2>1. call # "authenticate"
    BY DEF CallReturns
  <2> QED  BY <1>1, <1>2, <2>1 DEF QuiescentBetweenCalls, CountLeft
<1>9. CallbackGetsBody'
  BY <1>1 DEF Inv, CallbackGetsBody
<1> QED  BY <1>3, <1>5, <1>6, <1>7, <1>8, <1>9 DEF Inv

(* A handle is torn down.                                                  *)
LEMMA vc_teardownInv == ASSUME Inv, vc_teardown PROVE Inv'
<1>1. /\ pc = "app" /\ pc' = "none" /\ recv_buf' = NewHeader /\ http_hdrs' = {}
      /\ UNCHANGED <<call, payload, result_count, recv_callback, send_state, opts,
                     msg, given, result, net, stalled>>
  BY DEF vc_teardown
<1>2. WellFormed(NewHeader)
  BY DEF NewHeader, WellFormed, Buffer
<1>3. TypeOK'
  BY <1>1, <1>2 DEF Inv, TypeOK
<1>4. DocumentInv'
  BY <1>1 DEF Inv, DocumentInv
<1>5. MessageInv'
  BY <1>1 DEF Inv, QuiescentBetweenCalls, MessageInv
<1> QED  BY <1>1, <1>3, <1>4, <1>5
         DEF Inv, ReceiveInv, PhaseInv, QuiescentBetweenCalls, CallbackGetsBody,
             ResultFaithful, Returned

(* Every step keeps the invariant.                                         *)
LEMMA NextInv == Inv /\ [Next]_vars => Inv'
<1> SUFFICES ASSUME Inv, [Next]_vars PROVE Inv'
  OBVIOUS
<1>1. CASE UNCHANGED vars
  BY <1>1 DEF vars, handle, Inv, TypeOK, ReceiveInv, Kept, MessageInv, DocumentInv,
              PhaseInv, QuiescentBetweenCalls, CountLeft, CallbackGetsBody,
              ResultFaithful, Returned
<1>2. CASE Next
  BY <1>2, vc_initInv, vc_getInv, vme_select_callbackInv, vc_deleteInv, PutOrPostInv,
     vc_patchInv, InitReturnsInv, CallReturnsInv, vc_teardownInv, read_callbackInv,
     header_callbackInv, write_callbackInv, RespondInv, SendFieldsInv,
     RedirectSwitchInv, RedirectKeepInv, AnswerEndsInv, TransferFailsInv,
     StallInv
  DEF Next, vc_put, vc_post
<1> QED  BY <1>1, <1>2

(* The invariant holds in every state a handle can reach.                  *)
LEMMA Invariance == Spec => []Inv
  BY InitInv, NextInv, PTL DEF Spec

(* Every variable has its type and every buffer is within its allocation,  *)
(* for every size of buffers and every way the network behaves.            *)
THEOREM TypeCorrect == Spec => []TypeOK
<1>1. Inv => TypeOK
  BY DEF Inv
<1> QED  BY <1>1, Invariance, PTL

(* A result has the size, the body and the error of the answer to its own  *)
(* call, and the last count of that exchange; only the first result of a   *)
(* handle may have the count of its authentication instead.                *)
THEOREM ResultsFaithful == Spec => []ResultFaithful
<1>1. Inv => ResultFaithful
  BY DEF Inv
<1> QED  BY <1>1, Invariance, PTL

(* The server has a beginning of the document, and the whole of it when a  *)
(* call that kept its verb succeeds.                                       *)
THEOREM UploadsFaithful == Spec => []UploadFaithful
<1>1. Inv => UploadFaithful
  <2> SUFFICES ASSUME Inv PROVE UploadFaithful
    OBVIOUS
  <2>1. Returned => net.phase = "done"
    BY DEF Inv, PhaseInv, Returned
  <2> QED  BY <2>1 DEF Inv, DocumentInv, UploadFaithful, Returned
<1> QED  BY <1>1, Invariance, PTL

(* read_callback never reads a message that was freed, or beyond its bytes.*)
THEOREM ReadsLive == Spec => []ReadsLiveMessage
<1>1. Inv => ReadsLiveMessage
  <2> SUFFICES ASSUME Inv, pc = "curl", net.upload = "read"
               PROVE  /\ msg # NULL
                      /\ send_state.readptr + send_state.sizeleft <= msg.len
    BY DEF ReadsLiveMessage
  <2>1. msg # NULL /\ WellFormed(msg)
        /\ send_state.readptr + send_state.sizeleft = msg.len
    BY DEF Inv, MessageInv, TypeOK
  <2> QED  BY <2>1 DEF WellFormed, Buffer
<1> QED  BY <1>1, Invariance, PTL

(* When a call returns, the CURL handle has no option, the handle no       *)
(* message and no callback, and no count but the authentication's.  The    *)
(* pointer of send_state is not reset and keeps pointing into the message  *)
(* that was freed: that nothing reads through it then is ReadsLive, above. *)
THEOREM Quiescent == Spec => []QuiescentBetweenCalls
<1>1. Inv => QuiescentBetweenCalls
  BY DEF Inv
<1> QED  BY <1>1, Invariance, PTL

(* The application's callback gets the whole body of its own call.         *)
THEOREM CallbacksGetBody == Spec => []CallbackGetsBody
<1>1. Inv => CallbackGetsBody
  BY DEF Inv
<1> QED  BY <1>1, Invariance, PTL

-----------------------------------------------------------------------------
(* The handle implements RestCall: the initial states.                     *)
LEMMA InitRefines == Init => Abstract!Init
<1> SUFFICES ASSUME Init PROVE Abstract!Init
  OBVIOUS
<1>1. /\ net.sent = << >> /\ net.body = << >> /\ net.status = 0
      /\ net.count = 0 /\ net.code = "OK"
  BY DEF Init, NewTransfer, DefaultOpts
<1>2. pc = "none" /\ payload = << >> /\ call = "authenticate" /\ result = NULL
  BY DEF Init
<1> QED  BY <1>1, <1>2 DEF Abstract!Init, Abstract!Only, Abstract!Opening

(* Entering curl_easy_perform is making a call.                            *)
LEMMA PerformRefines ==
  ASSUME NEW c, NEW p, NEW o, NEW left, Perform(c, p, o, left), UNCHANGED result,
         left = IF call = "authenticate" /\ c # "authenticate" THEN net.count ELSE 0
  PROVE  Abstract!Make([document |-> p, forCallback |-> c = "get_callback",
                        opening |-> c = "authenticate"])
<1>1. /\ net'.sent = << >> /\ net'.body = << >> /\ net'.status = 0
      /\ net'.count = left /\ net'.code = "OK"
  BY DEF Perform, NewTransfer
<1>2. pc' = "curl" /\ call' = c /\ payload' = p
  BY DEF Perform
<1> DEFINE first == call = "authenticate" /\ c # "authenticate"
<1>3. left = IF first THEN net.count ELSE 0
  OBVIOUS
<1> HIDE DEF first
<1>4. [status |-> net'.status, count |-> net'.count, body |-> net'.body,
       failed |-> net'.code = "FAILED"] = Abstract!Only(left)
  BY <1>1 DEF Abstract!Only
<1> QED  BY <1>1, <1>2, <1>3, <1>4 DEF Abstract!Make, first

(* Every call the application makes on a handle is an Ask.                 *)
LEMMA AskRefines ==
  ASSUME pc = "app", NEW c \in Call \ {"authenticate"}, NEW p \in Payload \cup {<< >>},
         NEW o, Perform(c, p, o, CountLeft), UNCHANGED result
  PROVE  Abstract!Ask
<1>1. Abstract!Make([document |-> p, forCallback |-> c = "get_callback", opening |-> FALSE])
  BY PerformRefines DEF CountLeft
<1>2. (c = "get_callback") \in BOOLEAN
  OBVIOUS
<1> QED  BY <1>1, <1>2 DEF Abstract!Ask

(* What libcurl takes of the document is delivered.                        *)
LEMMA DeliverRefines ==
  ASSUME Inv, Inv', pc = "curl", pc' = "curl", UNCHANGED <<call, payload, result>>,
         net'.status = net.status, net'.count = net.count, net'.body = net.body,
         net'.code = net.code,
         net'.sent = << >> \/ Len(net'.sent) >= Len(net.sent)
  PROVE  Abstract!Deliver
<1> DEFINE n == Len(net'.sent)
<1>1. net'.sent \in Seq(Cell) /\ payload \in Seq(Byte)
  BY DEF Inv, TypeOK, TransferState
<1>2. n \in 0 .. Len(payload) /\ net'.sent = SubSeq(payload, 1, n)
  BY <1>1 DEF Inv, DocumentInv
<1>3. n = 0 \/ n >= Len(net.sent)
  OBVIOUS
<1> HIDE DEF n
<1> QED  BY <1>2, <1>3 DEF Abstract!Deliver

(* What libcurl makes of the answer is heard.                              *)
LEMMA HearRefines ==
  ASSUME pc = "curl", pc' = "curl", UNCHANGED <<call, payload, result>>,
         net'.sent = net.sent, net.code = "OK",
         net'.status = net.status \/ net.status = 0,
         SubSeq(net'.body, 1, Len(net.body)) = net.body
  PROVE  Abstract!Hear
  BY DEF Abstract!Hear

(* The return of a call is the return of the abstract one, with its result.*)
LEMMA ReturnRefines == ASSUME Inv, CallReturns PROVE Abstract!Return
<1>1. /\ pc = "curl" /\ pc' = "app" /\ call # "authenticate"
      /\ result' = prepare_result(net.code, net.status, recv_buf, result_count)
      /\ UNCHANGED <<call, payload, net>>
  BY DEF CallReturns
<1>2. /\ WellFormed(recv_buf) /\ Contents(recv_buf) = Kept
      /\ result_count = net.count /\ net.code \in {"OK", "FAILED"}
  BY <1>1 DEF Inv, TypeOK, ReceiveInv, TransferState
<1>3. Len(Kept) = recv_buf.len /\ (recv_buf.len > 0 <=> Kept # << >>)
  <2>1. Kept \in Seq(Byte) /\ Len(Kept) = recv_buf.len
    BY <1>2, ContentsType
  <2> HIDE DEF Kept
  <2> QED  BY <2>1, EmptySeq
<1>4. Abstract!Kept = Kept
  BY DEF Abstract!Kept, Kept
<1> HIDE DEF Kept
<1>5. result' =
        [vme_size |-> Len(Kept), vme_count |-> net.count,
         vme_json_data |-> IF Kept # << >> /\ net.status < 400 THEN Kept ELSE NULL,
         vme_error_msg |-> IF Kept # << >> /\ net.status >= 400 THEN Kept
                           ELSE IF net.code = "FAILED" THEN CurlText ELSE NULL]
  BY <1>1, <1>2, <1>3 DEF prepare_result
<1> QED  BY <1>1, <1>4, <1>5, ZenonT(40) DEF Abstract!Return

(* Every step of the handle is a step of the abstract one or a stutter.    *)
LEMMA StepRefines == Inv /\ Inv' /\ [Next]_vars => [Abstract!Next]_(Abstract!vars)
<1> SUFFICES ASSUME Inv, Inv', [Next]_vars PROVE [Abstract!Next]_(Abstract!vars)
  OBVIOUS
<1> USE DEF Abstract!Next
<1>0. /\ net \in TransferState /\ net' \in TransferState /\ opts \in Options
      /\ net.body \in Seq(Byte) /\ net.sent \in Seq(Cell)
      /\ SubSeq(net.body, 1, Len(net.body)) = net.body
  <2>1. net \in TransferState /\ net' \in TransferState /\ opts \in Options
    BY DEF Inv, TypeOK
  <2>2. net.body \in Seq(Byte) /\ net.sent \in Seq(Cell)
    BY <2>1 DEF TransferState
  <2> QED  BY <2>1, <2>2
<1>1. ASSUME vc_init PROVE Abstract!Open
  <2>1. Abstract!Make(Abstract!Opening)
    BY <1>1, PerformRefines DEF vc_init, Abstract!Opening
  <2> QED  BY <1>1, <2>1 DEF vc_init, Abstract!Open
<1>2. ASSUME vc_get \/ vme_select_callback \/ vc_delete PROVE Abstract!Ask
  <2>1. PICK c \in {"get", "get_callback", "delete"}, o \in {GetOpts, DeleteOpts} :
          pc = "app" /\ getordelete(c, o)
    BY <1>2 DEF vc_get, vme_select_callback, vc_delete
  <2>2. c \in Call \ {"authenticate"} /\ UNCHANGED result
    BY <2>1 DEF Call, getordelete
  <2> QED  BY <2>1, <2>2, AskRefines DEF getordelete
<1>3. ASSUME NEW c \in {"put", "post"}, NEW json \in Payload, pc = "app",
             putorpost(c, json, NewMessage(json))
      PROVE  Abstract!Ask
  <2>1. c \in Call \ {"authenticate"}
    BY DEF Call
  <2> QED  BY <1>3, <2>1, AskRefines DEF putorpost
<1>4. ASSUME vc_patch PROVE Abstract!Ask
  <2>1. "patch" \in Call \ {"authenticate"}
    BY DEF Call
  <2> QED  BY <1>4, <2>1, AskRefines DEF vc_patch
<1>5. ASSUME NEW size \in 1 .. MaxRead, read_callback(size) PROVE Abstract!Deliver
  <2> DEFINE k == CopySize(send_state.sizeleft, size)
             more == SubSeq(msg.data, send_state.readptr + 1, send_state.readptr + k)
  <2>1. /\ pc = "curl" /\ pc' = "curl" /\ UNCHANGED <<call, payload, result>>
        /\ net' = [net EXCEPT !.sent = @ \o more, !.eof = (k = 0)]
        /\ net.upload = "read"
    BY <1>5 DEF read_callback
  <2>2. more \in Seq(Cell)
    <3>1. /\ WellFormed(msg) /\ send_state \in [readptr : Nat, sizeleft : Nat]
          /\ send_state.readptr + send_state.sizeleft = msg.len
      BY <2>1 DEF Inv, TypeOK, MessageInv
    <3>2. k \in Nat /\ k <= send_state.sizeleft
      BY <3>1, ClientBoundsAssumption DEF CopySize
    <3>3. /\ msg.data \in Seq(Cell) /\ Len(msg.data) \in Nat
          /\ msg.len <= Len(msg.data) /\ msg.len \in Nat
      BY <3>1 DEF WellFormed, Buffer
    <3> HIDE DEF k
    <3> QED  BY <3>1, <3>2, <3>3
  <2> HIDE DEF k, more
  <2>3. /\ net'.status = net.status /\ net'.count = net.count
        /\ net'.body = net.body /\ net'.code = net.code
        /\ net'.sent = net.sent \o more
    BY <1>0, <2>1 DEF TransferState
  <2>4. Len(net.sent \o more) >= Len(net.sent)
    BY <1>0, <2>2
  <2> QED  BY <2>1, <2>3, <2>4, DeliverRefines
<1>6. ASSUME NEW n \in Count, header_callback(n) PROVE Abstract!Hear
  <2>1. /\ pc = "curl" /\ pc' = "curl" /\ UNCHANGED <<call, payload, result>>
        /\ net' = [net EXCEPT !.count = n] /\ net.phase # "done"
    BY <1>6 DEF header_callback
  <2>2. /\ net'.sent = net.sent /\ net'.status = net.status /\ net'.body = net.body
        /\ net.code = "OK"
    BY <1>0, <2>1 DEF TransferState, Inv, PhaseInv
  <2> QED  BY <1>0, <2>1, <2>2, HearRefines
<1>7. ASSUME NEW contents \in Chunk, write_callback(contents) PROVE Abstract!Hear
  <2>1. /\ pc = "curl" /\ pc' = "curl" /\ UNCHANGED <<call, payload, result>>
        /\ net.phase = "response" /\ contents \in Seq(Byte)
    BY <1>7, ChunkAssumption DEF write_callback
  <2>2. net.body \o contents \in Seq(Byte)
    BY <1>0, <2>1
  <2>3. /\ net'.sent = net.sent /\ net'.status = net.status /\ net'.count = net.count
        /\ net'.body = net.body \o contents /\ net.code = "OK"
    BY <1>0, <1>7, <2>1, <2>2 DEF write_callback, TransferState, Inv, PhaseInv
  <2>4. SubSeq(net.body \o contents, 1, Len(net.body)) = net.body
    BY <1>0, <2>1
  <2> QED  BY <2>1, <2>3, <2>4, HearRefines
<1>8. ASSUME Transfer, net' = [net EXCEPT !.phase = "done", !.code = "FAILED"],
             net.phase # "done"
      PROVE  Abstract!Hear
  <2>1. /\ net'.sent = net.sent /\ net'.status = net.status /\ net'.body = net.body
        /\ net'.count = net.count /\ net.code = "OK"
    BY <1>0, <1>8 DEF TransferState, Inv, PhaseInv
  <2> QED  BY <1>0, <1>8, <2>1, HearRefines DEF Transfer
<1>9. ASSUME NEW status \in Status, Respond(status) PROVE Abstract!Hear
  <2>1. net' = [net EXCEPT !.phase = "response", !.status = status]
        /\ net.phase = "request" /\ Transfer
    BY <1>9 DEF Respond
  <2>2. /\ net'.sent = net.sent /\ net.status = 0 /\ net'.body = net.body
        /\ net'.count = net.count /\ net.code = "OK"
    BY <1>0, <2>1 DEF TransferState, Inv, PhaseInv
  <2> QED  BY <1>0, <2>1, <2>2, HearRefines DEF Transfer
<1>10. ASSUME SendFields PROVE Abstract!Deliver
  <2>1. net' = [net EXCEPT !.sent = opts.fields] /\ Transfer
        /\ opts.fields = payload /\ Len(net.sent) <= Len(payload)
    BY <1>10 DEF SendFields, Transfer, Inv, DocumentInv
  <2>2. /\ net'.status = net.status /\ net'.count = net.count /\ net'.body = net.body
        /\ net'.code = net.code /\ net'.sent = payload
    BY <1>0, <2>1 DEF TransferState
  <2>3. Len(net.sent) \in Nat /\ Len(payload) \in Nat
    BY <1>0 DEF Inv, TypeOK
  <2> QED  BY <2>1, <2>2, <2>3, DeliverRefines DEF Transfer
<1>11. ASSUME RedirectSwitch PROVE Abstract!Deliver
  <2>1. /\ net'.status = net.status /\ net'.count = net.count /\ net'.body = net.body
        /\ net'.code = net.code /\ net'.sent = << >>
    BY <1>0, <1>11 DEF RedirectSwitch, TransferState
  <2> QED  BY <1>11, <2>1, DeliverRefines DEF RedirectSwitch, Transfer
<1>12. ASSUME RedirectKeep PROVE Abstract!Deliver \/ Abstract!Hear
  <2>1. CASE net.upload = "read" /\ net.sent # << >>
    BY <1>8, <1>12, <2>1 DEF RedirectKeep
  <2>2. CASE ~(net.upload = "read" /\ net.sent # << >>)
    <3>1. /\ net'.status = net.status /\ net'.count = net.count
          /\ net'.body = net.body /\ net'.code = net.code /\ net'.sent = << >>
      BY <1>0, <1>12, <2>2 DEF RedirectKeep, TransferState
    <3> QED  BY <1>12, <3>1, DeliverRefines DEF RedirectKeep, Transfer
  <2> QED  BY <2>1, <2>2
<1>13. ASSUME AnswerEnds PROVE UNCHANGED Abstract!vars
  <2>1. /\ net'.sent = net.sent /\ net'.status = net.status /\ net'.body = net.body
        /\ net'.count = net.count /\ net'.code = net.code
    BY <1>0, <1>13 DEF AnswerEnds, TransferState
  <2> QED  BY <1>13, <2>1 DEF AnswerEnds, Transfer, Abstract!vars
<1>14. ASSUME TransferFails PROVE Abstract!Hear
  BY <1>8, <1>14 DEF TransferFails
<1>15. ASSUME InitReturns PROVE Abstract!Opened
  BY <1>15 DEF InitReturns, Abstract!Opened
<1>16. ASSUME vc_teardown PROVE Abstract!Close
  BY <1>16 DEF vc_teardown, Abstract!Close
<1>17. ASSUME Stall PROVE UNCHANGED Abstract!vars
  BY <1>17 DEF Stall, Transfer, Abstract!vars
<1>18. ASSUME UNCHANGED vars PROVE UNCHANGED Abstract!vars
  <2>1. UNCHANGED <<pc, call, payload, net, result>>
    BY <1>18 DEF vars
  <2> QED  BY <2>1 DEF Abstract!vars
<1>19. ASSUME Next PROVE Abstract!Next \/ UNCHANGED Abstract!vars
  BY <1>1, <1>2, <1>3, <1>4, <1>5, <1>6, <1>7, <1>9, <1>10, <1>11, <1>12,
     <1>13, <1>14, <1>15, <1>16, <1>17, <1>19, ReturnRefines
  DEF Next, vc_put, vc_post
<1> QED  BY <1>18, <1>19

(* The handle implements the abstract one, for every document and answer:  *)
(* what crosses a call is only its document, its answer and its result,    *)
(* and, into the first call, the count that the opening was answered with. *)
THEOREM Refinement == Spec => ImplementsRestCall
<1>1. Spec => Abstract!Init /\ [][Abstract!Next]_(Abstract!vars)
  BY InitRefines, StepRefines, Invariance, PTL DEF Spec
<1> QED  BY <1>1 DEF ImplementsRestCall, Abstract!Spec
=============================================================================

---------------------------- MODULE VantiqClient ----------------------------
(***************************************************************************)
(* One vantiq_client_t and the requests made through it, as                *)
(* src/vme/vantiq_client.c makes them: the handle is opened with an        *)
(* authentication request, then the application makes one call at a time.  *)
(* A call sets the options of the CURL handle, enters curl_easy_perform,   *)
(* which calls read_callback, header_callback and write_callback back in   *)
(* whatever pieces the network gives it, and turns what was received into  *)
(* a vme_result_t.                                                         *)
(*                                                                         *)
(* libcurl and the server are not in src/: the variable net and the        *)
(* actions under "libcurl and the server" are what the code uses of them.  *)
(* A URL and its parameters are abstracted to the kind of call that is     *)
(* made; a document and a body are sequences of bytes.                     *)
(***************************************************************************)
EXTENDS VmeBufOps

CONSTANTS
  Payload,       \* the documents the application sends
  Chunk,         \* the pieces in which the body of an answer arrives
  Count,         \* the values of X-Total-Count, of at most 31 characters
  Status,        \* the status codes of answers that are not followed
  NULL,          \* the null pointer
  MaxBody,       \* bound: the longest body of an answer
  MaxRead        \* bound: the largest buffer libcurl passes to read_callback

ASSUME PayloadAssumption == Payload \subseteq Seq(Byte)
ASSUME ChunkAssumption == Chunk \subseteq Seq(Byte) \ {<< >>}
ASSUME ServerAssumption == Count \subseteq Nat /\ Status \subseteq Nat \ {0}
ASSUME ClientBoundsAssumption == MaxBody \in Nat /\ MaxRead \in Nat \ {0}
ASSUME NullAssumption == NULL \notin Buffer /\ NULL \notin Seq(Byte \cup {NUL})

VARIABLES
  pc,            \* "none": no handle, "app": the application runs,
                 \* "curl": inside curl_easy_perform
  call,          \* the kind of the current call, or of the last one
  payload,       \* the document that call sends
  result_count, recv_buf, recv_callback, send_state, http_hdrs,
                 \* the fields of the vantiq_client_t
  opts,          \* the options set on vc->curl
  msg,           \* the message buffer of the call; NULL once deallocated
  given,         \* the bytes the application's callback got in this call
  result,        \* the last vme_result_t returned
  net,           \* the transfer: libcurl's state and the server's answer
  stalled        \* whether it has been below LOW_SPEED_LIMIT bytes a second
                 \* for LOW_SPEED_TIME seconds

handle == <<result_count, recv_buf, recv_callback, send_state, http_hdrs>>
vars == <<pc, call, payload, handle, opts, msg, given, result, net, stalled>>

(* The calls of vme.c, by what they make of the CURL handle: get stands    *)
(* for vme_select, vme_select_one and vme_aggregate, post for vme_insert,  *)
(* vme_upsert, vme_publish, vme_execute and vme_query_source.  That a call *)
(* asks for a count is in its URL only; the handle does not remember it.   *)
(* The headers a request may carry. *)
Headers == {"Authorization", "Content-Type", "Expect"}

Call ==
  {"authenticate", "get", "get_callback", "delete", "put", "post", "patch"}

-----------------------------------------------------------------------------
(* The options a fresh or reset CURL handle has. *)
DefaultOpts ==
  [verb |-> "GET", custom |-> FALSE, source |-> "none", size |-> 0,
   fields |-> << >>, errbuf |-> FALSE, hdrs |-> {}, follow |-> FALSE,
   lowSpeed |-> FALSE]

(* Fault: nothing bounds the time a silent server may take. *)
SetupNoLowSpeed(hdrs) == [DefaultOpts EXCEPT !.hdrs = hdrs, !.follow = TRUE]

(* Reset, then what all requests have in common: the headers, following    *)
(* redirections, and giving up on a transfer that stalls for a minute.     *)
common_curl_setup(hdrs) ==
  [DefaultOpts EXCEPT !.hdrs = hdrs, !.follow = TRUE, !.lowSpeed = TRUE]

GetOpts == common_curl_setup(http_hdrs)

DeleteOpts ==
  [common_curl_setup(http_hdrs) EXCEPT !.verb = "DELETE", !.custom = TRUE]

(* CURLOPT_PUT or CURLOPT_POST with no CURLOPT_POSTFIELDS: libcurl gets    *)
(* the document from read_callback.                                        *)
UploadOpts(verb, m) ==
  [common_curl_setup(http_hdrs) EXCEPT
     !.verb = verb, !.source = "read", !.size = m.len, !.errbuf = TRUE]

PatchOpts(json) ==
  [common_curl_setup(http_hdrs) EXCEPT
     !.verb = "PATCH", !.custom = TRUE, !.source = "fields",
     !.fields = json, !.errbuf = TRUE]

(* A message with the bytes of json: ensure_size of its size, then concat. *)
NewMessage(json) == vmebuf_concat(vmebuf_create(Len(json)), json)

(* What libcurl starts a transfer with, when the count left is pending. *)
NewTransfer(o, left) ==
  [phase |-> "request", verb |-> o.verb, upload |-> o.source, sent |-> << >>,
   eof |-> FALSE, switched |-> FALSE, status |-> 0, count |-> left,
   body |-> << >>, code |-> "OK"]

(* The text of a libcurl error, abstracted to its terminator. *)
CurlText == <<NUL>>

(* Fault: the test for a body is on the result of the transfer. *)
ResultDropsPartial(code, status, buf, count) ==
  [vme_size |-> buf.len,
   vme_count |-> count,
   vme_json_data |->
     IF code = "OK" /\ status < 400 /\ buf.len > 0 THEN Contents(buf) ELSE NULL,
   vme_error_msg |->
     IF buf.len > 0 /\ status >= 400 THEN Contents(buf)
     ELSE IF code # "OK" THEN CurlText ELSE NULL]

(* What a call makes of the transfer's outcome and of the bytes received.  *)
(* Both copies of the body have exactly the length of the body.            *)
prepare_result(code, status, buf, count) ==
  [vme_size |-> buf.len,
   vme_count |-> count,
   vme_json_data |->
     IF buf.len > 0 /\ status < 400 THEN Contents(buf) ELSE NULL,
   vme_error_msg |->
     IF buf.len > 0 /\ status >= 400 THEN Contents(buf)
     ELSE IF code # "OK" THEN CurlText ELSE NULL]

Init ==
  /\ pc = "none"
  /\ call = "authenticate"
  /\ payload = << >>
  /\ result_count = 0
  /\ recv_buf = NewHeader
  /\ recv_callback = FALSE
  /\ send_state = [readptr |-> 0, sizeleft |-> 0]
  /\ http_hdrs = {}
  /\ opts = DefaultOpts
  /\ msg = NULL
  /\ given = << >>
  /\ result = NULL
  /\ net = [NewTransfer(DefaultOpts, 0) EXCEPT !.phase = "done"]
  /\ stalled = FALSE

-----------------------------------------------------------------------------
(* The calls of the application, up to curl_easy_perform.                  *)

(* The count pending before a call: vc_init returns without clearing the   *)
(* one that the answer to the authentication gave.                         *)
CountLeft == IF call = "authenticate" THEN net.count ELSE 0

(* Enter curl_easy_perform for a call of kind c with document p, when the  *)
(* count left is pending.                                                  *)
Perform(c, p, o, left) ==
  /\ pc' = "curl"
  /\ call' = c
  /\ payload' = p
  /\ opts' = o
  /\ net' = NewTransfer(o, left)
  /\ given' = << >>
  /\ stalled' = FALSE

(* A new handle, and the authentication request on it. *)
vc_init ==
  /\ pc = "none"
  /\ result_count' = 0
  /\ recv_buf' = vmebuf_create(0)
  /\ recv_callback' = FALSE
  /\ send_state' = [readptr |-> 0, sizeleft |-> 0]
  /\ http_hdrs' = {"Authorization"}
  /\ Perform("authenticate", << >>, common_curl_setup({"Authorization"}), 0)
  /\ UNCHANGED <<msg, result>>

(* Fault: the bytes of the last answer stay in the receive buffer. *)
GetOrDeleteKeepsBytes(c, o) ==
  /\ recv_buf' = recv_buf
  /\ Perform(c, << >>, o, CountLeft)
  /\ UNCHANGED <<result_count, send_state, http_hdrs, msg, result>>

getordelete(c, o) ==
  /\ recv_buf' = vmebuf_truncate(recv_buf)
  /\ Perform(c, << >>, o, CountLeft)
  /\ UNCHANGED <<result_count, send_state, http_hdrs, msg, result>>

vc_get ==
  /\ pc = "app"
  /\ getordelete("get", GetOpts)
  /\ UNCHANGED recv_callback

(* vme_select_callback: the application's callback is in the handle for    *)
(* the time of the request.                                                *)
vme_select_callback ==
  /\ pc = "app"
  /\ recv_callback' = TRUE
  /\ getordelete("get_callback", GetOpts)

vc_delete ==
  /\ pc = "app"
  /\ getordelete("delete", DeleteOpts)
  /\ UNCHANGED recv_callback

(* Fault: all that is allocated is to be sent. *)
SendAllocation(m) == [readptr |-> 0, sizeleft |-> m.limit]

SendMessage(m) == [readptr |-> 0, sizeleft |-> m.len]

putorpost(c, json, m) ==
  /\ send_state' = SendMessage(m)
  /\ recv_buf' = vmebuf_truncate(recv_buf)
  /\ msg' = m
  /\ Perform(c, json, UploadOpts(IF c = "put" THEN "PUT" ELSE "POST", m), CountLeft)
  /\ UNCHANGED <<result_count, recv_callback, http_hdrs, result>>

vc_put == pc = "app" /\ \E json \in Payload : putorpost("put", json, NewMessage(json))

vc_post == pc = "app" /\ \E json \in Payload : putorpost("post", json, NewMessage(json))

vc_patch ==
  /\ pc = "app"
  /\ recv_buf' = vmebuf_truncate(recv_buf)
  /\ \E json \in Payload : Perform("patch", json, PatchOpts(json), CountLeft)
  /\ UNCHANGED <<result_count, recv_callback, send_state, http_hdrs, msg, result>>

-----------------------------------------------------------------------------
(* The callbacks libcurl makes from curl_easy_perform.                     *)

(* Bytes pass; a few of them do not end a stall. *)
Moves == stalled' \in {stalled, FALSE}

(* Whether libcurl has got from the code all it has to send. *)
UploadComplete ==
  \/ net.upload = "none"
  \/ net.upload = "fields" /\ net.sent = opts.fields
  \/ net.upload = "read" /\ net.verb = "POST" /\ Len(net.sent) >= opts.size
  \/ net.upload = "read" /\ net.verb # "POST" /\ net.eof

(* Fault: the read pointer stays where it is. *)
RereadStart(s, n) == [s EXCEPT !.sizeleft = @ - n]

Advance(s, n) == [readptr |-> s.readptr + n, sizeleft |-> s.sizeleft - n]

(* Fault: the buffer is filled whatever is left of the message. *)
CopyBufferful(sizeleft, size) == size

CopySize(sizeleft, size) == IF sizeleft > size THEN size ELSE sizeleft

(* As much of the message as is left and as fits into a buffer of size.    *)
read_callback(size) ==
  /\ pc = "curl" /\ net.phase = "request"
  /\ net.upload = "read" /\ ~UploadComplete /\ ~net.eof
  /\ LET n == CopySize(send_state.sizeleft, size)
     IN  /\ net' = [net EXCEPT
                      !.sent = @ \o SubSeq(msg.data, send_state.readptr + 1,
                                                     send_state.readptr + n),
                      !.eof = (n = 0)]
         /\ send_state' = Advance(send_state, n)
  /\ Moves
  /\ UNCHANGED <<pc, call, payload, result_count, recv_buf, recv_callback,
                 http_hdrs, opts, msg, given, result>>

(* The header X-Total-Count, of any answer to any request, the             *)
(* authentication, interim answers, redirections and trailers included;    *)
(* any other header changes nothing.  A value longer than the code's       *)
(* buffer of 32 characters is not modelled.                                *)
header_callback(n) ==
  /\ pc = "curl" /\ net.phase # "done"
  /\ result_count' = n
  /\ net' = [net EXCEPT !.count = n]
  /\ Moves
  /\ UNCHANGED <<pc, call, payload, recv_buf, recv_callback, send_state,
                 http_hdrs, opts, msg, given, result>>

(* A piece of the body, appended to the receive buffer or given to the     *)
(* application's callback; libcurl aborts the transfer if that callback    *)
(* does not return the size of the piece.                                  *)
write_callback(contents) ==
  /\ pc = "curl" /\ net.phase = "response"
  /\ Len(net.body) + Len(contents) <= MaxBody
  /\ \/ /\ ~recv_callback
        /\ recv_buf' = vmebuf_concat(
                         vmebuf_ensure_incr_size(recv_buf, Len(contents)), contents)
        /\ net' = [net EXCEPT !.body = @ \o contents]
        /\ UNCHANGED given
     \/ /\ recv_callback
        /\ given' = given \o contents
        /\ \E realsize \in {0, Len(contents)} :
             net' = IF realsize = Len(contents)
                    THEN [net EXCEPT !.body = @ \o contents]
                    ELSE [net EXCEPT !.body = @ \o contents,
                                     !.phase = "done", !.code = "FAILED"]
        /\ UNCHANGED recv_buf
  /\ Moves
  /\ UNCHANGED <<pc, call, payload, result_count, recv_callback, send_state,
                 http_hdrs, opts, msg, result>>

-----------------------------------------------------------------------------
(* libcurl and the server.                                                 *)

Transfer == pc = "curl" /\ UNCHANGED <<pc, call, payload, handle, opts, msg, given, result>>

(* The document of CURLOPT_POSTFIELDS is sent without a callback. *)
SendFields ==
  /\ Transfer
  /\ net.phase = "request" /\ net.upload = "fields" /\ ~UploadComplete
  /\ net' = [net EXCEPT !.sent = opts.fields]
  /\ Moves

(* The status line of an answer; one that refuses the request may come     *)
(* before all of the document is sent.                                     *)
Respond(status) ==
  /\ Transfer
  /\ net.phase = "request"
  /\ UploadComplete \/ status >= 400
  /\ net' = [net EXCEPT !.phase = "response", !.status = status]
  /\ Moves

(* A redirection that libcurl follows with a GET and no document (301, 302 *)
(* and 303 after a POST, 303 after a PUT); a custom verb stays.  The code  *)
(* sets no limit on the number of redirections.                            *)
RedirectSwitch ==
  /\ Transfer
  /\ net.phase = "request" /\ net.upload # "none"
  /\ opts.follow
  /\ net' = [net EXCEPT !.switched = TRUE,
                        !.verb = IF opts.custom THEN @ ELSE "GET",
                        !.upload = "none", !.sent = << >>]
  /\ Moves

(* A redirection that libcurl follows with the same request (307, 308, or  *)
(* any after a GET).  There is no seek callback, so a document of which    *)
(* read_callback has given a part cannot be sent again.                    *)
RedirectKeep ==
  /\ Transfer
  /\ net.phase = "request"
  /\ opts.follow
  /\ net' = IF net.upload = "read" /\ net.sent # << >>
            THEN [net EXCEPT !.phase = "done", !.code = "FAILED"]
            ELSE [net EXCEPT !.sent = << >>, !.eof = FALSE]
  /\ Moves

AnswerEnds ==
  /\ Transfer
  /\ net.phase = "response"
  /\ net' = [net EXCEPT !.phase = "done"]
  /\ UNCHANGED stalled

(* No route, a lost connection, a truncated answer, a refused certificate. *)
TransferFails ==
  /\ Transfer
  /\ net.phase # "done"
  /\ net' = [net EXCEPT !.phase = "done", !.code = "FAILED"]
  /\ UNCHANGED stalled

(* Fewer than LOW_SPEED_LIMIT bytes a second for LOW_SPEED_TIME seconds.   *)
Stall ==
  /\ Transfer
  /\ net.phase # "done" /\ ~stalled
  /\ stalled' = TRUE
  /\ UNCHANGED net

(* libcurl gives up on a stalled transfer, when it has been told to.       *)
StallTimeout == opts.lowSpeed /\ stalled /\ TransferFails

-----------------------------------------------------------------------------
(* The return from curl_easy_perform to the return of the call.            *)

NotAuthenticated(code, httpCode) == code # "OK" /\ httpCode # 200

curl_easy_reset(o) == DefaultOpts

(* Fault: the options of a call stay. *)
OptionsStay(o) == o

(* Every request resets the CURL handle before what it points to is freed. *)
OptionsAfter(o) == curl_easy_reset(o)

InitReturns ==
  /\ pc = "curl" /\ net.phase = "done" /\ call = "authenticate"
  /\ http_hdrs' = http_hdrs \cup {"Content-Type", "Expect"}
  /\ opts' = OptionsAfter(opts)
  /\ pc' = IF NotAuthenticated(net.code, net.status) THEN "none" ELSE "app"
  /\ stalled' = FALSE
  /\ UNCHANGED <<call, payload, result_count, recv_buf, recv_callback,
                 send_state, msg, given, result, net>>

(* Fault: the application's callback stays in the handle. *)
CallbackStays(c, callback) == callback

CallbackAfter(c, callback) == callback /\ c # "get_callback"

CallReturns ==
  /\ pc = "curl" /\ net.phase = "done" /\ call # "authenticate"
  /\ result' = prepare_result(net.code, net.status, recv_buf, result_count)
  /\ result_count' = 0
  /\ opts' = OptionsAfter(opts)
  /\ msg' = NULL
  /\ recv_callback' = CallbackAfter(call, recv_callback)
  /\ pc' = "app"
  /\ stalled' = FALSE
  /\ UNCHANGED <<call, payload, recv_buf, send_state, http_hdrs, given, net>>

vc_teardown ==
  /\ pc = "app"
  /\ pc' = "none"
  /\ recv_buf' = NewHeader
  /\ http_hdrs' = {}
  /\ UNCHANGED <<call, payload, result_count, recv_callback, send_state, opts,
                 msg, given, result, net, stalled>>

Next ==
  \/ vc_init \/ vc_get \/ vme_select_callback \/ vc_delete \/ vc_put \/ vc_post
  \/ vc_patch \/ InitReturns \/ CallReturns \/ vc_teardown
  \/ \E size \in 1 .. MaxRead : read_callback(size)
  \/ \E n \in Count : header_callback(n)
  \/ \E contents \in Chunk : write_callback(contents)
  \/ \E status \in Status : Respond(status)
  \/ SendFields \/ RedirectSwitch \/ RedirectKeep \/ AnswerEnds \/ TransferFails
  \/ Stall

(* The code returns once libcurl does; a transfer on which nothing passes  *)
(* has stalled in the end, and libcurl gives up on one that stays stalled. *)
(* Nothing is assumed of the server or of the application.                 *)
Fairness ==
  /\ WF_vars(InitReturns) /\ WF_vars(CallReturns)
  /\ WF_vars(Stall) /\ WF_vars(StallTimeout)

Spec == Init /\ [][Next]_vars /\ Fairness

-----------------------------------------------------------------------------
Result ==
  [vme_size : Nat, vme_count : Nat,
   vme_json_data : Seq(Cell) \cup {NULL},
   vme_error_msg : Seq(Cell \cup {NUL}) \cup {NULL}]

Options ==
  [verb : {"GET", "PUT", "POST", "DELETE", "PATCH"}, custom : BOOLEAN,
   source : {"none", "read", "fields"}, size : Nat, fields : Seq(Byte),
   errbuf : BOOLEAN, hdrs : SUBSET Headers, follow : BOOLEAN, lowSpeed : BOOLEAN]

TransferState ==
  [phase : {"request", "response", "done"},
   verb : {"GET", "PUT", "POST", "DELETE", "PATCH"},
   upload : {"none", "read", "fields"}, sent : Seq(Cell), eof : BOOLEAN,
   switched : BOOLEAN, status : Nat, count : Nat,
   body : Seq(Byte), code : {"OK", "FAILED"}]

(* Every variable has its type, and the buffers are well-formed. *)
TypeOK ==
  /\ pc \in {"none", "app", "curl"}
  /\ call \in Call
  /\ payload \in Seq(Byte)
  /\ result_count \in Nat
  /\ WellFormed(recv_buf)
  /\ recv_callback \in BOOLEAN
  /\ send_state \in [readptr : Nat, sizeleft : Nat]
  /\ http_hdrs \subseteq Headers
  /\ opts \in Options
  /\ msg = NULL \/ WellFormed(msg)
  /\ given \in Seq(Byte)
  /\ result = NULL \/ result \in Result
  /\ net \in TransferState
  /\ stalled \in BOOLEAN

(* The bytes of the answer that are the result's, not the callback's. *)
Kept == IF call = "get_callback" THEN << >> ELSE net.body

Returned == pc = "app" /\ call # "authenticate"

(* A result says what the server answered to that very call: its size and  *)
(* its body are those of this exchange, with nothing left over from the    *)
(* authentication or an earlier call, whatever pieces the body came in and *)
(* however the transfer ended; a failed transfer is never silent.  Its     *)
(* count is the last one of this exchange, and 0 when there was none,      *)
(* except that the first call on a handle then has the authentication's.   *)
ResultFaithful ==
  Returned =>
    /\ result.vme_count = net.count
    /\ result.vme_size = Len(Kept)
    /\ net.status < 400 /\ Kept # << >> => result.vme_json_data = Kept
    /\ net.status >= 400 /\ Kept # << >> => result.vme_error_msg = Kept
    /\ net.status >= 400 \/ Kept = << >> => result.vme_json_data = NULL
    /\ net.code = "FAILED" => result.vme_error_msg # NULL

(* What the server has of a document is always its beginning, in order and *)
(* without a gap, and is all of it when a call that was not redirected to  *)
(* a GET reports success.                                                  *)
UploadFaithful ==
  /\ Len(net.sent) <= Len(payload)
  /\ net.sent = SubSeq(payload, 1, Len(net.sent))
  /\ (Returned /\ net.code = "OK" /\ net.status < 400 /\ ~net.switched)
       => net.sent = payload

(* While libcurl may call read_callback, the message it reads from is      *)
(* allocated and the range left to read lies within its bytes in use.      *)
ReadsLiveMessage ==
  pc = "curl" /\ net.upload = "read" =>
    /\ msg # NULL
    /\ send_state.readptr + send_state.sizeleft <= msg.len

(* Between calls the CURL handle is as it was new, so none of its options *)
(* points to a freed URL, message or error buffer; no message is           *)
(* allocated, no application callback is set, and no count is pending but  *)
(* the authentication's until the first call.                              *)
QuiescentBetweenCalls ==
  pc = "app" =>
    opts = DefaultOpts /\ msg = NULL /\ ~recv_callback /\ result_count = CountLeft

(* The application's callback gets every byte of the answer to its own     *)
(* call, in order, and none of any other call.                             *)
CallbackGetsBody == given = IF call = "get_callback" THEN net.body ELSE << >>

(* "sometimes things will hang. don't let that hang the app": a call comes *)
(* back from a server that has gone silent or only trickles.  Calls come   *)
(* back for ever, unless one of them is in a transfer that again and again *)
(* gets above the limit (a body or redirections without an end).           *)
StalledCallReturns == []<>(pc # "curl") \/ []<>(pc = "curl" /\ ~stalled)

(* The handle implements the abstract one. *)
Abstract == INSTANCE RestCall WITH
  Document <- Payload \cup {<< >>},
  ErrorText <- CurlText,
  state <- CASE pc = "none" -> "closed" [] pc = "app" -> "idle" [] OTHER -> "busy",
  asked <- [document |-> payload, forCallback |-> call = "get_callback",
            opening |-> call = "authenticate"],
  delivered <- net.sent,
  heard <- [status |-> net.status, count |-> net.count, body |-> net.body,
            failed |-> net.code = "FAILED"]
ImplementsRestCall == Abstract!Spec

-----------------------------------------------------------------------------
(* What the safety properties rest on, and is preserved by every step.     *)

(* During a call the receive buffer holds what this exchange brought, and  *)
(* the count pending is the one it brought, or started with.               *)
ReceiveInv ==
  pc = "curl" =>
    /\ Contents(recv_buf) = Kept
    /\ result_count = net.count
    /\ recv_callback <=> call = "get_callback"

(* A message is allocated during the call that sends it and holds its      *)
(* document; the part the server has ends where the part to read starts.   *)
MessageInv ==
  /\ msg # NULL => pc = "curl" /\ call \in {"put", "post"}
  /\ pc = "curl" /\ net.upload = "read" =>
       /\ msg # NULL /\ Contents(msg) = payload
       /\ send_state.readptr + send_state.sizeleft = msg.len
       /\ net.sent = SubSeq(payload, 1, send_state.readptr)
       /\ opts.size = msg.len
       /\ net.eof => send_state.sizeleft = 0

(* The other documents, and what an answer says of the one it follows.     *)
DocumentInv ==
  /\ Len(net.sent) <= Len(payload)
  /\ net.sent = SubSeq(payload, 1, Len(net.sent))
  /\ pc = "curl" /\ net.upload = "fields" => opts.fields = payload
  /\ net.upload = "none" /\ ~net.switched => payload = << >>
  /\ net.phase # "request" /\ net.code = "OK" /\ net.status < 400 /\ ~net.switched
       => net.sent = payload

(* A transfer is over when no call is made; until it is over nothing has   *)
(* failed, and until it is answered it has no status.                      *)
PhaseInv ==
  /\ pc # "curl" => net.phase = "done"
  /\ net.phase # "done" => net.code = "OK"
  /\ net.phase = "request" => net.status = 0

(* The inductive invariant. *)
Inv ==
  /\ TypeOK
  /\ ReceiveInv
  /\ MessageInv
  /\ DocumentInv
  /\ PhaseInv
  /\ QuiescentBetweenCalls
  /\ CallbackGetsBody
  /\ ResultFaithful

-----------------------------------------------------------------------------
(* What comments and examples of the repository say of the code, where the *)
(* code does otherwise.                                                    *)

(* Calls "deal with protocol errors, server side errors, bad request       *)
(* indications": a request the server refused gives an error message.      *)
ServerErrorsReported ==
  Returned /\ net.code = "OK" /\ net.status >= 400 => result.vme_error_msg # NULL

(* The examples hand vme_json_data to cJSON_Parse, which reads a C string. *)
BodyIsCString ==
  Returned /\ result.vme_json_data # NULL =>
    \E i \in 1 .. Len(result.vme_json_data) : result.vme_json_data[i] = NUL

(* vme_init tries "the url / access token combination": a handle is given  *)
(* only for a token the server accepted.                                   *)
HandleMeansAuthenticated ==
  pc = "app" /\ call = "authenticate" => net.code = "OK" /\ net.status = 200
=============================================================================

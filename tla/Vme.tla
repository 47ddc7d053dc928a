-------------------------------- MODULE Vme --------------------------------
(***************************************************************************)
(* The entry points of src/vme/vme.c and the memory they allocate, use and *)
(* free, for an application with several handles and several results.      *)
(*                                                                         *)
(* An entry point is a program: the sequence of its statements that        *)
(* allocate, use or free a block, look at the handle, or make a result,    *)
(* with the statements of the functions it calls in their place.  The      *)
(* exchange with the server is the module VantiqClient; here it only       *)
(* chooses what there is to put into the result.                           *)
(***************************************************************************)
EXTENDS Naturals, Sequences

CONSTANTS
  Addr,        \* the addresses malloc may give a vantiq_client_t
  Slot,        \* bound: the results the application keeps at once
  NULL         \* the null pointer

ASSUME VmeAssumption == Addr \cap Slot = {} /\ NULL \notin Addr \cup Slot

VARIABLES
  heap,        \* the blocks that are allocated
  open,        \* the handles the application may use
  results,     \* the results it has not freed
  cur,         \* the handle of the call being made, or of the last one
  todo         \* the rest of the program; none: the application runs

vars == <<heap, open, results, cur, todo>>

HandlePart == {"vantiq_client_t", "server_url", "http_hdrs", "recv_buf", "curl"}
ResultPart == {"vme_result_t", "json_data", "server_error", "error_text"}
Temporary == {"message", "params", "rsuri", "url", "auth_hdr", "auth_url"}

Block == [of : Addr \cup Slot \cup {NULL}, kind : HandlePart \cup ResultPart \cup Temporary]
Blocks(owner, kinds) == [of : {owner}, kind : kinds]

-----------------------------------------------------------------------------
(* Statements.  A block a call allocates for itself belongs to its handle. *)
New(kinds) == [op |-> "new", kinds |-> kinds]
Use(kinds) == [op |-> "use", kinds |-> kinds]
Del(kinds) == [op |-> "del", kinds |-> kinds]
MayFail == [op |-> "may fail", kinds |-> {}]
Open == [op |-> "open", kinds |-> {}]
Close == [op |-> "close", kinds |-> {"vantiq_client_t"}]
PrepareResult == [op |-> "prepare_result", kinds |-> {"vantiq_client_t", "recv_buf", "curl"}]
ErrorResult == [op |-> "vme_error_result", kinds |-> {}]
(* vc_from_vme; what to do instead of the rest for an invalid handle. *)
Check(refused) == [op |-> "vc_from_vme", kinds |-> {"vantiq_client_t"}, refused |-> refused]

(* A request: the parts of the URL are read when it is made, the document  *)
(* when it is sent.                                                        *)
Request(uri, document) ==
  << Use(uri \cup {"vantiq_client_t", "server_url", "curl"}), New({"url"}),
     Use(document \cup {"vantiq_client_t", "url", "http_hdrs", "recv_buf", "curl"}),
     PrepareResult, Del({"url"}) >>

vme_select(params) ==
  << New(params), Check(<< ErrorResult, Del(params) >>) >>
  \o Request(params, {}) \o << Del(params) >>

vme_select_count ==
  << Check(<< ErrorResult >>), New({"params"}), Check(<< ErrorResult, Del({"params"}) >>) >>
  \o Request({"params"}, {}) \o << Del({"params"}) >>

vme_select_callback(params) == << Check(<< ErrorResult >>) >> \o vme_select(params)

vme_delete(params) ==
  << Check(<< ErrorResult >>), New(params) >> \o Request(params, {}) \o << Del(params) >>

vme_insert ==
  << Check(<< ErrorResult >>), New({"message"}) >>
  \o Request({}, {"message"}) \o << Del({"message"}) >>

vme_update == vme_insert

(* Fault: the message is freed with the parameters, before it is sent. *)
UpsertFreesFirst ==
  << Check(<< ErrorResult >>), New({"message"}), New({"params"}), Del({"message"}) >>
  \o Request({"params"}, {"message"}) \o << Del({"params"}) >>

vme_upsert ==
  << Check(<< ErrorResult >>), New({"message"}), New({"params"}) >>
  \o Request({"params"}, {"message"}) \o << Del({"params"}), Del({"message"}) >>

(* The path has the version of the handle. *)
BuildPath == << Use({"vantiq_client_t"}), New({"rsuri"}) >>

vme_publish ==
  << New({"message"}), Check(<< ErrorResult >>) >> \o BuildPath
  \o Request({"rsuri"}, {"message"}) \o << Del({"rsuri"}), Del({"message"}) >>

vme_patch == << Check(<< >>) >> \o Request({}, {})

(* vc_query and vc_execute make the message. *)
vme_execute ==
  << Check(<< ErrorResult >>) >> \o BuildPath \o << New({"message"}) >>
  \o Request({"rsuri"}, {"message"}) \o << Del({"message"}), Del({"rsuri"}) >>

vme_query_source ==
  << Check(<< ErrorResult >>), New({"rsuri"}), New({"message"}) >>
  \o Request({"rsuri"}, {"message"}) \o << Del({"message"}), Del({"rsuri"}) >>

(* Fault: the path is left to the application. *)
AggregateKeepsPath ==
  << Check(<< ErrorResult >>), New({"rsuri"}), New({"params"}) >>
  \o Request({"rsuri", "params"}, {}) \o << Del({"params"}) >>

vme_aggregate ==
  << Check(<< ErrorResult >>), New({"rsuri"}), New({"params"}) >>
  \o Request({"rsuri", "params"}, {}) \o << Del({"params"}), Del({"rsuri"}) >>

Requests ==
  {vme_select(p) : p \in SUBSET {"params"}}
  \cup {vme_select_callback(p) : p \in SUBSET {"params"}}
  \cup {vme_delete(p) : p \in SUBSET {"params"}}
  \cup {vme_select_count, vme_insert, vme_update, vme_upsert, vme_publish,
        vme_patch, vme_execute, vme_query_source, vme_aggregate}

(* libcurl may fail to initialise twice, and the server may refuse. *)
vme_init ==
  << New({"vantiq_client_t"}), New({"auth_hdr"}), New({"http_hdrs"}), Del({"auth_hdr"}),
     New({"server_url"}), New({"recv_buf"}), MayFail, MayFail, New({"curl"}),
     New({"auth_url"}), Use({"auth_url", "http_hdrs", "recv_buf", "curl"}),
     Del({"auth_url"}), MayFail, Open >>

vme_teardown ==
  << Check(<< >>), Use({"vantiq_client_t", "server_url"}), Del({"recv_buf"}), Del({"http_hdrs"}),
     Del({"curl"}), Close >>

-----------------------------------------------------------------------------
Init ==
  /\ heap = {} /\ open = {}
  /\ results = [r \in Slot |-> NULL]
  /\ cur = NULL /\ todo = << >>

Free(r) == results[r] = NULL

(* The application calls an entry point. *)
Enter(h, program) ==
  /\ todo = << >>
  /\ \E r \in Slot : Free(r)
  /\ cur' = h
  /\ todo' = program
  /\ UNCHANGED <<heap, open, results>>

(* malloc gives a new handle an address that is free. *)
CallInit ==
  \E a \in Addr : Blocks(a, {"vantiq_client_t"}) \cap heap = {} /\ Enter(a, vme_init)

(* A call with an open handle, or with what a failed vme_init returned. *)
CallRequest ==
  \E h \in open \cup {NULL}, program \in Requests : Enter(h, program)

CallTeardown == \E h \in open \cup {NULL} : Enter(h, vme_teardown)

-----------------------------------------------------------------------------
(* The statements, one at a time. *)
Statement == Head(todo)
At(op) == todo # << >> /\ Statement.op = op
Named == Blocks(cur, Statement.kinds)
Go == todo' = Tail(todo) /\ UNCHANGED cur

StepNew == At("new") /\ heap' = heap \cup Named /\ Go /\ UNCHANGED <<open, results>>
StepUse == At("use") /\ Go /\ UNCHANGED <<heap, open, results>>
StepDel == At("del") /\ heap' = heap \ Named /\ Go /\ UNCHANGED <<open, results>>

(* A failure of vc_init returns NULL, whatever was allocated so far. *)
StepFail ==
  /\ At("may fail")
  /\ todo' \in {<< >>, Tail(todo)}
  /\ UNCHANGED <<heap, open, results, cur>>

StepOpen ==
  /\ At("open")
  /\ open' = open \cup {cur}
  /\ Go
  /\ UNCHANGED <<heap, results>>

StepClose ==
  /\ At("close")
  /\ heap' = heap \ Named
  /\ open' = open \ {cur}
  /\ Go
  /\ UNCHANGED results

(* A handle that is not NULL has the magic byte: the application uses none *)
(* after its tear-down, when the byte is in a block that was freed.        *)
Valid == cur # NULL

StepCheck ==
  /\ At("vc_from_vme")
  /\ todo' = IF Valid THEN Tail(todo) ELSE Statement.refused
  /\ UNCHANGED <<heap, open, results, cur>>

(* Fault: the result's fields are not cleared. *)
Unset == [of |-> NULL, kind |-> "garbage"]
Cleared == NULL

(* Fault: the result points to the bytes in the receive buffer. *)
LentBody(r, kind) == [of |-> cur, kind |-> "recv_buf"]
BodyCopy(r, kind) == [of |-> r, kind |-> kind]

StepResult ==
  /\ At("prepare_result")
  /\ \E r \in Slot, failed, body, refused \in BOOLEAN :
       LET text == [of |-> r, kind |-> "error_text"]
           copy == BodyCopy(r, IF refused THEN "server_error" ELSE "json_data")
       IN  /\ Free(r)
           /\ heap' = heap \cup Blocks(r, {"vme_result_t"})
                           \cup {b \in {text} : failed} \cup {b \in {copy} : body}
           /\ results' = [results EXCEPT ![r] =
                [vme_json_data |-> IF body /\ ~refused THEN copy ELSE Cleared,
                 vme_error_msg |-> IF body /\ refused THEN copy
                                   ELSE IF failed THEN text ELSE Cleared]]
  /\ Go
  /\ UNCHANGED open

StepError ==
  /\ At("vme_error_result")
  /\ \E r \in Slot :
       /\ Free(r)
       /\ heap' = heap \cup Blocks(r, {"vme_result_t", "error_text"})
       /\ results' = [results EXCEPT ![r] =
            [vme_json_data |-> NULL,
             vme_error_msg |-> [of |-> r, kind |-> "error_text"]]]
  /\ Go
  /\ UNCHANGED open

(* The blocks of a result that is not freed, by its pointers. *)
Pointed(r) ==
  Blocks(r, {"vme_result_t"})
  \cup ({results[r].vme_json_data, results[r].vme_error_msg} \ {NULL})

vme_free_result ==
  /\ todo = << >>
  /\ \E r \in Slot :
       /\ ~Free(r)
       /\ heap' = heap \ Pointed(r)
       /\ results' = [results EXCEPT ![r] = NULL]
  /\ UNCHANGED <<open, cur, todo>>

Step ==
  \/ StepNew \/ StepUse \/ StepDel \/ StepFail \/ StepOpen \/ StepClose
  \/ StepCheck \/ StepResult \/ StepError

Next == CallInit \/ CallRequest \/ CallTeardown \/ vme_free_result \/ Step

Spec == Init /\ [][Next]_vars

-----------------------------------------------------------------------------
(* Every variable has its type. *)
TypeOK ==
  /\ heap \subseteq Block
  /\ open \subseteq Addr
  /\ results \in [Slot -> {NULL} \cup
       [vme_json_data : Block \cup {NULL}, vme_error_msg : Block \cup {NULL}]]
  /\ cur \in Addr \cup {NULL}
  /\ \A i \in 1 .. Len(todo) : todo[i].kinds \subseteq HandlePart \cup Temporary

(* No statement of any entry point, nor vme_free_result, uses or frees a   *)
(* block that is not allocated then: nothing is freed twice or too early,  *)
(* in whatever order the application makes its calls.                      *)
UsesLive ==
  /\ todo # << >> /\ ~At("new") /\ ~(At("vc_from_vme") /\ cur = NULL)
       => Named \subseteq heap
  /\ \A r \in Slot : ~Free(r) => Pointed(r) \subseteq heap

(* What the application owns it has to itself: no two results, and no      *)
(* result and handle, share a block, so that a result outlives every later *)
(* call and the tear-down of its handle.                                   *)
OwnedApart ==
  /\ \A r \in Slot : ~Free(r) => \A b \in Pointed(r) : b.of = r
  /\ \A a \in open : a # cur \/ todo = << >> => Blocks(a, HandlePart) \subseteq heap

(* A call with a valid handle leaves nothing behind but its result, a      *)
(* vme_init that fails nothing of its own temporaries, and vme_teardown    *)
(* nothing of the handle but server_url, which it does not free.  A        *)
(* refused call may leave something: vme_publish makes its message before  *)
(* the check.                                                              *)
TemporariesFreed ==
  todo = << >> =>
    /\ \A a \in Addr : Blocks(a, Temporary) \cap heap = {}
    /\ \A a \in Addr : Blocks(a, {"vantiq_client_t"}) \cap heap = {} =>
         Blocks(a, HandlePart \ {"server_url"}) \cap heap = {}

-----------------------------------------------------------------------------
(* What comments of the repository say of the code, where it does          *)
(* otherwise.                                                              *)

(* vme_free_result frees "all allocated resources associated with the      *)
(* result set".                                                            *)
FreeReleases ==
  todo = << >> => \A r \in Slot : Free(r) => Blocks(r, ResultPart) \cap heap = {}
=============================================================================

------------------------------ MODULE RestCall ------------------------------
(***************************************************************************)
(* What a handle promises the application: calls are made one at a time,   *)
(* each sends its document from the start and in order, and returns a      *)
(* result that is a function of the answer to that very call, but for one  *)
(* thing: a count heard while the handle was opened is that of the first   *)
(* call whose own answer has none.  There is no buffer here, no CURL       *)
(* handle and no message to keep alive.                                    *)
(***************************************************************************)
EXTENDS Naturals, Sequences

CONSTANTS
  Document,      \* the documents the application may send
  NULL,          \* no value
  ErrorText      \* the text of an error that is not the server's

VARIABLES
  state,         \* "closed", "idle" or "busy"
  asked,         \* the call made: its document, and who takes the body
  delivered,     \* what the server got of the document
  heard,         \* what was heard of the answer
  result         \* the result of the last call that returned

vars == <<state, asked, delivered, heard, result>>

(* Nothing heard yet but a count n. *)
Only(n) == [status |-> 0, count |-> n, body |-> << >>, failed |-> FALSE]
Opening == [document |-> << >>, forCallback |-> FALSE, opening |-> TRUE]

Init ==
  /\ state = "closed" /\ asked = Opening /\ delivered = << >>
  /\ heard = Only(0) /\ result = NULL

(* The first call after the opening starts with the count of the opening. *)
Make(a) ==
  /\ state' = "busy" /\ asked' = a /\ delivered' = << >>
  /\ heard' = Only(IF asked.opening /\ ~a.opening THEN heard.count ELSE 0)
  /\ UNCHANGED result

Open == state = "closed" /\ Make(Opening)

Ask ==
  /\ state = "idle"
  /\ \E d \in Document, cb \in BOOLEAN :
       Make([document |-> d, forCallback |-> cb, opening |-> FALSE])

(* The document arrives in order, and from the start when it is sent again. *)
Deliver ==
  /\ state = "busy"
  /\ \E n \in 0 .. Len(asked.document) :
       /\ n = 0 \/ n >= Len(delivered)
       /\ delivered' = SubSeq(asked.document, 1, n)
  /\ UNCHANGED <<state, asked, heard, result>>

(* One answer is heard: its status, the last count, more and more of it. *)
Hear ==
  /\ state = "busy" /\ ~heard.failed
  /\ heard'.status # heard.status => heard.status = 0
  /\ SubSeq(heard'.body, 1, Len(heard.body)) = heard.body
  /\ UNCHANGED <<state, asked, delivered, result>>

(* The part of an answer that goes into the result. *)
Kept == IF asked.forCallback THEN << >> ELSE heard.body

Return ==
  /\ state = "busy" /\ ~asked.opening
  /\ state' = "idle"
  /\ result' =
       [vme_size |-> Len(Kept),
        vme_count |-> heard.count,
        vme_json_data |->
          IF Kept # << >> /\ heard.status < 400 THEN Kept ELSE NULL,
        vme_error_msg |->
          IF Kept # << >> /\ heard.status >= 400 THEN Kept
          ELSE IF heard.failed THEN ErrorText ELSE NULL]
  /\ UNCHANGED <<asked, delivered, heard>>

Opened ==
  /\ state = "busy" /\ asked.opening
  /\ state' \in {"idle", "closed"}
  /\ UNCHANGED <<asked, delivered, heard, result>>

Close == state = "idle" /\ state' = "closed" /\ UNCHANGED <<asked, delivered, heard, result>>

Next == Open \/ Ask \/ Deliver \/ Hear \/ Return \/ Opened \/ Close

Spec == Init /\ [][Next]_vars
=============================================================================

-------------------------------- MODULE Dpi --------------------------------
(***************************************************************************)
(* src/vipo: the agent that reads one discovery message from the stream    *)
(* socket of a local packet inspector (the DPI), acknowledges it and       *)
(* publishes it.  The DPI is outside the repository: it writes messages    *)
(* when it likes, without waiting for acknowledgements, and may close its  *)
(* end.  A stream has no message boundaries, so recv may return any part   *)
(* of what is written and not read yet.                                    *)
(***************************************************************************)
EXTENDS VmeBufOps, SequencesExt

CONSTANTS
  INITBUFSIZE,   \* 512 in the code
  PROT_EOT,      \* what the DPI writes when it has no more messages
  Message,       \* the discovery messages it may write
  MaxSent        \* bound: how often the DPI writes

ASSUME DpiAssumption ==
  /\ MaxSent \in Nat
  /\ INITBUFSIZE \in Nat /\ INITBUFSIZE > Len(PROT_EOT)
  /\ PROT_EOT \in Seq(Byte) \ {<< >>}
  /\ Message \subseteq Seq(Byte) \ {<< >>}

VARIABLES
  pc,          \* where vipo is
  buf,         \* the buffer of fetch_discovery_msg
  msg,         \* the C string it returned; empty for the NULL pointer
  published,   \* the document given to vme_publish; empty before
  acked,       \* an acknowledgement was sent
  sent,        \* the bytes the DPI wrote, in order
  writes,      \* how often it wrote
  socket,      \* the bytes written that were not read yet
  closed       \* the DPI has closed its end

vars == <<pc, buf, msg, published, acked, sent, writes, socket, closed>>
dpi == <<sent, writes, socket, closed>>

Init ==
  /\ pc = "connect"
  /\ buf = NewHeader
  /\ msg = << >> /\ published = << >> /\ acked = FALSE
  /\ sent = << >> /\ writes = 0 /\ socket = << >> /\ closed = FALSE

-----------------------------------------------------------------------------
(* The DPI. *)
DpiWrites ==
  /\ pc # "connect" /\ ~closed /\ writes < MaxSent
  /\ \E m \in Message \cup {PROT_EOT} : sent' = sent \o m /\ socket' = socket \o m
  /\ writes' = writes + 1
  /\ UNCHANGED <<pc, buf, msg, published, acked, closed>>

DpiCloses ==
  /\ pc # "connect" /\ ~closed /\ closed' = TRUE
  /\ UNCHANGED <<pc, buf, msg, published, acked, sent, writes, socket>>

-----------------------------------------------------------------------------
(* One attempt, as retries starts at 0; without a connection vipo ends.    *)
(* With one it enters fetch_discovery_msg.                                 *)
Connect ==
  /\ pc = "connect"
  /\ \/ pc' = "select" /\ buf' = vmebuf_create(INITBUFSIZE)
     \/ pc' = "exit" /\ UNCHANGED buf
  /\ UNCHANGED <<msg, published, acked, dpi>>

(* fetch_discovery_msg returns m. *)
Fetched(m) == pc' = "publish" /\ msg' = m /\ UNCHANGED published

(* Fault: a closed end does not wake select. *)
SelectData ==
  /\ pc = "select" /\ socket # << >>
  /\ pc' = "recv"
  /\ UNCHANGED <<buf, msg, published, acked, dpi>>

(* select returns because there is something to read, or the end of it.    *)
SelectReady ==
  /\ pc = "select" /\ (socket # << >> \/ closed)
  /\ pc' = "recv"
  /\ UNCHANGED <<buf, msg, published, acked, dpi>>

(* Nothing came for 300 seconds, or select failed. *)
SelectGivesUp ==
  /\ pc = "select"
  /\ Fetched(<< >>)
  /\ UNCHANGED <<buf, acked, dpi>>

(* Fault: the bytes that are in the buffer are forgotten. *)
AvailWhole == buf.limit
Avail == buf.limit - buf.len

(* Fault: one recv is taken for all. *)
FullNever(n) == FALSE

(* The loop goes on while recv fills what is left of the buffer. *)
Full(n) == n = Avail

(* Fault: the loop does not count what it has read. *)
GrowUncounted(b) == [Resize(b, b.limit * 2) EXCEPT !.len = 0]
Grow(b) == Resize(b, b.limit * 2)

(* memcmp of PROT_EOT with its terminator: one cell more than recv gave.   *)
(* That cell of the buffer was left unassigned by malloc, or by recv.      *)
IsEot(n, b) ==
  IF n = Len(PROT_EOT) /\ SubSeq(b.data, 1, n) = PROT_EOT
  THEN IF b.data[n + 1] = Junk THEN BOOLEAN ELSE {FALSE}
  ELSE {FALSE}

(* Fault: the end of the stream is not told from a message. *)
NeverEmpty(n) == FALSE
NothingCame(n) == n = 0 /\ buf.len = 0

(* recv gives the next bytes of the stream, as many as have arrived, and   *)
(* nothing only when the DPI has closed its end and all was read.          *)
Recv ==
  /\ pc = "recv"
  /\ \E n \in 0 .. Len(socket) :
       LET read == Store(buf, SubSeq(socket, 1, n)) IN
       /\ n <= Avail
       /\ n = 0 => closed /\ socket = << >>
       /\ socket' = SubSeq(socket, n + 1, Len(socket))
       /\ IF Full(n) THEN buf' = Grow(read) /\ UNCHANGED <<pc, msg, published>>
          ELSE buf' = read /\
               IF NothingCame(n) THEN Fetched(<< >>)
               ELSE \E eot \in IsEot(n, read) :
                      IF eot THEN Fetched(<< >>)
                      ELSE pc' = "received" /\ UNCHANGED <<msg, published>>
  /\ UNCHANGED <<acked, sent, writes, closed>>

(* log_syserr aborts. *)
Aborts ==
  /\ pc \in {"recv", "received"}
  /\ pc' = "dead"
  /\ UNCHANGED <<buf, msg, published, acked, dpi>>

(* data[len] is assigned a terminator, the acknowledgement is sent, and    *)
(* the bytes in use are copied.                                            *)
Acknowledge ==
  /\ pc = "received"
  /\ acked' = TRUE
  /\ Fetched(vmebuf_tostr(buf))
  /\ UNCHANGED <<buf, dpi>>

(* main measures the message, whatever it got, and publishes it.           *)
Publish ==
  /\ pc = "publish"
  /\ IF msg = << >> THEN pc' = "dead" /\ UNCHANGED published
     ELSE pc' = "exit" /\ published' = Front(msg)
  /\ UNCHANGED <<buf, msg, acked, dpi>>

Vipo ==
  \/ Connect \/ SelectReady \/ SelectGivesUp \/ Recv \/ Aborts
  \/ Acknowledge \/ Publish

Next == DpiWrites \/ DpiCloses \/ Vipo

(* vipo runs whenever it is not waiting in select or recv. *)
Fairness == WF_vars(Connect \/ SelectReady \/ Recv \/ Acknowledge \/ Publish)

Spec == Init /\ [][Next]_vars /\ Fairness

-----------------------------------------------------------------------------
Fetching == pc \in {"select", "recv", "received"}

(* Every variable has its type. *)
TypeOK ==
  /\ pc \in {"connect", "select", "recv", "received", "publish", "exit", "dead"}
  /\ WellFormed(buf)
  /\ msg \in Seq(Byte \cup {NUL}) /\ published \in Seq(Byte)
  /\ sent \in Seq(Byte) /\ writes \in 0 .. MaxSent /\ socket \in Seq(Byte)
  /\ acked \in BOOLEAN /\ closed \in BOOLEAN

(* The bytes the loop gathers over several receives and reallocations are  *)
(* those the DPI wrote, in order, none lost and none twice.                *)
StreamKept == Fetching => Contents(buf) \o socket = sent

(* The terminator that is assigned after the last receive lies within the  *)
(* allocation.                                                             *)
RoomForTerminator == pc = "received" => buf.len < buf.limit

(* Nothing is acknowledged or published but bytes the DPI wrote: the end   *)
(* of the stream is no message.                                            *)
OnlyWhatWasSent ==
  /\ acked => msg # << >> /\ Front(msg) # << >> /\ IsPrefix(Front(msg), sent)
  /\ published # << >> => acked /\ published = Front(msg)

(* Once the DPI has closed its end, the wait for a message ends.           *)
CloseEndsWait == closed ~> pc \notin {"select", "recv"}

-----------------------------------------------------------------------------
(* What comments of vipo.c say of the program, where it does otherwise.    *)

(* fetch_discovery_msg "will block until message receipt": once a message  *)
(* has come, it is returned.                                               *)
ReceiptEndsBlock == writes = MaxSent /\ socket = << >> ~> ~Fetching
=============================================================================

-------------------------------- MODULE Log --------------------------------
(***************************************************************************)
(* src/vme/log.c: the level, the streams and the lock the program sets,    *)
(* and the calls of log_log that threads make at the same time.  A line is *)
(* three writes: its head with the time, its text, its end; each one is    *)
(* atomic, as stdio makes it.  What is written is left out, but whose it   *)
(* is and whose time is in it are kept.                                    *)
(***************************************************************************)
EXTENDS Integers, Sequences

CONSTANTS
  Thread,
  Nobody,
  MaxMessages     \* how often a thread logs; once when no lock is set

ASSUME LogAssumption == Nobody \notin Thread

level_names == <<"TRACE", "DEBUG", "INFO", "WARN", "ERROR", "FATAL">>
LOG_WARN == 3
LOG_ERROR == 4
LOG_FATAL == 5

VARIABLES
  L,              \* what is set: level, lock, fp, quiet
  mutex,          \* the lock of the program, which L.lock takes and gives back
  tm,             \* whose time is in the structure that localtime returns
  pc, part,       \* where a thread is in log_log, and in the line it writes
  said,           \* how often it has called log_log
  output          \* what was written to stderr and to the file, whole lines left out

logvars == <<L, mutex, tm, pc, part, said, output>>

Stream == {"stderr", "fp"}

LogInit ==
  /\ L = [level |-> 0, lock |-> FALSE, fp |-> FALSE, quiet |-> FALSE]
  /\ mutex = Nobody /\ tm = Nobody
  /\ pc = [t \in Thread |-> "idle"] /\ part = [t \in Thread |-> 1]
  /\ said = [t \in Thread |-> 0]
  /\ output = [s \in Stream |-> << >>]

(* The level of that name: the loop ends before the last of the names. *)
NamedLevel(name) == {i \in 0 .. LOG_ERROR : <<level_names[i + 1]>> = name}
WithLevel(l, name) ==
  IF NamedLevel(name) = {} THEN l ELSE [l EXCEPT !.level = CHOOSE i \in NamedLevel(name) : TRUE]

(* The settings are made before the threads start. *)
log_set_lock == L' = [L EXCEPT !.lock = TRUE]
log_set_fp == L' = [L EXCEPT !.fp = TRUE]
log_set_quiet == \E enable \in BOOLEAN : L' = [L EXCEPT !.quiet = enable]

log_log(t, level) ==
  /\ pc[t] = "idle" /\ said[t] < (IF L.lock THEN MaxMessages ELSE 1)
  /\ said' = [said EXCEPT ![t] = @ + 1]
  /\ pc' = IF level < L.level THEN pc ELSE [pc EXCEPT ![t] = "lock"]
  /\ UNCHANGED <<L, mutex, tm, part, output>>

(* Fault: the lock is taken from whoever holds it. *)
LockAtOnce(t) ==
  /\ pc[t] = "lock"
  /\ mutex' = IF L.lock THEN t ELSE mutex
  /\ pc' = [pc EXCEPT ![t] = "time"]
  /\ UNCHANGED <<L, tm, part, said, output>>

lock(t) ==
  /\ pc[t] = "lock"
  /\ IF L.lock THEN mutex = Nobody /\ mutex' = t ELSE UNCHANGED mutex
  /\ pc' = [pc EXCEPT ![t] = "time"]
  /\ UNCHANGED <<L, tm, part, said, output>>

(* The streams a line is still to be written to, in their order. *)
AfterTime == IF ~L.quiet THEN "stderr" ELSE IF L.fp THEN "fp" ELSE "unlock"
AfterStderr == IF L.fp THEN "fp" ELSE "unlock"

(* Fault: the time is asked for once. *)
LocalTimeOnce(t) ==
  /\ pc[t] = "time"
  /\ tm' = IF tm = Nobody THEN t ELSE tm
  /\ pc' = [pc EXCEPT ![t] = AfterTime]
  /\ UNCHANGED <<L, mutex, part, said, output>>

LocalTime(t) ==
  /\ pc[t] = "time"
  /\ tm' = t
  /\ pc' = [pc EXCEPT ![t] = AfterTime]
  /\ UNCHANGED <<L, mutex, part, said, output>>

(* The first line of a stream is left out once it is there, in one piece.  *)
Whole(s) == Len(s) = 3 /\ \A k \in 1 .. 3 : s[k].part = k /\ s[k].by = s[1].by
Kept(s) == IF Whole(s) THEN << >> ELSE s

(* The head of a line holds the time that tm points to by now. *)
Write(t, stream) ==
  /\ pc[t] = stream
  /\ output' = [output EXCEPT ![stream] =
       Kept(Append(@, [by |-> t, part |-> part[t], time |-> IF part[t] = 1 THEN tm ELSE Nobody]))]
  /\ part' = [part EXCEPT ![t] = (@ % 3) + 1]
  /\ pc' = IF part[t] < 3 THEN pc
           ELSE [pc EXCEPT ![t] = IF stream = "stderr" THEN AfterStderr ELSE "unlock"]
  /\ UNCHANGED <<L, mutex, tm, said>>

(* Fault: the lock is given back only when something was written. *)
UnlockIfWritten(t) ==
  /\ pc[t] = "unlock"
  /\ mutex' = IF L.lock /\ ~L.quiet THEN Nobody ELSE mutex
  /\ pc' = [pc EXCEPT ![t] = "idle"]
  /\ UNCHANGED <<L, tm, part, said, output>>

unlock(t) ==
  /\ pc[t] = "unlock"
  /\ mutex' = IF L.lock THEN Nobody ELSE mutex
  /\ pc' = [pc EXCEPT ![t] = "idle"]
  /\ UNCHANGED <<L, tm, part, said, output>>

InCall(t) == lock(t) \/ LocalTime(t) \/ unlock(t) \/ \E stream \in Stream : Write(t, stream)

LogNext == \E t \in Thread :
  \/ \E level \in {LOG_WARN, LOG_FATAL} : log_log(t, level)
  \/ InCall(t)

-----------------------------------------------------------------------------
(* When a lock is set, lines are whole: the three writes of a line are     *)
(* next to each other in each stream, however the threads run (log_log).   *)
LinesWhole ==
  L.lock => \A s \in Stream : \A k \in DOMAIN output[s] :
    LET first == k - ((k - 1) % 3)
    IN  /\ output[s][k].part = k - first + 1
        /\ output[s][k].by = output[s][first].by

(* When a lock is set, the time in a line is the time of its message,      *)
(* although localtime gives every thread the same structure.               *)
TimeOfMessage ==
  L.lock => \A s \in Stream : \A k \in DOMAIN output[s] :
    output[s][k].part = 1 => output[s][k].time = output[s][k].by

(* Every call of log_log returns, the waits for the lock included.         *)
CallsReturn == \A t \in Thread : pc[t] # "idle" ~> pc[t] = "idle"
=============================================================================

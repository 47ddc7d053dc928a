--------------------------- MODULE StartupProofs ---------------------------
(***************************************************************************)
(* With a lock set, the lines of the log are whole and show their own      *)
(* time, for any number of threads, messages and files.  What makes it     *)
(* inductive is who holds the lock and what it has written of its line.    *)
(*                                                                         *)
(* The configuration is what the file asks for, for any file, any length   *)
(* of the line's buffer and any way to compare words.  What makes it       *)
(* inductive is that reading stands behind a line, with what the lines     *)
(* before it ask for.                                                      *)
(*                                                                         *)
(* The URL of a request holds the host of the file and the whole path of   *)
(* its names, for any URL, names and options and any version below 1000:   *)
(* the size build_rsuri computes is exactly enough.  What the server reads *)
(* in it is what the select was given: every parameter appended leaves the *)
(* pairs before it as they are and adds its own (OneMoreHeld).             *)
(***************************************************************************)
EXTENDS Startup, SequenceTheorems, FiniteSetTheorems, WellFoundedInduction, TLAPS

(* What a thread has written of a line before its part p. *)
Piece(t, p) ==
  IF p = 1 THEN << >>
  ELSE IF p = 2 THEN <<[by |-> t, part |-> 1, time |-> t]>>
  ELSE <<[by |-> t, part |-> 1, time |-> t], [by |-> t, part |-> 2, time |-> Nobody]>>

Inside == {"time", "stderr", "fp", "unlock"}

(* The threads and what they share have their types. *)
LogTypeOK ==
  /\ L \in [level : Int, lock : BOOLEAN, fp : BOOLEAN, quiet : BOOLEAN]
  /\ pc \in [Thread -> Inside \cup {"idle", "lock"}]
  /\ part \in [Thread -> 1 .. 3]
  /\ DOMAIN output = Stream

(* Until the threads start nothing is locked and nothing is written. *)
QuietBefore ==
  phase # "logging" =>
    /\ mutex = Nobody
    /\ \A t \in Thread : pc[t] = "idle" /\ part[t] = 1
    /\ \A s \in Stream : output[s] = << >>

(* A thread that is past lock holds it; in a stream is the piece of the    *)
(* line of the one that writes there, and tm is its time.                  *)
LockHeld ==
  /\ \A t \in Thread : pc[t] \in Inside => mutex = t
  /\ \A t \in Thread : pc[t] \notin Stream => part[t] = 1
  /\ \A t \in Thread : pc[t] \in Stream => tm = t
  /\ \A t \in Thread, s \in Stream : pc[t] = s => output[s] = Piece(t, part[t])
  /\ \A s \in Stream : (\A t \in Thread : pc[t] # s) => output[s] = << >>

LogInv == LogTypeOK /\ QuietBefore /\ (L.lock => LockHeld)

-----------------------------------------------------------------------------
LEMMA InitInv == Init => LogInv
  BY LogAssumption DEF Init, LogInit, LogInv, LogTypeOK, QuietBefore, LockHeld, Stream, Inside, Piece

(* What is set before the threads start finds nothing locked or written.   *)
LEMMA BeforeInv ==
  ASSUME LogInv, phase # "logging",
         L' \in [level : Int, lock : BOOLEAN, fp : BOOLEAN, quiet : BOOLEAN],
         UNCHANGED quietvars
  PROVE  LogInv'
<1>1. LogTypeOK'
  BY DEF LogInv, LogTypeOK, quietvars
<1>2. QuietBefore' /\ LockHeld'
  BY DEF LogInv, QuietBefore, LockHeld, quietvars, Stream, Inside, Piece
<1> QED
  BY <1>1, <1>2 DEF LogInv

(* Appending to the pieces, which are written out in full. *)
LEMMA AppendSecond ==
  ASSUME NEW a, NEW b
  PROVE  Append(<<a>>, b) = <<a, b>>
<1> DEFINE S == {a, b}
           s == Append(<<a>>, b)
           t == <<a, b>>
<1>1. <<a>> \in Seq(S) /\ b \in S /\ t \in Seq(S)
  OBVIOUS
<1>2. s \in Seq(S) /\ Len(s) = 2 /\ s[1] = a /\ s[2] = b
  BY <1>1, AppendProperties
<1>3. Len(t) = 2 /\ t[1] = a /\ t[2] = b
  OBVIOUS
<1> HIDE DEF S, s, t
<1>4. \A i \in 1 .. Len(s) : s[i] = t[i]
  BY <1>2, <1>3
<1>5. s = t
  BY <1>1, <1>2, <1>3, <1>4, SeqEqual
<1> QED BY <1>5 DEF s, t

LEMMA AppendThird ==
  ASSUME NEW a, NEW b, NEW c
  PROVE  Append(<<a, b>>, c) = <<a, b, c>>
<1> DEFINE S == {a, b, c}
           s == Append(<<a, b>>, c)
           t == <<a, b, c>>
<1>1. <<a, b>> \in Seq(S) /\ c \in S /\ t \in Seq(S)
  OBVIOUS
<1>2. s \in Seq(S) /\ Len(s) = 3 /\ s[1] = a /\ s[2] = b /\ s[3] = c
  BY <1>1, AppendProperties
<1>3. Len(t) = 3 /\ t[1] = a /\ t[2] = b /\ t[3] = c
  OBVIOUS
<1> HIDE DEF S, s, t
<1>4. \A i \in 1 .. Len(s) : s[i] = t[i]
  BY <1>2, <1>3
<1>5. s = t
  BY <1>1, <1>2, <1>3, <1>4, SeqEqual
<1> QED BY <1>5 DEF s, t

(* One write goes behind the piece that is there, or ends the line.        *)
LEMMA WriteAppends ==
  ASSUME NEW t, NEW p \in 1 .. 3, tm = t
  PROVE  Kept(Append(Piece(t, p), [by |-> t, part |-> p, time |-> IF p = 1 THEN tm ELSE Nobody]))
           = Piece(t, (p % 3) + 1)
<1> DEFINE head == [by |-> t, part |-> 1, time |-> t]
           body == [by |-> t, part |-> 2, time |-> Nobody]
           end == [by |-> t, part |-> 3, time |-> Nobody]
           written == [by |-> t, part |-> p, time |-> IF p = 1 THEN tm ELSE Nobody]
<1> SUFFICES Kept(Append(Piece(t, p), written)) = Piece(t, (p % 3) + 1)
  OBVIOUS
<1>1. CASE p = 1
  <2>1. Piece(t, p) = << >> /\ Piece(t, (p % 3) + 1) = <<head>> /\ written = head
    BY <1>1 DEF Piece
  <2>2. Append(<< >>, head) = <<head>> /\ ~Whole(<<head>>)
    BY DEF Whole
  <2> HIDE DEF head, written
  <2> QED
    BY <2>1, <2>2 DEF Kept
<1>2. CASE p = 2
  <2>1. Piece(t, p) = <<head>> /\ Piece(t, (p % 3) + 1) = <<head, body>> /\ written = body
    BY <1>2 DEF Piece
  <2>2. Append(<<head>>, body) = <<head, body>> /\ ~Whole(<<head, body>>)
    BY AppendSecond DEF Whole
  <2> HIDE DEF head, body, written
  <2> QED
    BY <2>1, <2>2 DEF Kept
<1>3. CASE p = 3
  <2>1. Piece(t, p) = <<head, body>> /\ Piece(t, (p % 3) + 1) = << >> /\ written = end
    BY <1>3 DEF Piece
  <2>2. Append(<<head, body>>, end) = <<head, body, end>>
    BY AppendThird
  <2>3. Whole(<<head, body, end>>)
    BY DEF Whole
  <2> HIDE DEF head, body, end, written
  <2> QED
    BY <2>1, <2>2, <2>3 DEF Kept
<1> QED
  BY <1>1, <1>2, <1>3

-----------------------------------------------------------------------------
(* log_log itself, and the steps of a thread that is in it. *)
LEMMA CallKeeps ==
  ASSUME LogInv, phase = "logging", phase' = phase, NEW t \in Thread, NEW level,
         log_log(t, level)
  PROVE  LogInv'
BY DEF log_log, LogInv, LogTypeOK, QuietBefore, LockHeld, Stream, Inside

LEMMA LockKeeps ==
  ASSUME LogInv, phase = "logging", phase' = phase, NEW t \in Thread, lock(t)
  PROVE  LogInv'
BY LogAssumption DEF lock, LogInv, LogTypeOK, QuietBefore, LockHeld, Stream, Inside

LEMMA TimeKeeps ==
  ASSUME LogInv, phase = "logging", phase' = phase, NEW t \in Thread, LocalTime(t)
  PROVE  LogInv'
BY LogAssumption DEF LocalTime, AfterTime, LogInv, LogTypeOK, QuietBefore, LockHeld, Stream, Inside, Piece

LEMMA UnlockKeeps ==
  ASSUME LogInv, phase = "logging", phase' = phase, NEW t \in Thread, unlock(t)
  PROVE  LogInv'
BY LogAssumption DEF unlock, LogInv, LogTypeOK, QuietBefore, LockHeld, Stream, Inside

LEMMA WriteKeeps ==
  ASSUME LogInv, phase = "logging", phase' = phase, NEW t \in Thread, NEW s \in Stream,
         Write(t, s)
  PROVE  LogInv'
<1>1. LogTypeOK'
  BY DEF Write, AfterStderr, LogInv, LogTypeOK, Inside, Stream
<1>2. QuietBefore'
  BY DEF QuietBefore
<1>3. L.lock => LockHeld'
  <2> SUFFICES ASSUME L.lock PROVE LockHeld'
    OBVIOUS
  <2>1. /\ pc[t] = s /\ part[t] \in 1 .. 3 /\ tm = t /\ mutex = t /\ output[s] = Piece(t, part[t])
        /\ \A u \in Thread : u # t => pc[u] \notin Inside
    BY DEF Write, LogInv, LogTypeOK, LockHeld, Stream, Inside
  <2>2. output'[s] = Piece(t, part'[t]) /\ part'[t] = (part[t] % 3) + 1
    <3> DEFINE written(p) == [by |-> t, part |-> p, time |-> IF p = 1 THEN tm ELSE Nobody]
    <3>1. output'[s] = Kept(Append(output[s], written(part[t])))
            /\ part'[t] = (part[t] % 3) + 1
      BY DEF Write, LogInv, LogTypeOK
    <3>2. Kept(Append(Piece(t, part[t]), written(part[t]))) = Piece(t, (part[t] % 3) + 1)
      BY <2>1, WriteAppends
    <3> HIDE DEF written
    <3> QED
      BY <2>1, <3>1, <3>2
  <2>3. \A z \in Stream : z # s => output'[z] = << >>
    BY <2>1 DEF Write, LogInv, LogTypeOK, LockHeld, Stream, Inside
  <2>4. /\ mutex' = mutex /\ tm' = tm
        /\ \A u \in Thread : u # t => pc'[u] = pc[u] /\ part'[u] = part[u]
    BY DEF Write, LogInv, LogTypeOK
  <2>5. CASE part[t] < 3
    <3>1. pc'[t] = s
      BY <2>1, <2>5 DEF Write
    <3> QED
      BY <2>1, <2>2, <2>3, <2>4, <3>1 DEF LockHeld, LogInv, Stream, Inside
  <2>6. CASE part[t] = 3
    <3>1. part'[t] = 1 /\ pc'[t] \in Inside \ {s, "time"} /\ output'[s] = << >>
      BY <2>1, <2>2, <2>6 DEF Write, AfterStderr, LogInv, LogTypeOK, Stream, Inside, Piece
    <3> QED
      BY <2>1, <2>2, <2>3, <2>4, <3>1 DEF LockHeld, LogInv, Stream, Inside, Piece
  <2> QED
    BY <2>1, <2>5, <2>6
<1> QED
  BY <1>1, <1>2, <1>3 DEF LogInv, Write

-----------------------------------------------------------------------------
LEMMA StepInv == LogInv /\ [Next]_vars => LogInv'
<1> SUFFICES ASSUME LogInv, [Next]_vars PROVE LogInv'
  OBVIOUS
<1>1. CASE Open
  BY <1>1, BeforeInv DEF Open, logvars, quietvars, LogInv, LogTypeOK
<1>2. CASE ReadLine
  BY <1>2, BeforeInv DEF ReadLine, logvars, quietvars, LogInv, LogTypeOK
<1>3. CASE ReadEnd
  <2>1. L' \in [level : Int, lock : BOOLEAN, fp : BOOLEAN, quiet : BOOLEAN]
    BY <1>3 DEF ReadEnd, WithLevel, NamedLevel, LogInv, LogTypeOK, LOG_WARN, LOG_ERROR
  <2> QED
    BY <1>3, <2>1, BeforeInv DEF ReadEnd
<1>4. CASE Configure
  <2>1. L' \in [level : Int, lock : BOOLEAN, fp : BOOLEAN, quiet : BOOLEAN]
    BY <1>4 DEF Configure, log_set_lock, log_set_fp, log_set_quiet, LogInv, LogTypeOK
  <2> QED
    BY <1>4, <2>1, BeforeInv DEF Configure
<1>5. CASE StartThreads
  BY <1>5, BeforeInv DEF StartThreads, logvars, quietvars, LogInv, LogTypeOK
<1>6. CASE OpenHandle
  BY <1>6, BeforeInv DEF OpenHandle, logvars, quietvars, LogInv, LogTypeOK
<1>7. CASE Request
  BY <1>7, BeforeInv DEF Request, logvars, quietvars, LogInv, LogTypeOK
<1>8. CASE RequestDone
  BY <1>8 DEF RequestDone, logvars, LogInv, LogTypeOK, QuietBefore, LockHeld
<1>9. CASE Run
  BY <1>9, CallKeeps, LockKeeps, TimeKeeps, UnlockKeeps, WriteKeeps DEF Run, LogNext, InCall
<1>10. CASE UNCHANGED vars
  BY <1>10 DEF vars, logvars, LogInv, LogTypeOK, QuietBefore, LockHeld
<1> QED
  BY <1>1, <1>2, <1>3, <1>4, <1>5, <1>6, <1>7, <1>8, <1>9, <1>10 DEF Next

(* The inductive invariant holds in every state of the program.            *)
THEOREM Invariance == Spec => []LogInv
<1>1. Init => LogInv
  BY InitInv
<1>2. LogInv /\ [Next]_vars => LogInv'
  BY StepInv
<1> QED
  BY <1>1, <1>2, PTL DEF Spec

(* What is in a stream is the beginning of one line. *)
LEMMA PiecesWhole ==
  ASSUME NEW t, NEW p \in 1 .. 3, NEW k \in DOMAIN Piece(t, p)
  PROVE  /\ k - ((k - 1) % 3) = 1
         /\ Piece(t, p)[k].part = k /\ Piece(t, p)[k].by = t
         /\ 1 \in DOMAIN Piece(t, p) /\ Piece(t, p)[1].by = t
         /\ k = 1 => Piece(t, p)[k].time = t
<1>1. CASE p = 1
  BY <1>1 DEF Piece
<1>2. CASE p = 2
  BY <1>2 DEF Piece
<1>3. CASE p = 3
  <2>1. Piece(t, p) = <<[by |-> t, part |-> 1, time |-> t], [by |-> t, part |-> 2, time |-> Nobody]>>
    BY <1>3 DEF Piece
  <2>2. k \in {1, 2}
    BY <2>1
  <2> QED
    BY <2>1, <2>2
<1> QED
  BY <1>1, <1>2, <1>3

LEMMA StreamIsPiece ==
  ASSUME LogInv, L.lock, NEW s \in Stream
  PROVE  output[s] = << >> \/ \E t \in Thread : part[t] \in 1 .. 3 /\ output[s] = Piece(t, part[t])
BY DEF LogInv, LogTypeOK, LockHeld

(* With a lock set, the writes of a line are next to each other, for any   *)
(* number of threads and of messages (log_log).                            *)
THEOREM LinesAreWhole == Spec => []LinesWhole
<1>1. LogInv => LinesWhole
  <2> SUFFICES ASSUME LogInv, L.lock, NEW s \in Stream, NEW k \in DOMAIN output[s]
               PROVE  LET first == k - ((k - 1) % 3)
                      IN  /\ output[s][k].part = k - first + 1
                          /\ output[s][k].by = output[s][first].by
    BY DEF LinesWhole
  <2>1. PICK t \in Thread : part[t] \in 1 .. 3 /\ output[s] = Piece(t, part[t])
    BY StreamIsPiece
  <2>2. /\ k - ((k - 1) % 3) = 1
        /\ output[s][k].part = k /\ output[s][k].by = t /\ output[s][1].by = t
    BY <2>1, PiecesWhole
  <2>3. k \in Nat
    BY <2>1 DEF Piece
  <2> QED
    BY <2>2, <2>3
<1> QED
  BY <1>1, Invariance, PTL

(* With a lock set, a line shows the time of its own message, although all *)
(* threads share what localtime returns (log_log).                         *)
THEOREM TimesOfMessages == Spec => []TimeOfMessage
<1>1. LogInv => TimeOfMessage
  BY StreamIsPiece, PiecesWhole DEF TimeOfMessage
<1> QED
  BY <1>1, Invariance, PTL

-----------------------------------------------------------------------------
(* The least and the greatest of a set of numbers. *)
LEMMA LeastNat ==
  ASSUME NEW S \in SUBSET Nat, S # {}
  PROVE  \E m \in S : \A n \in S : m <= n
<1> DEFINE R == OpToRel(<, Nat)
<1>1. IsWellFoundedOn(R, Nat)
  BY NatLessThanWellFounded
<1>2. \A x, y \in Nat : <<y, x>> \in R <=> y < x
  BY DEF OpToRel
<1>3. \E x \in S : \A y \in S : ~ (<<y, x>> \in R)
  <2> HIDE DEF R
  <2> QED
    BY <1>1, WFMin
<1>4. PICK x \in S : \A y \in S : ~ (<<y, x>> \in R)
  BY <1>3
<1> HIDE DEF R
<1>5. \A y \in S : ~ (y < x)
  BY <1>2, <1>4
<1> QED
  BY <1>5

LEMMA MinIs ==
  ASSUME NEW S \in SUBSET Nat, S # {}
  PROVE  Min(S) \in S /\ \A n \in S : Min(S) <= n
BY LeastNat DEF Min

LEMMA MinOf ==
  ASSUME NEW S \in SUBSET Nat, NEW m \in S, \A n \in S : m <= n
  PROVE  Min(S) = m
<1>1. Min(S) \in S /\ \A n \in S : Min(S) <= n
  BY MinIs
<1>2. Min(S) \in Nat /\ m \in Nat /\ Min(S) <= m /\ m <= Min(S)
  BY <1>1
<1> QED
  BY <1>2

LEMMA MaxOf ==
  ASSUME NEW S \in SUBSET Nat, NEW m \in S, \A n \in S : n <= m
  PROVE  Max(S) = m
<1>1. Max(S) \in S /\ \A n \in S : n <= Max(S)
  BY DEF Max
<1>2. Max(S) \in Nat /\ m \in Nat /\ Max(S) <= m /\ m <= Max(S)
  BY <1>1
<1> QED
  BY <1>2

(* A set of numbers that are all at most n has a greatest one. *)
LEMMA MaxIs ==
  ASSUME NEW n \in Nat, NEW S \in SUBSET (0 .. n), S # {}
  PROVE  Max(S) \in S /\ \A m \in S : m <= Max(S)
<1> DEFINE T == {n - m : m \in S}
<1>1. T \in SUBSET Nat /\ T # {}
  <2>1. \A m \in S : n - m \in Nat
    OBVIOUS
  <2> QED
    BY <2>1
<1>2. PICK t \in T : \A u \in T : t <= u
  BY <1>1, LeastNat
<1>3. PICK m \in S : t = n - m
  BY <1>2
<1>4. \A k \in S : k <= m
  <2> SUFFICES ASSUME NEW k \in S PROVE k <= m
    OBVIOUS
  <2>1. t <= n - k
    BY <1>2
  <2> QED
    BY <1>3, <2>1
<1> QED
  BY <1>4 DEF Max

LEMMA BeforeIs ==
  ASSUME NEW s \in Seq(STRING), NEW set
  PROVE  /\ Before(s, set) \in 0 .. Len(s)
         /\ \A k \in 1 .. Before(s, set) : s[k] \notin set
         /\ Before(s, set) < Len(s) => s[Before(s, set) + 1] \in set
<1> DEFINE M == {k - 1 : k \in {j \in DOMAIN s : s[j] \in set}} \cup {Len(s)}
<1>1. Len(s) \in Nat /\ DOMAIN s = 1 .. Len(s)
  BY LenProperties
<1>2. M \in SUBSET Nat /\ M # {}
  BY <1>1
<1>3. Min(M) \in M /\ \A m \in M : Min(M) <= m
  BY <1>2, MinIs
<1>4. Before(s, set) = Min(M)
  BY DEF Before
<1>5. ASSUME NEW k \in 1 .. Min(M) PROVE s[k] \notin set
  <2>1. SUFFICES ASSUME s[k] \in set PROVE FALSE
    OBVIOUS
  <2>2. Len(s) \in M
    OBVIOUS
  <2>3. k \in 1 .. Len(s)
    BY <1>1, <1>2, <1>3, <2>2
  <2>4. k - 1 \in M
    BY <1>1, <2>1, <2>3
  <2>5. Min(M) <= k - 1 /\ Min(M) \in Nat
    BY <1>2, <1>3, <2>4
  <2> QED
    BY <2>5
<1>6. Min(M) \in 0 .. Len(s)
  BY <1>1, <1>3
<1>7. Min(M) < Len(s) => s[Min(M) + 1] \in set
  <2> SUFFICES ASSUME Min(M) < Len(s) PROVE s[Min(M) + 1] \in set
    OBVIOUS
  <2>1. PICK k \in {j \in DOMAIN s : s[j] \in set} : Min(M) = k - 1
    BY <1>1, <1>3
  <2>2. k = Min(M) + 1
    BY <1>1, <2>1
  <2> QED
    BY <2>1, <2>2
<1> QED
  BY <1>4, <1>5, <1>6, <1>7

-----------------------------------------------------------------------------
(* Where reading may stand: at the beginning or behind a line. *)
Stops(f) == LineEnds(f) \cup {0}
NextEnd(f, n, e) == e \in LineEnds(f) /\ n < e /\ \A k \in LineEnds(f) : ~(n < k /\ k < e)

LEMMA LineIs ==
  ASSUME NEW f \in Seq(STRING), NEW n \in Stops(f), NEW e, NextEnd(f, n, e)
  PROVE  Line(f, e) = SubSeq(f, n + 1, e) /\ Line(f, e) \in Seq(STRING) /\ Len(Line(f, e)) = e - n
<1>1. Len(f) \in Nat /\ DOMAIN f = 1 .. Len(f) /\ \A k \in 1 .. Len(f) : f[k] \in STRING
  BY LenProperties, ElementOfSeq
<1>2. n \in 0 .. Len(f) /\ e \in 1 .. Len(f) /\ n < e
  BY <1>1 DEF Stops, LineEnds, NextEnd
<1> DEFINE S == {k \in LineEnds(f) : k < e} \cup {0}
<1>3. n \in S /\ S \in SUBSET Nat
  BY <1>1, <1>2 DEF Stops, LineEnds
<1>4. \A k \in S : k <= n
  BY <1>1, <1>2 DEF Stops, LineEnds, NextEnd
<1>5. Max(S) = n
  BY <1>3, <1>4, MaxOf
<1>6. Line(f, e) = SubSeq(f, n + 1, e)
  BY <1>5 DEF Line
<1>7. SubSeq(f, n + 1, e) \in Seq(STRING) /\ Len(SubSeq(f, n + 1, e)) = IF n + 1 <= e THEN e - (n + 1) + 1 ELSE 0
  <2>1. \A k \in n + 1 .. e : f[k] \in STRING
    BY <1>1, <1>2
  <2>2. n + 1 \in Int /\ e \in Int
    BY <1>2
  <2> QED
    BY <2>1, <2>2, SubSeqProperties
<1> QED
  BY <1>2, <1>6, <1>7

Short(f) == \A end \in LineEnds(f) : Len(Line(f, end)) < MAXLINELENGTH

LEMMA FgetsIs ==
  ASSUME NEW f \in Seq(STRING), NEW n \in Stops(f), n < Len(f), Short(f)
  PROVE  \E e : NextEnd(f, n, e) /\ fgets(f, n) = Line(f, e)
<1>1. Len(f) \in Nat /\ DOMAIN f = 1 .. Len(f) /\ \A k \in 1 .. Len(f) : f[k] \in STRING
  BY LenProperties, ElementOfSeq
<1>2. n \in 0 .. Len(f) - 1
  BY <1>1 DEF Stops, LineEnds
<1> DEFINE a == Ahead(f, n)
           b == Before(a, {"\n"})
           e == IF b < Len(a) THEN n + b + 1 ELSE Len(f)
<1>3. /\ a \in Seq(STRING) /\ Len(a) = Len(f) - n
      /\ \A k \in 1 .. Len(f) - n : a[k] = f[n + k]
  <2>1. \A k \in n + 1 .. Len(f) : f[k] \in STRING
    BY <1>1, <1>2
  <2>2. n + 1 \in Int /\ Len(f) \in Int
    BY <1>1, <1>2
  <2>3. /\ SubSeq(f, n + 1, Len(f)) \in Seq(STRING)
        /\ Len(SubSeq(f, n + 1, Len(f))) = IF n + 1 <= Len(f) THEN Len(f) - (n + 1) + 1 ELSE 0
        /\ \A k \in 1 .. Len(f) - (n + 1) + 1 : SubSeq(f, n + 1, Len(f))[k] = f[n + 1 + k - 1]
    BY <2>1, <2>2, SubSeqProperties
  <2> QED
    BY <1>1, <1>2, <2>3 DEF Ahead
<1> HIDE DEF a
<1>4. b \in 0 .. Len(a) /\ (\A k \in 1 .. b : a[k] # "\n") /\ (b < Len(a) => a[b + 1] = "\n")
  BY <1>3, BeforeIs
<1> HIDE DEF b
<1>5. e \in n + 1 .. Len(f) /\ e - n \in 1 .. Len(f) - n
  BY <1>1, <1>2, <1>3, <1>4
<1>6. e \in LineEnds(f)
  <2>1. CASE b < Len(a)
    <3>1. a[b + 1] = f[n + (b + 1)]
      BY <1>3, <1>4, <2>1
    <3>2. n + (b + 1) = e
      BY <1>2, <1>4, <2>1
    <3> HIDE DEF e
    <3>3. f[e] = "\n"
      BY <1>4, <2>1, <3>1, <3>2
    <3>4. e \in DOMAIN f
      <4>1. e \in 1 .. Len(f)
        BY <1>1, <1>2, <1>5
      <4> QED
        BY <1>1, <4>1
    <3> QED
      BY <3>3, <3>4 DEF LineEnds
  <2>2. CASE ~(b < Len(a))
    BY <1>1, <1>2, <2>2 DEF LineEnds
  <2> QED
    BY <2>1, <2>2
<1>7. ASSUME NEW k \in LineEnds(f), n < k, k < e PROVE FALSE
  <2>1. k \in 1 .. Len(f) /\ f[k] = "\n"
    BY <1>1, <1>5, <1>7 DEF LineEnds
  <2>2. k - n \in 1 .. b
    BY <1>1, <1>2, <1>3, <1>4, <1>7, <2>1
  <2>3. a[k - n] = f[n + (k - n)]
    BY <1>3, <1>4, <2>2
  <2> QED
    BY <1>2, <1>4, <2>1, <2>2, <2>3
<1>8. NextEnd(f, n, e)
  BY <1>1, <1>2, <1>5, <1>6, <1>7 DEF NextEnd
<1> HIDE DEF e
<1>9. Line(f, e) = SubSeq(f, n + 1, e) /\ Len(Line(f, e)) = e - n
  BY <1>8, LineIs
<1>10. e - n <= MAXLINELENGTH - 1 /\ MAXLINELENGTH \in Nat
  BY <1>1, <1>2, <1>5, <1>6, <1>9, LineAssumption DEF Short
<1> DEFINE M == {b + 1, MAXLINELENGTH - 1, Len(f) - n}
<1>11. e - n \in M /\ M \in SUBSET Nat /\ \A m \in M : e - n <= m
  <2>1. MAXLINELENGTH - 1 \in Nat /\ b + 1 \in Nat /\ Len(f) - n \in Nat
    BY <1>1, <1>2, <1>3, <1>4, LineAssumption
  <2>2. \/ e - n = b + 1 /\ b + 1 <= Len(f) - n
        \/ e - n = Len(f) - n /\ Len(f) - n <= b + 1
    <3>0. b \in Nat /\ n \in Nat /\ Len(f) \in Nat /\ n < Len(f) /\ Len(a) = Len(f) - n /\ b <= Len(a)
      BY <1>1, <1>2, <1>3, <1>4
    <3>1. CASE b < Len(a)
      <4>1. e = n + b + 1
        BY <3>1 DEF e
      <4> QED
        BY <3>0, <3>1, <4>1
    <3>2. CASE ~(b < Len(a))
      <4>1. e = Len(f)
        BY <3>2 DEF e
      <4> QED
        BY <3>0, <3>2, <4>1
    <3> QED
      BY <3>1, <3>2
  <2>3. e - n \in Int
    BY <1>5
  <2> QED
    BY <1>10, <2>1, <2>2, <2>3
<1>12. Min(M) = e - n
  BY <1>11, MinOf
<1>13. fgets(f, n) = SubSeq(a, 1, e - n)
  BY <1>12 DEF fgets, a, b
<1>14. SubSeq(a, 1, e - n) = SubSeq(f, n + 1, e)
  <2>1. n + 1 \in 1 .. Len(f) /\ Len(f) \in 1 .. Len(f)
        /\ 1 \in 1 .. Len(f) - (n + 1) + 1 /\ e - n \in 1 .. Len(f) - (n + 1) + 1
    BY <1>1, <1>2, <1>5
  <2> HIDE DEF M
  <2>2. SubSeq(SubSeq(f, n + 1, Len(f)), 1, e - n) = SubSeq(f, n + 1 + 1 - 1, n + 1 + (e - n) - 1)
    BY <2>1, SubSeqOfSubSeq, SMTT(60)
  <2>3. n + 1 + 1 - 1 = n + 1 /\ n + 1 + (e - n) - 1 = e
    BY <1>1, <1>2, <1>5
  <2> QED
    BY <2>2, <2>3 DEF a, Ahead
<1> QED
  BY <1>8, <1>9, <1>13, <1>14

-----------------------------------------------------------------------------
LEMMA WordIs ==
  ASSUME NEW s \in Seq(STRING)
  PROVE  remove_spaces(s) = FirstWord(s)
<1>1. Len(s) \in Nat /\ DOMAIN s = 1 .. Len(s) /\ \A k \in 1 .. Len(s) : s[k] \in STRING
  BY LenProperties, ElementOfSeq
<1> DEFINE S == {k \in DOMAIN s : s[k] \notin Space} \cup {Len(s) + 1}
           a == Min(S)
           rest == SubSeq(s, a, Len(s))
           b == Before(rest, Space)
           in == {k \in DOMAIN s : s[k] \notin Space
                    /\ \A i, j \in 1 .. k : i < j /\ s[i] \notin Space => s[j] \notin Space}
<1>2. S \in SUBSET Nat /\ S # {}
  BY <1>1
<1>3. a \in S /\ \A k \in S : a <= k
  BY <1>2, MinIs
<1> HIDE DEF a
<1>4. a \in 1 .. Len(s) + 1
  BY <1>1, <1>3
<1>5. \A k \in 1 .. Len(s) : k < a => s[k] \in Space
  BY <1>1, <1>3
<1>6. remove_spaces(s) = SubSeq(rest, 1, b)
  BY DEF remove_spaces, a
<1>7. FirstWord(s) = IF in = {} THEN << >> ELSE SubSeq(s, Min(in), Max(in))
  BY DEF FirstWord
<1> HIDE DEF b, in
<1>8. CASE a = Len(s) + 1
  <2>1. in = {}
    BY <1>1, <1>5, <1>8 DEF in
  <2>2. rest = << >>
    BY <1>1, <1>8, SubSeqEmpty
  <2>3. << >> \in Seq(STRING) /\ Len(<< >>) = 0
    BY EmptySeq
  <2>4. b = 0
    <3>1. Before(<< >>, Space) \in 0 .. Len(<< >>)
      BY <2>3, BeforeIs
    <3> QED
      BY <2>2, <2>3, <3>1 DEF b
  <2>5. SubSeq(rest, 1, b) = << >>
    BY <2>4, SubSeqEmpty
  <2> QED
    BY <1>6, <1>7, <2>1, <2>5
<1>9. CASE a <= Len(s)
  <2>1. a \in 1 .. Len(s) /\ s[a] \notin Space
    BY <1>1, <1>3, <1>4, <1>9
  <2>2. /\ rest \in Seq(STRING) /\ Len(rest) = Len(s) - a + 1
        /\ \A k \in 1 .. Len(s) - a + 1 : rest[k] = s[a + k - 1]
    <3>1. \A k \in a .. Len(s) : s[k] \in STRING
      BY <1>1, <2>1
    <3>2. a \in Int /\ Len(s) \in Int
      BY <1>1, <2>1
    <3> QED
      BY <1>9, <3>1, <3>2, SubSeqProperties
  <2>3. /\ b \in 0 .. Len(rest)
        /\ \A k \in 1 .. b : rest[k] \notin Space
        /\ b < Len(rest) => rest[b + 1] \in Space
    BY <2>2, BeforeIs DEF b
  <2> HIDE DEF rest
  <2>4. b # 0
    <3>1. SUFFICES ASSUME b = 0 PROVE FALSE
      OBVIOUS
    <3>2. 0 < Len(rest) /\ 1 \in 1 .. Len(s) - a + 1
      BY <1>1, <2>1, <2>2
    <3>3. rest[1] = s[a + 1 - 1] /\ a + 1 - 1 = a /\ b + 1 = 1
      BY <2>1, <2>2, <3>1, <3>2
    <3> QED
      BY <2>1, <2>3, <3>1, <3>2, <3>3
  <2> DEFINE z == a + b - 1
  <2>5. z \in a .. Len(s) /\ b \in 1 .. Len(s) - a + 1
    BY <1>1, <2>1, <2>2, <2>3, <2>4
  <2>6. \A k \in a .. z : s[k] \notin Space
    <3> SUFFICES ASSUME NEW k \in a .. z PROVE s[k] \notin Space
      OBVIOUS
    <3>1. k - a + 1 \in 1 .. b /\ k - a + 1 \in 1 .. Len(s) - a + 1
      BY <1>1, <2>1, <2>5
    <3>2. rest[k - a + 1] = s[a + (k - a + 1) - 1] /\ a + (k - a + 1) - 1 = k
      BY <2>1, <2>2, <3>1
    <3> QED
      BY <2>3, <3>1, <3>2
  <2>7. z < Len(s) => s[z + 1] \in Space
    <3> SUFFICES ASSUME z < Len(s) PROVE s[z + 1] \in Space
      OBVIOUS
    <3>1. b < Len(rest) /\ b + 1 \in 1 .. Len(s) - a + 1 /\ a + (b + 1) - 1 = z + 1
      BY <1>1, <2>1, <2>2, <2>5
    <3> QED
      BY <2>2, <2>3, <3>1
  <2> HIDE DEF z
  <2>8. ASSUME NEW k \in a .. z PROVE k \in in
    <3>1. k \in 1 .. Len(s) /\ s[k] \notin Space
      BY <1>1, <2>1, <2>5, <2>6
    <3>2. ASSUME NEW i \in 1 .. k, NEW j \in 1 .. k, i < j, s[i] \notin Space PROVE s[j] \notin Space
      <4>1. a <= i
        BY <1>1, <1>5, <2>1, <3>1, <3>2
      <4>2. j \in a .. z
        BY <2>1, <2>5, <3>2, <4>1
      <4> QED
        BY <2>6, <4>2
    <3> QED
      BY <1>1, <3>1, <3>2 DEF in
  <2>9. ASSUME NEW k \in in PROVE k \in a .. z
    <3>1. /\ k \in 1 .. Len(s) /\ s[k] \notin Space
          /\ \A i, j \in 1 .. k : i < j /\ s[i] \notin Space => s[j] \notin Space
      BY <1>1 DEF in
    <3>2. a <= k
      BY <1>1, <1>5, <2>1, <3>1
    <3>3. SUFFICES ASSUME z < k PROVE FALSE
      BY <2>1, <2>5, <3>1, <3>2
    <3>4. z < Len(s) /\ a \in 1 .. k /\ z + 1 \in 1 .. k /\ a < z + 1
      BY <1>1, <2>1, <2>5, <3>1, <3>2, <3>3
    <3> QED
      BY <2>1, <2>7, <3>1, <3>4
  <2>10. in = a .. z
    BY <2>8, <2>9
  <2>11. a \in in /\ z \in in /\ in \in SUBSET Nat /\ in # {} /\ \A k \in in : a <= k /\ k <= z
    <3>1. a \in Nat /\ z \in Nat /\ a <= z
      BY <1>1, <2>1, <2>5
    <3>2. a \in a .. z /\ z \in a .. z /\ \A k \in a .. z : k \in Nat /\ a <= k /\ k <= z
      BY <3>1
    <3> QED
      BY <2>10, <3>2
  <2>12. Min(in) = a /\ Max(in) = z
    BY <2>11, MinOf, MaxOf
  <2>13. SubSeq(rest, 1, b) = SubSeq(s, a, z)
    <3>1. Len(s) \in 1 .. Len(s) /\ 1 \in 1 .. Len(s) - a + 1 /\ b \in 1 .. Len(s) - a + 1
      BY <1>1, <2>1, <2>5
    <3>2. SubSeq(SubSeq(s, a, Len(s)), 1, b) = SubSeq(s, a + 1 - 1, a + b - 1)
      BY <2>1, <3>1, SubSeqOfSubSeq, SMTT(60)
    <3>3. a + 1 - 1 = a
      BY <2>1
    <3> QED
      BY <3>2, <3>3 DEF rest, z
  <2> QED
    BY <1>6, <1>7, <2>11, <2>12, <2>13
<1> QED
  BY <1>1, <1>4, <1>8, <1>9

(* What the code takes of a line is its key and its value. *)
LEMMA LineParts ==
  ASSUME NEW s \in Seq(STRING), Equals(s) # {}
  PROVE  KeyOf(s) = Left(s) /\ ValueOf(s) = Right(s)
<1>1. Len(s) \in Nat /\ DOMAIN s = 1 .. Len(s) /\ \A k \in 1 .. Len(s) : s[k] \in STRING
  BY LenProperties, ElementOfSeq
<1> DEFINE m == Min(Equals(s))
           b == Before(s, {"="})
<1>2. m \in Equals(s) /\ \A k \in Equals(s) : m <= k
  <2>1. Equals(s) \in SUBSET Nat
    BY <1>1 DEF Equals
  <2> QED
    BY <2>1, MinIs
<1>3. b \in 0 .. Len(s) /\ (\A k \in 1 .. b : s[k] # "=") /\ (b < Len(s) => s[b + 1] = "=")
  BY BeforeIs
<1> HIDE DEF m, b
<1>4. m \in 1 .. Len(s) /\ s[m] = "="
  BY <1>1, <1>2 DEF Equals
<1>5. b = m - 1
  <2>1. b < m
    BY <1>1, <1>3, <1>4
  <2>2. b < Len(s) /\ b + 1 \in 1 .. Len(s)
    BY <1>1, <1>3, <1>4, <2>1
  <2>3. b + 1 \in Equals(s)
    BY <1>1, <1>3, <2>2 DEF Equals
  <2>4. m <= b + 1
    BY <1>2, <2>3
  <2> QED
    BY <1>3, <1>4, <2>1, <2>4
<1>6. b + 2 = m + 1
  BY <1>4, <1>5
<1>7. SubSeq(s, 1, m - 1) \in Seq(STRING)
  <2>1. \A k \in 1 .. m - 1 : s[k] \in STRING
    BY <1>1, <1>4
  <2> QED
    BY <1>4, <2>1, SubSeqProperties
<1>8. SubSeq(s, m + 1, Len(s)) \in Seq(STRING)
  <2>1. \A k \in m + 1 .. Len(s) : s[k] \in STRING
    BY <1>1, <1>4
  <2>2. m + 1 \in Int /\ Len(s) \in Int
    BY <1>1, <1>4
  <2> QED
    BY <2>1, <2>2, SubSeqProperties
<1>9. KeyOf(s) = remove_spaces(SubSeq(s, 1, m - 1)) /\ Left(s) = FirstWord(SubSeq(s, 1, m - 1))
  BY <1>5 DEF KeyOf, Left, b, m
<1>10. /\ ValueOf(s) = remove_spaces(SubSeq(s, m + 1, Len(s)))
       /\ Right(s) = FirstWord(SubSeq(s, m + 1, Len(s)))
  BY <1>6 DEF ValueOf, Right, b, m
<1> QED
  BY <1>7, <1>8, <1>9, <1>10, WordIs

-----------------------------------------------------------------------------
(* What has been said of a key by the first n characters.                  *)
SaidBy(f, key, n) == {end \in Says(f, key) : end <= n}
AskedBy(f, key, n) ==
  IF SaidBy(f, key, n) = {} THEN NULL
  ELSE LET value == Right(Line(f, Max(SaidBy(f, key, n))))
       IN  IF key = "vantiq_url" /\ Last(value) # "/" THEN Append(value, "/") ELSE value
LinesSaid(f, n) == {end \in UNION {Says(f, key) : key \in Key} : end <= n}

(* The configuration is what the first n characters of f ask for. *)
ReadTo(f, n, c) ==
  /\ n \in Stops(f)
  /\ c.config = [key \in Key |-> AskedBy(f, key, n)]
  /\ c.lines = Cardinality(LinesSaid(f, n))

LEMMA EndsAre ==
  ASSUME NEW f \in Seq(STRING)
  PROVE  Len(f) \in Nat /\ LineEnds(f) \subseteq 1 .. Len(f) /\ \A key : Says(f, key) \subseteq LineEnds(f)
<1>1. Len(f) \in Nat /\ DOMAIN f = 1 .. Len(f)
  BY LenProperties
<1> QED
  BY <1>1 DEF LineEnds, Says

LEMMA SaidNext ==
  ASSUME NEW f \in Seq(STRING), NEW n \in Stops(f), NEW e, NextEnd(f, n, e), NEW key
  PROVE  SaidBy(f, key, e) = SaidBy(f, key, n) \cup {end \in {e} : e \in Says(f, key)}
<1>1. Len(f) \in Nat /\ LineEnds(f) \subseteq 1 .. Len(f) /\ Says(f, key) \subseteq LineEnds(f)
  BY EndsAre
<1>2. n \in Nat /\ e \in Nat /\ n < e /\ \A k \in Says(f, key) : k \in Nat /\ (k <= n \/ e <= k)
  BY <1>1 DEF Stops, NextEnd
<1> QED
  BY <1>2 DEF SaidBy

LEMMA LinesNext ==
  ASSUME NEW f \in Seq(STRING), NEW n \in Stops(f), NEW e, NextEnd(f, n, e)
  PROVE  /\ LinesSaid(f, e) = LinesSaid(f, n) \cup {end \in {e} : \E key \in Key : e \in Says(f, key)}
         /\ IsFiniteSet(LinesSaid(f, n)) /\ e \notin LinesSaid(f, n)
<1> DEFINE U == UNION {Says(f, key) : key \in Key}
<1>1. Len(f) \in Nat /\ LineEnds(f) \subseteq 1 .. Len(f) /\ U \subseteq LineEnds(f)
  BY EndsAre
<1>2. (e \in U) <=> \E key \in Key : e \in Says(f, key)
  OBVIOUS
<1>3. \A m : LinesSaid(f, m) = {end \in U : end <= m}
  BY DEF LinesSaid
<1> HIDE DEF U
<1>4. n \in Nat /\ e \in Nat /\ n < e /\ \A k \in U : k \in Nat /\ (k <= n \/ e <= k)
  BY <1>1 DEF Stops, NextEnd
<1>5. LinesSaid(f, e) = LinesSaid(f, n) \cup {end \in {e} : e \in U}
  BY <1>3, <1>4
<1>6. IsFiniteSet(LinesSaid(f, n))
  <2>1. LinesSaid(f, n) \in SUBSET (1 .. Len(f)) /\ IsFiniteSet(1 .. Len(f))
    BY <1>1, <1>3, FS_Interval
  <2> QED
    BY <2>1, FS_Subset
<1>7. e \notin LinesSaid(f, n)
  BY <1>3, <1>4
<1> QED
  BY <1>2, <1>5, <1>6, <1>7

(* A line is taken if it says something of a key. *)
LEMMA TakenSays ==
  ASSUME NEW f \in Seq(STRING), NEW e \in LineEnds(f), Line(f, e) \in Seq(STRING)
  PROVE  /\ Taken(Line(f, e)) <=> \E key \in Key : e \in Says(f, key)
         /\ Taken(Line(f, e)) =>
              /\ KeyOf(Line(f, e)) = Left(Line(f, e)) /\ ValueOf(Line(f, e)) = Right(Line(f, e))
              /\ \A key : e \in Says(f, key) <=> cmp_strings(Left(Line(f, e)), KeyName(key))
<1> DEFINE s == Line(f, e)
<1>1. Contains(s, "=") <=> Equals(s) # {}
  <2>1. DOMAIN s = 1 .. Len(s)
    BY LenProperties
  <2> QED
    BY <2>1 DEF Contains, Equals
<1>2. \A key : e \in Says(f, key) <=>
        s[1] # "#" /\ Equals(s) # {} /\ Right(s) # << >> /\ cmp_strings(Left(s), KeyName(key))
  BY DEF Says
<1>3. Equals(s) # {} => KeyOf(s) = Left(s) /\ ValueOf(s) = Right(s)
  BY LineParts
<1> HIDE DEF s
<1>4. Taken(s) <=> s[1] # "#" /\ Equals(s) # {} /\ Right(s) # << >>
                   /\ \E key \in Key : cmp_strings(Left(s), KeyName(key))
  BY <1>1, <1>3 DEF Taken, IsKey
<1>5. Taken(s) => KeyOf(s) = Left(s) /\ ValueOf(s) = Right(s)
  BY <1>3, <1>4
<1> QED
  BY <1>2, <1>4, <1>5 DEF s

(* The next line brings the configuration up to its end. *)
LEMMA LineRead ==
  ASSUME NEW f \in Seq(STRING), NEW n, NEW e, NEW c, ReadTo(f, n, c), NextEnd(f, n, e)
  PROVE  ReadTo(f, e, parseLine(c, Line(f, e)))
<1> DEFINE s == Line(f, e)
           d == parseLine(c, s)
<1>1. n \in Stops(f) /\ e \in LineEnds(f) /\ e \in Stops(f)
  BY DEF ReadTo, NextEnd, Stops
<1>2. s \in Seq(STRING)
  BY <1>1, LineIs
<1>3. \A key : SaidBy(f, key, e) = SaidBy(f, key, n) \cup {end \in {e} : e \in Says(f, key)}
  BY <1>1, SaidNext
<1>4. /\ LinesSaid(f, e) = LinesSaid(f, n) \cup {end \in {e} : \E key \in Key : e \in Says(f, key)}
      /\ IsFiniteSet(LinesSaid(f, n)) /\ e \notin LinesSaid(f, n)
  BY <1>1, LinesNext
<1>5. /\ Taken(s) <=> \E key \in Key : e \in Says(f, key)
      /\ Taken(s) => /\ KeyOf(s) = Left(s) /\ ValueOf(s) = Right(s)
                     /\ \A key : e \in Says(f, key) <=> cmp_strings(Left(s), KeyName(key))
  BY <1>1, <1>2, TakenSays
<1>6. c.config = [key \in Key |-> AskedBy(f, key, n)] /\ c.lines = Cardinality(LinesSaid(f, n))
  BY DEF ReadTo
<1> HIDE DEF s
<1>7. ASSUME NEW key, e \notin Says(f, key) PROVE AskedBy(f, key, e) = AskedBy(f, key, n)
  <2>1. SaidBy(f, key, e) = SaidBy(f, key, n)
    BY <1>3, <1>7
  <2> QED
    BY <2>1 DEF AskedBy
<1>8. ASSUME NEW key, e \in Says(f, key)
      PROVE  AskedBy(f, key, e) =
               IF key = "vantiq_url" /\ Last(Right(s)) # "/" THEN Append(Right(s), "/") ELSE Right(s)
  <2>1. e \in SaidBy(f, key, e) /\ SaidBy(f, key, e) \in SUBSET Nat
    BY <1>1, <1>3, <1>8, EndsAre DEF SaidBy
  <2>2. \A k \in SaidBy(f, key, e) : k <= e
    BY DEF SaidBy
  <2>3. Max(SaidBy(f, key, e)) = e
    BY <2>1, <2>2, MaxOf
  <2> QED
    BY <2>1, <2>3 DEF AskedBy, s
<1>9. CASE ~Taken(s)
  <2>1. d = c
    BY <1>9 DEF parseLine
  <2>2. \A key \in Key : e \notin Says(f, key)
    BY <1>5, <1>9
  <2>3. d.config = [key \in Key |-> AskedBy(f, key, e)]
    BY <1>6, <1>7, <2>1, <2>2
  <2>4. LinesSaid(f, e) = LinesSaid(f, n)
    BY <1>4, <2>2
  <2> QED
    BY <1>1, <1>6, <2>1, <2>3, <2>4 DEF ReadTo, s
<1>10. CASE Taken(s)
  <2>1. /\ d.config = set_config_param(c.config, KeyOf(s), ValueOf(s))
        /\ d.lines = c.lines + 1
    BY <1>10 DEF parseLine
  <2>2. d.config = [key \in Key |->
           IF e \notin Says(f, key) THEN AskedBy(f, key, n)
           ELSE IF key = "vantiq_url" /\ Last(Right(s)) # "/" THEN Append(Right(s), "/") ELSE Right(s)]
    BY <1>5, <1>6, <1>10, <2>1 DEF set_config_param
  <2>3. d.config = [key \in Key |-> AskedBy(f, key, e)]
    BY <1>7, <1>8, <2>2
  <2>4. LinesSaid(f, e) = LinesSaid(f, n) \cup {e}
    BY <1>4, <1>5, <1>10
  <2>5. Cardinality(LinesSaid(f, e)) = Cardinality(LinesSaid(f, n)) + 1
    BY <1>4, <2>4, FS_AddElement
  <2> QED
    BY <1>1, <1>6, <2>1, <2>3, <2>5 DEF ReadTo, s
<1> QED
  BY <1>9, <1>10

-----------------------------------------------------------------------------
(* Reading stands behind a line, with what the lines before it ask for; at *)
(* the end the level is set from it.                                       *)
ReadInv ==
  /\ phase = "start" => at = 0
  /\ phase \in {"start", "reading", "configured"} => file \in File
  /\ phase = "reading" /\ Short(file) => ReadTo(file, at, read)
  /\ phase = "configured" /\ result # NULL /\ result # -1 /\ Short(file) =>
       /\ ReadTo(file, Len(file), read) /\ result = read.lines
       /\ read.config["log_level"] = NULL => L.level = LOG_WARN
       /\ \A i \in 0 .. LOG_ERROR :
            read.config["log_level"] = <<level_names[i + 1]>> => L.level = i

LEMMA NothingRead ==
  ASSUME NEW f \in Seq(STRING)
  PROVE  ReadTo(f, 0, [config |-> NoConfig, lines |-> 0])
<1>1. \A key : SaidBy(f, key, 0) = {}
  BY EndsAre DEF SaidBy
<1>2. LinesSaid(f, 0) = {}
  BY EndsAre DEF LinesSaid
<1>3. \A key : AskedBy(f, key, 0) = NULL
  BY <1>1 DEF AskedBy
<1> QED
  BY <1>2, <1>3, FS_EmptySet DEF ReadTo, Stops, NoConfig

(* The level of a name is the place of the name. *)
LEMMA LevelOfName ==
  ASSUME NEW l \in [level : Int, lock : BOOLEAN, fp : BOOLEAN, quiet : BOOLEAN],
         NEW i \in 0 .. LOG_ERROR
  PROVE  WithLevel(l, <<level_names[i + 1]>>).level = i /\ <<level_names[i + 1]>> # NULL
<1>1. i \in {0, 1, 2, 3, 4}
  BY DEF LOG_ERROR
<1>2. \A j \in 0 .. 4 : level_names[j + 1] = level_names[i + 1] => j = i
  BY <1>1 DEF level_names
<1>3. NamedLevel(<<level_names[i + 1]>>) = {i}
  BY <1>1, <1>2 DEF NamedLevel, LOG_ERROR
<1>4. WithLevel(l, <<level_names[i + 1]>>).level = i
  BY <1>3 DEF WithLevel
<1> QED
  BY <1>4, TextAssumption

LEMMA ReadStep == LogInv /\ ReadInv /\ [Next]_vars => ReadInv'
<1> SUFFICES ASSUME LogInv, ReadInv, [Next]_vars PROVE ReadInv'
  OBVIOUS
<1>1. CASE Open
  <2>1. file \in Seq(STRING) /\ file' = file /\ at' = 0 /\ file \in File
    BY <1>1, TextAssumption DEF Open, ReadInv
  <2>2. ReadTo(file, 0, read')
    BY <1>1, <2>1, NothingRead DEF Open
  <2> QED
    BY <1>1, <2>1, <2>2 DEF Open, ReadInv
<1>2. CASE ReadLine
  <2>1. file \in File /\ file' = file /\ phase = "reading" /\ phase' = "reading" /\ at < Len(file)
    BY <1>2 DEF ReadLine, ReadInv
  <2>2. ASSUME Short(file) PROVE ReadTo(file, at', read')
    <3>1. file \in Seq(STRING) /\ ReadTo(file, at, read)
      BY <2>1, <2>2, TextAssumption DEF ReadInv
    <3>2. at \in Stops(file)
      BY <3>1 DEF ReadTo
    <3>3. PICK e : NextEnd(file, at, e) /\ fgets(file, at) = Line(file, e)
      BY <2>1, <2>2, <3>1, <3>2, FgetsIs
    <3>4. Len(Line(file, e)) = e - at /\ at \in Nat /\ e \in Nat
      BY <3>1, <3>2, <3>3, LineIs, EndsAre DEF Stops, NextEnd
    <3>5. at' = e /\ read' = parseLine(read, Line(file, e))
      BY <1>2, <3>3, <3>4 DEF ReadLine
    <3> QED
      BY <3>1, <3>3, <3>5, LineRead
  <2> QED
    BY <2>1, <2>2 DEF ReadInv
<1>3. CASE ReadEnd
  <2>1. /\ file \in File /\ file' = file /\ phase = "reading" /\ phase' = "configured"
        /\ at = Len(file) /\ read' = read /\ result' = read.lines
        /\ L' = IF read.config["log_level"] = NULL THEN [L EXCEPT !.level = LOG_WARN]
                ELSE WithLevel(L, read.config["log_level"])
    BY <1>3 DEF ReadEnd, ReadInv
  <2>2. L \in [level : Int, lock : BOOLEAN, fp : BOOLEAN, quiet : BOOLEAN]
    BY DEF LogInv, LogTypeOK
  <2>3. read.config["log_level"] = NULL => L'.level = LOG_WARN
    BY <2>1, <2>2
  <2>4. ASSUME NEW i \in 0 .. LOG_ERROR, read.config["log_level"] = <<level_names[i + 1]>>
        PROVE  L'.level = i
    BY <2>1, <2>2, <2>4, LevelOfName
  <2>5. Short(file) => ReadTo(file, Len(file), read)
    BY <2>1 DEF ReadInv
  <2> QED
    BY <2>1, <2>3, <2>4, <2>5 DEF ReadInv
<1>4. CASE Configure
  <2>1. L'.level = L.level /\ phase = "configured" /\ UNCHANGED <<phase, file, at, read, result>>
    BY <1>4 DEF Configure, log_set_lock, log_set_fp, log_set_quiet, LogInv, LogTypeOK
  <2> QED
    BY <2>1 DEF ReadInv
<1>5. CASE StartThreads
  BY <1>5 DEF StartThreads, ReadInv
<1>6. CASE OpenHandle
  BY <1>6 DEF OpenHandle, ReadInv
<1>7. CASE Request
  BY <1>7 DEF Request, logvars, ReadInv
<1>8. CASE RequestDone
  BY <1>8 DEF RequestDone, logvars, ReadInv
<1>9. CASE Run
  BY <1>9 DEF Run, ReadInv
<1>10. CASE UNCHANGED vars
  BY <1>10 DEF vars, logvars, ReadInv
<1> QED
  BY <1>1, <1>2, <1>3, <1>4, <1>5, <1>6, <1>7, <1>8, <1>9, <1>10 DEF Next

(* At the end of a file, its lines are all the lines. *)
LEMMA AllRead ==
  ASSUME NEW f \in Seq(STRING)
  PROVE  /\ \A key : AskedBy(f, key, Len(f)) = Asked(f, key)
         /\ LinesSaid(f, Len(f)) = UNION {Says(f, key) : key \in Key}
<1>1. Len(f) \in Nat /\ LineEnds(f) \subseteq 1 .. Len(f) /\ \A key : Says(f, key) \subseteq LineEnds(f)
  BY EndsAre
<1>2. \A key : SaidBy(f, key, Len(f)) = Says(f, key)
  BY <1>1 DEF SaidBy
<1>3. \A key : AskedBy(f, key, Len(f)) = Asked(f, key)
  BY <1>2 DEF AskedBy, Asked
<1>4. \A key : \A k \in Says(f, key) : k <= Len(f)
  BY <1>1
<1> QED
  BY <1>3, <1>4 DEF LinesSaid

LEMMA ReadHolds == Spec => []ReadInv
<1>1. Init => ReadInv
  BY DEF Init, ReadInv
<1>2. LogInv /\ ReadInv /\ [Next]_vars => ReadInv'
  BY ReadStep
<1> QED
  BY <1>1, <1>2, Invariance, PTL DEF Spec

(* For any file whose lines fit into the buffer, every key has the value   *)
(* of the last line that names it, the number returned is the number of    *)
(* such lines, and the level is the one named (vme_parse_config).          *)
THEOREM ConfigIsRead == Spec => []ConfigRead
<1>1. ReadInv => ConfigRead
  <2> SUFFICES ASSUME ReadInv, phase = "configured", result # NULL, result # -1, Short(file)
               PROVE  /\ \A key \in Key : read.config[key] = Asked(file, key)
                      /\ result = Cardinality(UNION {Says(file, key) : key \in Key})
                      /\ Asked(file, "log_level") = NULL => L.level = LOG_WARN
                      /\ \A i \in 0 .. LOG_ERROR :
                           Asked(file, "log_level") = <<level_names[i + 1]>> => L.level = i
    BY DEF ConfigRead, Short
  <2>1. file \in Seq(STRING)
    BY TextAssumption DEF ReadInv
  <2>2. ReadTo(file, Len(file), read) /\ result = read.lines
    BY DEF ReadInv
  <2>3. \A key \in Key : read.config[key] = Asked(file, key)
    BY <2>1, <2>2, AllRead DEF ReadTo
  <2>4. result = Cardinality(UNION {Says(file, key) : key \in Key})
    BY <2>1, <2>2, AllRead DEF ReadTo
  <2>5. "log_level" \in Key
    BY DEF Key
  <2> QED
    BY <2>3, <2>4, <2>5 DEF ReadInv
<1> QED
  BY <1>1, ReadHolds, PTL

-----------------------------------------------------------------------------
(* The tokens of URLs. *)
Token == STRING \cup Option \cup DOMAIN Escape \cup {Escape[c] : c \in DOMAIN Escape}
           \cup {"/", "api", "v", "resources", "ns", "="}

LEMMA SubSeqIn ==
  ASSUME NEW T, NEW s \in Seq(T), NEW m \in Nat \ {0}, NEW n \in Int, n <= Len(s)
  PROVE  SubSeq(s, m, n) \in Seq(T) /\ Len(SubSeq(s, m, n)) = IF m <= n THEN n - m + 1 ELSE 0
<1>1. \A k \in m .. n : s[k] \in T
  <2>1. Len(s) \in Nat /\ \A k \in 1 .. Len(s) : s[k] \in T
    BY LenProperties, ElementOfSeq
  <2>2. \A k \in m .. n : k \in 1 .. Len(s)
    BY <2>1
  <2> QED
    BY <2>1, <2>2
<1>2. m \in Int
  OBVIOUS
<1> QED
  BY <1>1, <1>2, SubSeqProperties

LEMMA StringsTokens == ASSUME NEW s \in Seq(STRING) PROVE s \in Seq(Token)
BY SeqMonotonic DEF Token

(* What is read is a piece of the file. *)
LEMMA FgetsIn ==
  ASSUME NEW f \in Seq(STRING), NEW n \in 0 .. Len(f)
  PROVE  fgets(f, n) \in Seq(STRING) /\ n + Len(fgets(f, n)) \in 0 .. Len(f)
<1> DEFINE a == Ahead(f, n)
           b == Before(a, {"\n"})
           M == {b + 1, MAXLINELENGTH - 1, Len(f) - n}
<1>1. Len(f) \in Nat
  BY LenProperties
<1>2. a \in Seq(STRING) /\ Len(a) = Len(f) - n
  <2>1. n + 1 \in Nat \ {0} /\ Len(f) \in Int
    BY <1>1
  <2>2. a \in Seq(STRING) /\ Len(a) = IF n + 1 <= Len(f) THEN Len(f) - (n + 1) + 1 ELSE 0
    BY <1>1, <2>1, SubSeqIn DEF Ahead
  <2> HIDE DEF a
  <2> QED
    BY <1>1, <2>2
<1> HIDE DEF a
<1>3. b \in Nat
  BY <1>1, <1>2, BeforeIs
<1> HIDE DEF b
<1>4. M \in SUBSET Nat /\ M # {}
  BY <1>1, <1>3, LineAssumption
<1>5. Min(M) \in Nat /\ Min(M) <= Len(f) - n
  BY <1>4, MinIs
<1>6. fgets(f, n) = SubSeq(a, 1, Min(M))
  BY DEF fgets, a, b
<1> HIDE DEF M
<1>7. /\ SubSeq(a, 1, Min(M)) \in Seq(STRING)
      /\ Len(SubSeq(a, 1, Min(M))) = IF 1 <= Min(M) THEN Min(M) - 1 + 1 ELSE 0
  BY <1>1, <1>2, <1>5, SubSeqIn
<1>8. Len(SubSeq(a, 1, Min(M))) = Min(M)
  BY <1>5, <1>7
<1> QED
  BY <1>1, <1>5, <1>6, <1>7, <1>8

LEMMA RemoveSpacesIn ==
  ASSUME NEW s \in Seq(STRING)
  PROVE  remove_spaces(s) \in Seq(STRING)
<1> DEFINE S == {k \in DOMAIN s : s[k] \notin Space} \cup {Len(s) + 1}
           m == Min(S)
           rest == SubSeq(s, m, Len(s))
<1>1. Len(s) \in Nat /\ DOMAIN s = 1 .. Len(s)
  BY LenProperties
<1>2. S \in SUBSET (Nat \ {0}) /\ S # {}
  BY <1>1
<1>3. m \in Nat \ {0}
  BY <1>2, MinIs
<1> HIDE DEF m
<1>4. rest \in Seq(STRING)
  <2>1. Len(s) \in Int /\ Len(s) <= Len(s)
    BY <1>1
  <2> QED
    BY <1>3, <2>1, SubSeqIn
<1> HIDE DEF rest
<1>5. Before(rest, Space) \in 0 .. Len(rest) /\ Len(rest) \in Nat
  BY <1>4, BeforeIs, LenProperties
<1>6. SubSeq(rest, 1, Before(rest, Space)) \in Seq(STRING)
  BY <1>4, <1>5, SubSeqIn
<1> QED
  BY <1>6 DEF remove_spaces, rest, m

LEMMA ValueIn ==
  ASSUME NEW s \in Seq(STRING)
  PROVE  ValueOf(s) \in Seq(STRING)
<1>1. Before(s, {"="}) \in 0 .. Len(s) /\ Len(s) \in Nat
  BY BeforeIs, LenProperties
<1>2. Before(s, {"="}) + 2 \in Nat \ {0}
  BY <1>1
<1>3. Len(s) \in Int /\ Len(s) <= Len(s)
  BY <1>1
<1>4. SubSeq(s, Before(s, {"="}) + 2, Len(s)) \in Seq(STRING)
  BY <1>2, <1>3, SubSeqIn
<1> QED
  BY <1>4, RemoveSpacesIn DEF ValueOf

(* A value is a text that is not empty, and the URL ends with a slash. *)
ConfigTexts(config) ==
  /\ \A key \in Key : config[key] = NULL \/ config[key] \in Seq(Token) \ {<< >>}
  /\ config["vantiq_url"] # NULL => Last(config["vantiq_url"]) = "/"

LEMMA NoConfigTexts == ConfigTexts(NoConfig)
BY DEF ConfigTexts, NoConfig, Key

LEMMA ParseTexts ==
  ASSUME NEW c, ConfigTexts(c.config), NEW s \in Seq(STRING)
  PROVE  ConfigTexts(parseLine(c, s).config)
<1>1. CASE ~Taken(s)
  BY <1>1 DEF parseLine
<1>2. CASE Taken(s)
  <2> DEFINE v == ValueOf(s)
             w == Append(v, "/")
  <2>1. v \in Seq(Token) \ {<< >>}
    BY <1>2, ValueIn, StringsTokens DEF Taken
  <2>2. "/" \in Token
    BY DEF Token
  <2> HIDE DEF v
  <2>3. w \in Seq(Token) /\ w # << >> /\ Last(w) = "/"
    BY <2>1, <2>2, AppendProperties DEF Last
  <2> HIDE DEF w
  <2>4. parseLine(c, s).config = set_config_param(c.config, KeyOf(s), v)
    BY <1>2 DEF parseLine, v
  <2>5. \A key \in Key : set_config_param(c.config, KeyOf(s), v)[key] =
          IF ~cmp_strings(KeyOf(s), KeyName(key)) THEN c.config[key]
          ELSE IF key = "vantiq_url" /\ Last(v) # "/" THEN w ELSE v
    BY DEF set_config_param, w
  <2>6. "vantiq_url" \in Key
    BY DEF Key
  <2> QED
    BY <2>1, <2>3, <2>4, <2>5, <2>6 DEF ConfigTexts
<1> QED
  BY <1>1, <1>2

-----------------------------------------------------------------------------
(* The path and the query of a URL are texts. *)
LEMMA OneMoreText ==
  ASSUME NEW s \in Seq(Token), NEW x \in Token
  PROVE  <<x>> \o s \in Seq(Token) /\ Len(<<x>> \o s) = Len(s) + 1
<1>1. <<x>> \in Seq(Token) /\ Len(<<x>>) = 1
  OBVIOUS
<1>2. Len(s) \in Nat
  BY LenProperties
<1> QED
  BY <1>1, <1>2, ConcatProperties

LEMMA Joined ==
  ASSUME NEW s \in Seq(Token), NEW t \in Seq(Token)
  PROVE  /\ s \o t \in Seq(Token) /\ Len(s \o t) = Len(s) + Len(t)
         /\ Len(s) \in Nat /\ Len(t) \in Nat
BY ConcatProperties, LenProperties

LEMMA JoinedInTurn ==
  ASSUME NEW s \in Seq(Token), NEW t \in Seq(Token), NEW u \in Seq(Token)
  PROVE  (s \o t) \o u = s \o (t \o u)
BY ConcatAssociative

(* A part of a path: there is a slash before it if it is given at all.     *)
Part(n) == IF n # NULL THEN <<"/">> \o n ELSE << >>

LEMMA PartIs ==
  ASSUME NEW n, n = NULL \/ n \in Seq(STRING)
  PROVE  /\ Part(n) \in Seq(Token)
         /\ Len(Part(n)) = IF n = NULL THEN 0 ELSE Len(n) + 1
         /\ n # NULL => Len(n) \in Nat /\ (Len(n) = 0 <=> n = << >>)
<1>1. CASE n = NULL
  BY <1>1, EmptySeq DEF Part
<1>2. CASE n # NULL
  <2>1. n \in Seq(Token) /\ "/" \in Token
    BY <1>2, StringsTokens DEF Token
  <2>2. Len(n) \in Nat /\ (Len(n) = 0 <=> n = << >>)
    BY <2>1, EmptySeq, LenProperties
  <2> QED
    BY <1>2, <2>1, <2>2, OneMoreText DEF Part
<1> QED
  BY <1>1, <1>2

LEMMA PathTextIs ==
  ASSUME NEW v \in Seq(STRING), NEW name, name = NULL \/ name \in Seq(STRING),
         NEW id, id = NULL \/ id \in Seq(STRING)
  PROVE  /\ PathText(v, <<"ns">>, name, id) \in Seq(Token)
         /\ Len(PathText(v, <<"ns">>, name, id)) = 8 + Len(v) + Len(Part(name)) + Len(Part(id))
<1> DEFINE a == <<"/", "api", "/", "v">>
           b == <<"/", "resources", "/">>
           c == <<"ns">>
           d == Part(name)
           e == Part(id)
<1>1. a \in Seq(Token) /\ Len(a) = 4 /\ b \in Seq(Token) /\ Len(b) = 3 /\ c \in Seq(Token) /\ Len(c) = 1
  <2>1. {"/", "api", "v", "resources", "ns"} \subseteq Token
    BY DEF Token
  <2> QED
    BY <2>1
<1>2. v \in Seq(Token) /\ Len(v) \in Nat
  BY StringsTokens, LenProperties
<1>3. d \in Seq(Token) /\ e \in Seq(Token) /\ Len(d) \in Nat /\ Len(e) \in Nat
  BY PartIs, LenProperties
<1>4. PathText(v, <<"ns">>, name, id) = a \o v \o b \o c \o d \o e
  BY DEF PathText, Part
<1> HIDE DEF a, b, c, d, e
<1>5. a \o v \in Seq(Token) /\ Len(a \o v) = 4 + Len(v)
  BY <1>1, <1>2, Joined
<1>6. a \o v \o b \in Seq(Token) /\ Len(a \o v \o b) = 4 + Len(v) + 3
  BY <1>1, <1>5, Joined
<1>7. a \o v \o b \o c \in Seq(Token) /\ Len(a \o v \o b \o c) = 4 + Len(v) + 3 + 1
  BY <1>1, <1>6, Joined
<1>8. a \o v \o b \o c \o d \in Seq(Token) /\ Len(a \o v \o b \o c \o d) = 4 + Len(v) + 3 + 1 + Len(d)
  BY <1>3, <1>7, Joined
<1>9. /\ a \o v \o b \o c \o d \o e \in Seq(Token)
      /\ Len(a \o v \o b \o c \o d \o e) = 4 + Len(v) + 3 + 1 + Len(d) + Len(e)
  BY <1>3, <1>8, Joined
<1>10. 4 + Len(v) + 3 + 1 + Len(d) + Len(e) = 8 + Len(v) + Len(d) + Len(e)
  BY <1>2, <1>3
<1> QED
  BY <1>4, <1>9, <1>10 DEF d, e

(* The size that build_rsuri computes is enough for a version below 1000.  *)
LEMMA NothingCut ==
  ASSUME NEW v \in Seq(STRING), Len(v) <= 3, NEW name, name = NULL \/ name \in Seq(STRING),
         NEW id, id = NULL \/ id \in Seq(STRING)
  PROVE  /\ build_rsuri(v, <<"ns">>, name, id) = PathText(v, <<"ns">>, name, id)
         /\ PathText(v, <<"ns">>, name, id) \in Seq(Token)
         /\ Len(PathText(v, <<"ns">>, name, id)) \in Nat \ {0}
<1> DEFINE path == PathText(v, <<"ns">>, name, id)
           size == PathSize(<<"ns">>, name, id)
<1>1. path \in Seq(Token) /\ Len(path) = 8 + Len(v) + Len(Part(name)) + Len(Part(id))
  BY PathTextIs, SMTT(30)
<1>2. /\ Len(Part(name)) = IF name = NULL THEN 0 ELSE Len(name) + 1
      /\ name # NULL => Len(name) \in Nat /\ (Len(name) = 0 <=> name = << >>)
  BY PartIs
<1>3. /\ Len(Part(id)) = IF id = NULL THEN 0 ELSE Len(id) + 1
      /\ id # NULL => Len(id) \in Nat /\ (Len(id) = 0 <=> id = << >>)
  BY PartIs
<1>4. Len(v) \in Nat
  BY LenProperties
<1>5. PrefixSize = 11 /\ Len(<<"ns">>) = 1
  BY DEF PrefixSize
<1>6. size = 11 + (1 + 1) + (IF Given(name) THEN Len(name) + 1 ELSE 0)
               + (IF Given(id) THEN Len(id) ELSE 0) + 1
  BY <1>5 DEF PathSize
<1> DEFINE A == IF Given(name) THEN Len(name) + 1 ELSE 0
           B == IF Given(id) THEN Len(id) ELSE 0
<1> HIDE DEF path, size
<1>7. Len(path) \in Nat \ {0} /\ Len(path) <= size - 1 /\ size - 1 \in Nat
  <2>1. A \in Nat /\ Len(Part(name)) \in Nat /\ Len(Part(name)) <= A + 1
    BY <1>2 DEF Given
  <2>2. B \in Nat /\ Len(Part(id)) \in Nat /\ Len(Part(id)) <= B + 1
    BY <1>3 DEF Given
  <2>3. size = 11 + (1 + 1) + A + B + 1
    BY <1>6
  <2> HIDE DEF A, B
  <2> QED
    BY <1>1, <1>4, <2>1, <2>2, <2>3
<1>8. Min({Len(path), size - 1}) = Len(path)
  BY <1>7, MinOf
<1>9. build_rsuri(v, <<"ns">>, name, id) = SubSeq(path, 1, Len(path))
  BY <1>8 DEF build_rsuri, path, size
<1> QED
  BY <1>1, <1>7, <1>9, SubSeqFull DEF path

(* The recursion of FlattenSeq has a value at every place of ss, a text:   *)
(* f, which joins the texts up to there.                                   *)
Joins(f, ss, N) ==
  /\ f \in [1 .. N -> Seq(Token)]
  /\ \A i \in 1 .. N : f[i] = IF i = 1 THEN ss[i] ELSE f[i - 1] \o ss[i]
  /\ FlattenSeq(ss) = IF N = 0 THEN << >> ELSE f[N]

LEMMA FlattenIn ==
  ASSUME NEW N \in Nat, NEW ss, Len(ss) = N, ss \in [1 .. N -> Seq(Token)], N = 0 => ss = << >>
  PROVE  /\ FlattenSeq(ss) \in Seq(Token)
         /\ \E f : Joins(f, ss, N)
<1> DEFINE Body(f, i) == IF i = 1 THEN ss[i] ELSE f[i - 1] \o ss[i]
           Good(m, f) == f \in [1 .. m -> Seq(Token)] /\ \A i \in 1 .. m : f[i] = Body(f, i)
           Bad == {m \in 0 .. N : ~ \E f : Good(m, f)}
<1>1. \A m \in 0 .. N : \E f : Good(m, f)
  <2>1. SUFFICES ASSUME Bad # {} PROVE FALSE
    BY ZenonT(60)
  <2>2. Bad \in SUBSET Nat
    OBVIOUS
  <2> HIDE DEF Bad
  <2>3. PICK m \in Bad : \A n \in Bad : m <= n
    BY <2>1, <2>2, LeastNat
  <2>4. m \in 0 .. N /\ ~ \E f : Good(m, f)
    BY DEF Bad
  <2>5. m # 0
    <3>1. Good(0, [i \in 1 .. 0 |-> ss[i]])
      OBVIOUS
    <3> QED
      BY <2>4, <3>1
  <2>6. m - 1 \in 0 .. N /\ m - 1 \notin Bad
    BY <2>3, <2>4, <2>5
  <2> HIDE DEF Good
  <2>7. PICK f : Good(m - 1, f)
    BY <2>6 DEF Bad
  <2> DEFINE g == [i \in 1 .. m |-> IF i = m THEN Body(f, m) ELSE f[i]]
  <2>8. f \in [1 .. m - 1 -> Seq(Token)] /\ \A i \in 1 .. m - 1 : f[i] = Body(f, i)
    BY <2>7 DEF Good
  <2>9. Body(f, m) \in Seq(Token)
    <3>1. CASE m = 1
      BY <2>4, <3>1
    <3>2. CASE m # 1
      <4>1. m - 1 \in 1 .. m - 1 /\ m \in 1 .. N
        BY <2>4, <2>5, <3>2
      <4>2. f[m - 1] \in Seq(Token) /\ ss[m] \in Seq(Token)
        BY <2>8, <4>1
      <4> QED
        BY <3>2, <4>2, Joined
    <3> QED
      BY <3>1, <3>2
  <2>10. g \in [1 .. m -> Seq(Token)]
    <3>1. \A i \in 1 .. m : i = m \/ i \in 1 .. m - 1
      BY <2>4
    <3> QED
      BY <2>8, <2>9, <3>1
  <2>11. ASSUME NEW i \in 1 .. m PROVE g[i] = Body(g, i)
    <3>1. CASE i = m
      <4>1. i # 1 => g[i - 1] = f[i - 1]
        BY <2>4, <3>1
      <4>2. g[i] = Body(f, i)
        BY <3>1
      <4> QED
        BY <4>1, <4>2
    <3>2. CASE i # m
      <4>1. i \in 1 .. m - 1 /\ g[i] = f[i] /\ (i # 1 => g[i - 1] = f[i - 1])
        BY <2>4, <3>2
      <4>2. g[i] = Body(f, i)
        BY <2>8, <4>1
      <4> QED
        BY <4>1, <4>2
    <3> QED
      BY <3>1, <3>2
  <2>12. Good(m, g)
    BY <2>10, <2>11 DEF Good
  <2> QED
    BY <2>4, <2>12
<1>2. CASE N = 0
  <2>1. FlattenSeq(ss) = << >> /\ << >> \in Seq(Token)
    BY <1>2, EmptySeq DEF FlattenSeq
  <2> DEFINE none == [i \in 1 .. N |-> << >>]
  <2>2. none \in [1 .. N -> Seq(Token)]
    BY <2>1
  <2>3. \A i \in 1 .. N : FALSE
    BY <1>2
  <2> HIDE DEF none
  <2> QED
    BY <1>2, <2>1, <2>2, <2>3 DEF Joins
<1>3. CASE N # 0
  <2> DEFINE flatten == CHOOSE f : f = [i \in 1 .. N |-> Body(f, i)]
  <2>0. N \in 0 .. N
    OBVIOUS
  <2>1. PICK f : Good(N, f)
    BY <1>1, <2>0
  <2>2. f = [i \in 1 .. N |-> Body(f, i)]
    BY <2>1
  <2>3. flatten = [i \in 1 .. N |-> Body(flatten, i)]
    BY <2>2
  <2>4. FlattenSeq(ss) = flatten[N]
    BY <1>3 DEF FlattenSeq
  <2> HIDE DEF flatten
  <2> DEFINE Off == {i \in 1 .. N : flatten[i] \notin Seq(Token)}
  <2>5. Off = {}
    <3>1. SUFFICES ASSUME Off # {} PROVE FALSE
      OBVIOUS
    <3>2. PICK i \in Off : \A j \in Off : i <= j
      <4>1. Off \in SUBSET Nat
        OBVIOUS
      <4> HIDE DEF Off
      <4> QED
        BY <3>1, <4>1, LeastNat
    <3>3. flatten[i] = Body(flatten, i)
      BY <2>3
    <3>4. CASE i = 1
      BY <3>3, <3>4
    <3>5. CASE i # 1
      <4>1. i - 1 \in 1 .. N /\ i - 1 \notin Off
        BY <3>2, <3>5
      <4>2. flatten[i - 1] \in Seq(Token) /\ ss[i] \in Seq(Token)
        BY <4>1
      <4> QED
        BY <3>3, <3>5, <4>2, Joined
    <3> QED
      BY <3>4, <3>5
  <2>6. flatten \in [1 .. N -> Seq(Token)]
    <3>1. \A i \in 1 .. N : flatten[i] \in Seq(Token)
      BY <2>5
    <3>2. flatten = [i \in 1 .. N |-> flatten[i]]
      <4>1. [i \in 1 .. N |-> flatten[i]] = [i \in 1 .. N |-> Body(flatten, i)]
        BY <2>3
      <4> QED
        BY <2>3, <4>1
    <3> QED
      BY <3>1, <3>2
  <2>7. \A i \in 1 .. N : flatten[i] = IF i = 1 THEN ss[i] ELSE flatten[i - 1] \o ss[i]
    BY <2>3
  <2>8. Joins(flatten, ss, N)
    BY <1>3, <2>4, <2>6, <2>7 DEF Joins
  <2>9. FlattenSeq(ss) \in Seq(Token)
    BY <1>3, <2>4, <2>6
  <2> QED
    BY <2>8, <2>9
<1> QED
  BY <1>2, <1>3

Parameter == [key : Option, value : Seq(STRING)]

LEMMA ParametersIn ==
  ASSUME NEW q \in Select
  PROVE  build_select_params(q) \in Seq(Parameter)
<1> DEFINE add(params, key) == IF q[key] = NULL THEN params ELSE build_param(params, key, q[key])
<1>1. ASSUME NEW params \in Seq(Parameter), NEW key \in Option PROVE add(params, key) \in Seq(Parameter)
  <2>1. CASE q[key] = NULL
    BY <1>1, <2>1
  <2>2. CASE q[key] # NULL
    <3>1. [key |-> key, value |-> q[key]] \in Parameter
      BY <2>2, TextAssumption DEF Parameter
    <3>2. <<[key |-> key, value |-> q[key]]>> \in Seq(Parameter)
      BY <3>1
    <3>3. <<[key |-> key, value |-> q[key]]>> \o params \in Seq(Parameter)
      BY <3>2, ConcatProperties
    <3> QED
      BY <2>2, <3>3 DEF build_param
  <2> QED
    BY <2>1, <2>2
<1>2. << >> \in Seq(Parameter) /\ Option = {"props", "where", "sort", "page", "limit"}
  BY EmptySeq DEF Option
<1>3. build_select_params(q) = add(add(add(add(add(<< >>, "props"), "where"), "sort"), "page"), "limit")
  BY DEF build_select_params
<1> HIDE DEF add
<1>4. add(<< >>, "props") \in Seq(Parameter)
  BY <1>1, <1>2
<1>5. add(add(<< >>, "props"), "where") \in Seq(Parameter)
  BY <1>1, <1>2, <1>4
<1>6. add(add(add(<< >>, "props"), "where"), "sort") \in Seq(Parameter)
  BY <1>1, <1>2, <1>5
<1>7. add(add(add(add(<< >>, "props"), "where"), "sort"), "page") \in Seq(Parameter)
  BY <1>1, <1>2, <1>6
<1> QED
  BY <1>1, <1>2, <1>3, <1>7

LEMMA EscapedIn ==
  ASSUME NEW s \in Seq(STRING)
  PROVE  curl_easy_escape(s) \in Seq(Token)
<1>1. Len(s) \in Nat /\ DOMAIN s = 1 .. Len(s) /\ \A k \in 1 .. Len(s) : s[k] \in STRING
  BY LenProperties, ElementOfSeq
<1> DEFINE e(k) == IF s[k] \in DOMAIN Escape THEN Escape[s[k]] ELSE s[k]
<1>2. \A k \in 1 .. Len(s) : e(k) \in Token
  <2> SUFFICES ASSUME NEW k \in 1 .. Len(s) PROVE e(k) \in Token
    OBVIOUS
  <2>1. s[k] \in STRING
    BY <1>1
  <2> QED
    BY <2>1 DEF Token
<1>3. curl_easy_escape(s) = [k \in 1 .. Len(s) |-> e(k)]
  BY <1>1 DEF curl_easy_escape
<1> HIDE DEF e
<1>4. [k \in 1 .. Len(s) |-> e(k)] \in [1 .. Len(s) -> Token]
  BY <1>2
<1> QED
  BY <1>1, <1>3, <1>4, SeqDef

LEMMA FewTokens ==
  ASSUME NEW x \in Token, NEW y \in Token
  PROVE  <<x>> \in Seq(Token) /\ <<x, y>> \in Seq(Token)
OBVIOUS

LEMMA QueryIn ==
  ASSUME NEW params \in Seq(Parameter), NEW escaped \in BOOLEAN
  PROVE  Query(params, escaped) \in Seq(Token)
<1> DEFINE piece(k) ==
             (IF k = 1 THEN <<"?">> ELSE <<";">>) \o <<params[k].key, "=">>
               \o (IF escaped THEN curl_easy_escape(params[k].value) ELSE params[k].value)
           N == Len(params)
           ss == [k \in 1 .. N |-> piece(k)]
<1>1. N \in Nat /\ DOMAIN params = 1 .. N /\ \A k \in 1 .. N : params[k] \in Parameter
  BY LenProperties, ElementOfSeq
<1>2. ASSUME NEW k \in 1 .. N PROVE piece(k) \in Seq(Token)
  <2> DEFINE a == IF k = 1 THEN <<"?">> ELSE <<";">>
             b == <<params[k].key, "=">>
             c == IF escaped THEN curl_easy_escape(params[k].value) ELSE params[k].value
  <2>1. params[k].key \in Option /\ params[k].value \in Seq(STRING)
    BY <1>1 DEF Parameter
  <2>2. "?" \in Token /\ ";" \in Token /\ "=" \in Token /\ params[k].key \in Token
    BY <2>1 DEF Token, Escape
  <2>3. a \in Seq(Token)
    <3>1. CASE k = 1
      BY <2>2, <3>1, FewTokens
    <3>2. CASE k # 1
      BY <2>2, <3>2, FewTokens
    <3> QED
      BY <3>1, <3>2
  <2>4. b \in Seq(Token)
    BY <2>2, FewTokens
  <2>5. c \in Seq(Token)
    BY <2>1, EscapedIn, StringsTokens
  <2>6. piece(k) = a \o b \o c
    OBVIOUS
  <2> HIDE DEF a, b, c, piece
  <2>7. a \o b \in Seq(Token)
    BY <2>3, <2>4, Joined
  <2> QED
    BY <2>5, <2>6, <2>7, Joined
<1>3. Query(params, escaped) = FlattenSeq(ss)
  BY <1>1 DEF Query
<1> HIDE DEF piece
<1>4. ss \in [1 .. N -> Seq(Token)]
  BY <1>2
<1>5. Len(ss) = N
  BY <1>1
<1>6. N = 0 => ss = << >>
  BY <1>1
<1> HIDE DEF ss, N
<1> QED
  BY <1>1, <1>3, <1>4, <1>5, <1>6, FlattenIn

-----------------------------------------------------------------------------
(* The configuration holds texts, however long the lines were; the handle  *)
(* has the URL of the file, and the request the path of its names.         *)
UrlInv ==
  /\ phase = "reading" => at \in 0 .. Len(file)
  /\ ConfigTexts(read.config)
  /\ phase = "open" => /\ read.config["vantiq_url"] # NULL
                      /\ base = server_url(read.config["vantiq_url"])
  /\ request.made =>
       /\ phase = "open"
       /\ request.version \in Version /\ request.name \in Name /\ request.id \in Name
       /\ request.path = build_rsuri(request.version, <<"ns">>, request.name, request.id)
       /\ request.q \in Select /\ request.escaped \in BOOLEAN
       /\ request.url = create_url(base, request.path, build_select_params(request.q), request.escaped)

LEMMA UrlStep == ReadInv /\ UrlInv /\ [Next]_vars => UrlInv'
<1> SUFFICES ASSUME ReadInv, UrlInv, [Next]_vars PROVE UrlInv'
  OBVIOUS
<1>1. CASE Open
  <2>1. /\ phase = "start" /\ at = 0 /\ at' = at /\ file' = file /\ file \in File
        /\ read'.config = NoConfig /\ phase' # "open" /\ request' = request /\ ~request.made
    BY <1>1 DEF Open, ReadInv, UrlInv
  <2>2. Len(file) \in Nat
    BY <2>1, TextAssumption, LenProperties
  <2> QED
    BY <2>1, <2>2, NoConfigTexts DEF UrlInv
<1>2. CASE ReadLine
  <2>1. /\ phase = "reading" /\ phase' = phase /\ file' = file /\ file \in Seq(STRING)
        /\ at \in 0 .. Len(file) /\ ConfigTexts(read.config)
        /\ request' = request /\ ~request.made
        /\ buffer' = fgets(file, at) /\ at' = at + Len(buffer') /\ read' = parseLine(read, buffer')
    BY <1>2, TextAssumption DEF ReadLine, ReadInv, UrlInv
  <2>2. buffer' \in Seq(STRING) /\ at' \in 0 .. Len(file)
    BY <2>1, FgetsIn
  <2>3. ConfigTexts(read'.config)
    BY <2>1, <2>2, ParseTexts
  <2> QED
    BY <2>1, <2>2, <2>3 DEF UrlInv
<1>3. CASE ReadEnd
  BY <1>3 DEF ReadEnd, UrlInv
<1>4. CASE Configure
  BY <1>4 DEF Configure, UrlInv
<1>5. CASE StartThreads
  BY <1>5, NoConfigTexts DEF StartThreads, UrlInv
<1>6. CASE OpenHandle
  BY <1>6 DEF OpenHandle, UrlInv
<1>7. CASE Request
  <2>1. /\ phase = "open" /\ phase' = phase /\ read' = read /\ base' = base
        /\ request'.version \in Version /\ request'.name \in Name /\ request'.id \in Name
        /\ request'.path = build_rsuri(request'.version, <<"ns">>, request'.name, request'.id)
        /\ request'.q \in Select /\ request'.escaped \in BOOLEAN
        /\ request'.url = create_url(base, request'.path, build_select_params(request'.q), request'.escaped)
    BY <1>7 DEF Request
  <2> QED
    BY <2>1 DEF UrlInv
<1>8. CASE RequestDone
  BY <1>8 DEF RequestDone, UrlInv, NoRequest
<1>9. CASE Run
  BY <1>9 DEF Run, UrlInv
<1>10. CASE UNCHANGED vars
  BY <1>10 DEF vars, UrlInv
<1> QED
  BY <1>1, <1>2, <1>3, <1>4, <1>5, <1>6, <1>7, <1>8, <1>9, <1>10 DEF Next

(* What a URL is made of. *)
LEMMA UrlIs ==
  ASSUME UrlInv, request.made
  PROVE  /\ read.config["vantiq_url"] \in Seq(Token) \ {<< >>}
         /\ base = Front(read.config["vantiq_url"])
         /\ base \in Seq(Token) /\ Len(base) = Len(read.config["vantiq_url"]) - 1
         /\ request.path = PathText(request.version, <<"ns">>, request.name, request.id)
         /\ request.path \in Seq(Token) /\ Len(request.path) \in Nat \ {0}
         /\ \E query \in Seq(Token) : request.url = base \o request.path \o query
<1> DEFINE given == read.config["vantiq_url"]
<1>1. given \in Seq(Token) \ {<< >>} /\ Last(given) = "/" /\ base = Front(given)
  <2>1. "vantiq_url" \in Key
    BY DEF Key
  <2> QED
    BY <2>1 DEF UrlInv, ConfigTexts, server_url
<1>2. Len(given) \in Nat \ {0}
  BY <1>1, EmptySeq
<1>3. base \in Seq(Token) /\ Len(base) = Len(given) - 1
  <2> HIDE DEF given
  <2>1. Len(given) - 1 \in Int /\ Len(given) - 1 <= Len(given) /\ 1 \in Nat \ {0}
    BY <1>2
  <2>2. /\ SubSeq(given, 1, Len(given) - 1) \in Seq(Token)
        /\ Len(SubSeq(given, 1, Len(given) - 1)) =
             IF 1 <= Len(given) - 1 THEN Len(given) - 1 - 1 + 1 ELSE 0
    BY <1>1, <2>1, SubSeqIn
  <2>3. (IF 1 <= Len(given) - 1 THEN Len(given) - 1 - 1 + 1 ELSE 0) = Len(given) - 1
    <3>1. ASSUME NEW x \in Nat \ {0} PROVE (IF 1 <= x - 1 THEN x - 1 - 1 + 1 ELSE 0) = x - 1
      OBVIOUS
    <3> QED
      BY <1>2, <3>1
  <2> QED
    BY <1>1, <2>2, <2>3 DEF Front
<1>4. /\ request.path = PathText(request.version, <<"ns">>, request.name, request.id)
      /\ request.path \in Seq(Token) /\ Len(request.path) \in Nat \ {0}
  <2>1. /\ request.version \in Seq(STRING) /\ Len(request.version) <= 3
        /\ request.name = NULL \/ request.name \in Seq(STRING)
        /\ request.id = NULL \/ request.id \in Seq(STRING)
        /\ request.path = build_rsuri(request.version, <<"ns">>, request.name, request.id)
    BY TextAssumption DEF UrlInv
  <2> DEFINE v == request.version
             n == request.name
             i == request.id
  <2> HIDE DEF v, n, i
  <2>2. /\ build_rsuri(v, <<"ns">>, n, i) = PathText(v, <<"ns">>, n, i)
        /\ PathText(v, <<"ns">>, n, i) \in Seq(Token)
        /\ Len(PathText(v, <<"ns">>, n, i)) \in Nat \ {0}
    <3>1. /\ v \in Seq(STRING) /\ Len(v) <= 3
          /\ n = NULL \/ n \in Seq(STRING)
          /\ i = NULL \/ i \in Seq(STRING)
      BY <2>1 DEF v, n, i
    <3> QED
      BY <3>1, NothingCut
  <2> QED
    BY <2>1, <2>2 DEF v, n, i
<1>5. Query(build_select_params(request.q), request.escaped) \in Seq(Token)
  BY ParametersIn, QueryIn DEF UrlInv
<1>6. request.url = base \o request.path \o Query(build_select_params(request.q), request.escaped)
  BY DEF UrlInv, create_url
<1> QED
  BY <1>1, <1>3, <1>4, <1>5, <1>6

LEMMA UrlWhole == UrlInv => HostKept /\ PathWhole
<1> SUFFICES ASSUME UrlInv, request.made PROVE HostKept /\ PathWhole
  BY DEF HostKept, PathWhole
<1> DEFINE given == read.config["vantiq_url"]
           path == request.path
           url == request.url
<1>1. /\ given \in Seq(Token) \ {<< >>} /\ base = Front(given)
      /\ base \in Seq(Token) /\ Len(base) = Len(given) - 1
      /\ path = PathText(request.version, <<"ns">>, request.name, request.id)
      /\ path \in Seq(Token) /\ Len(path) \in Nat \ {0}
  BY UrlIs
<1>2. PICK query \in Seq(Token) : url = base \o path \o query
  BY UrlIs
<1> HIDE DEF given, path, url
<1>3. Len(base) \in Nat /\ Len(query) \in Nat
  BY <1>1, LenProperties
<1>4. base \o path \in Seq(Token) /\ Len(base \o path) = Len(base) + Len(path)
  BY <1>1, Joined
<1>5. SubSeq(url, Len(base) + 1, Len(base) + Len(path)) = path
  <2> DEFINE m == Len(base) + 1
             n == Len(base) + Len(path)
  <2>1. /\ m \in 1 .. Len(base \o path) /\ n \in 1 .. Len(base \o path)
        /\ m \in Len(base) + 1 .. Len(base) + Len(path) /\ n \in Len(base) + 1 .. Len(base) + Len(path)
        /\ m - Len(base) = 1 /\ n - Len(base) = Len(path)
    BY <1>1, <1>3, <1>4
  <2> HIDE DEF m, n
  <2>2. SubSeq(url, m, n) = SubSeq(base \o path, m, n)
    BY <1>2, <1>4, <2>1, SubSeqOfConcat1
  <2>3. SubSeq(base \o path, m, n) = SubSeq(path, m - Len(base), n - Len(base))
    BY <1>1, <2>1, SubSeqOfConcat2, SMTT(30)
  <2>4. SubSeq(path, m - Len(base), n - Len(base)) = path
    BY <1>1, <2>1, SubSeqFull
  <2> QED
    BY <2>2, <2>3, <2>4 DEF m, n
<1>6. url = Front(given) \o Ahead(url, Len(given) - 1)
  <2> DEFINE rest == path \o query
             m == Len(base) + 1
             n == Len(base) + Len(rest)
  <2>0. base \in Seq(Token) /\ path \in Seq(Token) /\ query \in Seq(Token)
    BY <1>1
  <2>1. url = base \o rest
    <3>1. (base \o path) \o query = base \o (path \o query)
      BY <2>0, JoinedInTurn
    <3> QED
      BY <1>2, <3>1
  <2>2. rest \in Seq(Token) /\ Len(rest) = Len(path) + Len(query)
    BY <1>1, Joined
  <2> HIDE DEF rest
  <2>3. Len(url) = n
    BY <1>1, <2>1, <2>2, Joined
  <2>4. /\ m \in Len(base) + 1 .. Len(base) + Len(rest) /\ n \in Len(base) + 1 .. Len(base) + Len(rest)
        /\ m - Len(base) = 1 /\ n - Len(base) = Len(rest) /\ Len(given) - 1 + 1 = m
    BY <1>1, <1>3, <2>2
  <2> HIDE DEF m, n
  <2>5. SubSeq(base \o rest, m, n) = SubSeq(rest, m - Len(base), n - Len(base))
    BY <1>1, <2>2, <2>4, SubSeqOfConcat2, SMTT(30)
  <2>6. SubSeq(rest, m - Len(base), n - Len(base)) = rest
    BY <2>2, <2>4, SubSeqFull
  <2>7. Ahead(url, Len(given) - 1) = SubSeq(url, m, n)
    BY <2>3, <2>4 DEF Ahead
  <2> QED
    BY <1>1, <2>1, <2>5, <2>6, <2>7
<1> QED
  BY <1>1, <1>5, <1>6 DEF HostKept, PathWhole, given, path, url

-----------------------------------------------------------------------------
(* Texts without a slash at the end and without two in a row go together.  *)
LEMMA SmoothJoined ==
  ASSUME NEW s \in Seq(Token), NEW t \in Seq(Token), Smooth(s), Smooth(t)
  PROVE  s \o t \in Seq(Token) /\ Smooth(s \o t)
<1>1. /\ s \o t \in Seq(Token) /\ Len(s \o t) = Len(s) + Len(t)
      /\ Len(s) \in Nat /\ Len(t) \in Nat
      /\ DOMAIN s = 1 .. Len(s) /\ DOMAIN t = 1 .. Len(t) /\ DOMAIN (s \o t) = 1 .. Len(s) + Len(t)
  BY Joined, LenProperties
<1>2. \A i \in 1 .. Len(s) + Len(t) : (s \o t)[i] = IF i <= Len(s) THEN s[i] ELSE t[i - Len(s)]
  BY ConcatProperties
<1>3. ASSUME NEW k \in 1 .. Len(s) + Len(t), (s \o t)[k] = "/"
      PROVE  k < Len(s) + Len(t) /\ (s \o t)[k + 1] # "/"
  <2>1. CASE k <= Len(s)
    <3>1. k \in DOMAIN s /\ s[k] = "/"
      BY <1>1, <1>2, <1>3, <2>1
    <3>2. k < Len(s) /\ s[k + 1] # "/"
      BY <3>1 DEF Smooth
    <3>3. k + 1 \in 1 .. Len(s) + Len(t) /\ k + 1 <= Len(s)
      BY <1>1, <3>2
    <3> QED
      BY <1>1, <1>2, <3>2, <3>3
  <2>2. CASE ~(k <= Len(s))
    <3>1. k - Len(s) \in DOMAIN t /\ t[k - Len(s)] = "/"
      BY <1>1, <1>2, <1>3, <2>2
    <3>2. k - Len(s) < Len(t) /\ t[k - Len(s) + 1] # "/"
      BY <3>1 DEF Smooth
    <3>3. k + 1 \in 1 .. Len(s) + Len(t) /\ ~(k + 1 <= Len(s)) /\ k + 1 - Len(s) = k - Len(s) + 1
      BY <1>1, <2>2, <3>2
    <3> QED
      BY <1>1, <1>2, <3>2, <3>3
  <2> QED
    BY <2>1, <2>2
<1> QED
  BY <1>1, <1>3 DEF Smooth

LEMMA SmoothPart ==
  ASSUME NEW n, n = NULL \/ n \in Seq(STRING), Clean(n)
  PROVE  Part(n) \in Seq(Token) /\ Smooth(Part(n))
<1>1. Part(n) \in Seq(Token)
  BY PartIs
<1>2. CASE n = NULL
  <2>1. Part(n) = << >>
    BY <1>2 DEF Part
  <2> QED
    BY <1>1, <2>1 DEF Smooth
<1>3. CASE n # NULL
  <2>1. n \in Seq(Token) /\ "/" \in Token /\ n # << >> /\ Head(n) # "/" /\ Smooth(n)
    BY <1>3, StringsTokens DEF Token, Clean
  <2>2. Len(n) \in Nat \ {0} /\ DOMAIN n = 1 .. Len(n) /\ Head(n) = n[1]
    BY <2>1, EmptySeq, LenProperties
  <2>3. /\ <<"/">> \in Seq(Token) /\ Len(<<"/">>) = 1 /\ <<"/">>[1] = "/"
    BY <2>1
  <2> DEFINE a == <<"/">>
             p == a \o n
  <2> HIDE DEF a
  <2>4. p \in Seq(Token) /\ Len(p) = 1 + Len(n) /\ DOMAIN p = 1 .. 1 + Len(n)
    BY <2>1, <2>3, Joined, LenProperties DEF a
  <2>5. \A i \in 1 .. 1 + Len(n) : p[i] = IF i <= 1 THEN a[i] ELSE n[i - 1]
    BY <2>1, <2>3, ConcatProperties DEF a
  <2> HIDE DEF p
  <2>6. ASSUME NEW k \in 1 .. 1 + Len(n), p[k] = "/"
        PROVE  k < 1 + Len(n) /\ p[k + 1] # "/"
    <3>1. CASE k = 1
      <4>1. 2 \in 1 .. 1 + Len(n) /\ ~(2 <= 1) /\ 2 - 1 = 1 /\ k + 1 = 2
        BY <2>2, <3>1
      <4> QED
        BY <2>1, <2>2, <2>5, <4>1
    <3>2. CASE k # 1
      <4>1. k - 1 \in DOMAIN n /\ n[k - 1] = "/"
        BY <2>2, <2>5, <2>6, <3>2
      <4>2. k - 1 < Len(n) /\ n[k - 1 + 1] # "/"
        BY <2>1, <4>1 DEF Smooth
      <4>3. k + 1 \in 1 .. 1 + Len(n) /\ ~(k + 1 <= 1) /\ k + 1 - 1 = k - 1 + 1
        BY <2>2, <3>2, <4>2
      <4> QED
        BY <2>2, <2>5, <4>2, <4>3
    <3> QED
      BY <3>1, <3>2
  <2>7. Part(n) = p
    BY <1>3 DEF Part, p, a
  <2> QED
    BY <1>1, <2>4, <2>6, <2>7 DEF Smooth
<1> QED
  BY <1>2, <1>3

LEMMA SmoothPath ==
  ASSUME NEW v \in Seq(STRING), "/" \notin ToSet(v),
         NEW name, name = NULL \/ name \in Seq(STRING), Clean(name),
         NEW id, id = NULL \/ id \in Seq(STRING), Clean(id)
  PROVE  Smooth(PathText(v, <<"ns">>, name, id))
<1> DEFINE a == <<"/", "api", "/", "v">>
           b == <<"/", "resources", "/">>
           c == <<"ns">>
           b1 == <<"/", "resources", "/", "ns">>
           d == Part(name)
           e == Part(id)
<1>1. /\ a \in Seq(Token) /\ b1 \in Seq(Token) /\ b \in Seq(Token) /\ c \in Seq(Token)
  <2>1. {"/", "api", "v", "resources", "ns"} \subseteq Token
    BY DEF Token
  <2> QED
    BY <2>1
<1>2. Smooth(a)
  BY DEF Smooth
<1>3. Smooth(b1)
  BY DEF Smooth
<1>4. v \in Seq(Token) /\ Smooth(v)
  <2>1. v \in Seq(Token) /\ \A k \in DOMAIN v : v[k] # "/"
    BY StringsTokens DEF ToSet
  <2> QED
    BY <2>1 DEF Smooth
<1>5. d \in Seq(Token) /\ Smooth(d) /\ e \in Seq(Token) /\ Smooth(e)
  BY SmoothPart
<1>6. PathText(v, <<"ns">>, name, id) = a \o v \o b \o c \o d \o e
  BY DEF PathText, Part
<1>7. b \o c = b1
  <2>1. /\ b \o c \in Seq(Token) /\ Len(b \o c) = 4
        /\ \A i \in 1 .. 4 : (b \o c)[i] = IF i <= 3 THEN b[i] ELSE c[i - 3]
    <3>1. Len(b) = 3 /\ Len(c) = 1
      OBVIOUS
    <3> HIDE DEF b, c
    <3>2. /\ b \o c \in Seq(Token) /\ Len(b \o c) = Len(b) + Len(c)
          /\ \A i \in 1 .. Len(b) + Len(c) : (b \o c)[i] = IF i <= Len(b) THEN b[i] ELSE c[i - Len(b)]
      BY <1>1, ConcatProperties
    <3> QED
      BY <3>1, <3>2
  <2>2. Len(b1) = 4 /\ \A i \in 1 .. 4 : b1[i] = IF i <= 3 THEN b[i] ELSE c[i - 3]
    OBVIOUS
  <2> DEFINE bc == b \o c
  <2>3. bc \in Seq(Token) /\ Len(bc) = Len(b1) /\ \A i \in 1 .. Len(bc) : bc[i] = b1[i]
    BY <2>1, <2>2
  <2> HIDE DEF bc, b1
  <2> QED
    BY <1>1, <2>3, SeqEqual DEF bc
<1> HIDE DEF a, b, c, b1, d, e
<1>8. a \o v \in Seq(Token) /\ Smooth(a \o v)
  BY <1>1, <1>2, <1>4, SmoothJoined
<1>9. a \o v \o b \o c = a \o v \o b1
  <2> DEFINE av == a \o v
  <2>1. av \in Seq(Token) /\ b \in Seq(Token) /\ c \in Seq(Token)
    BY <1>1, <1>8
  <2> HIDE DEF av
  <2>2. (av \o b) \o c = av \o (b \o c)
    BY <2>1, JoinedInTurn
  <2> QED
    BY <1>7, <2>2 DEF av
<1>10. a \o v \o b1 \in Seq(Token) /\ Smooth(a \o v \o b1)
  BY <1>1, <1>3, <1>8, SmoothJoined
<1>11. a \o v \o b1 \o d \in Seq(Token) /\ Smooth(a \o v \o b1 \o d)
  BY <1>5, <1>10, SmoothJoined
<1>12. Smooth(a \o v \o b1 \o d \o e)
  BY <1>5, <1>11, SmoothJoined
<1> QED
  BY <1>6, <1>9, <1>12

-----------------------------------------------------------------------------
(* What is escaped is read again. *)
LEMMA EscapeIs ==
  /\ DOMAIN Escape = {"?", "=", ";", "/", " "}
  /\ \A c \in DOMAIN Escape : Escape[c] \notin {"?", ";"}
  /\ \A c, d \in DOMAIN Escape : Escape[c] = Escape[d] => c = d
<1>1. /\ DOMAIN Escape = {"?", "=", ";", "/", " "}
      /\ Escape["?"] = "%3F" /\ Escape["="] = "%3D" /\ Escape[";"] = "%3B"
      /\ Escape["/"] = "%2F" /\ Escape[" "] = "%20"
  BY DEF Escape
<1> QED
  BY <1>1

Sent(escaped, s) == IF escaped THEN curl_easy_escape(s) ELSE s

LEMMA SentIs ==
  ASSUME NEW s \in Seq(STRING), NEW escaped \in BOOLEAN,
         ToSet(s) \cap {Escape[c] : c \in DOMAIN Escape} = {},
         escaped \/ ToSet(s) \cap DOMAIN Escape = {}
  PROVE  /\ Sent(escaped, s) \in Seq(Token)
         /\ \A k \in 1 .. Len(Sent(escaped, s)) : Sent(escaped, s)[k] \notin {"?", ";"}
         /\ Unescape(Sent(escaped, s)) = s
<1> DEFINE w == Sent(escaped, s)
<1>1. Len(s) \in Nat /\ DOMAIN s = 1 .. Len(s) /\ s = [k \in 1 .. Len(s) |-> s[k]]
  BY LenProperties
<1>2. w \in Seq(Token)
  BY EscapedIn, StringsTokens DEF Sent
<1>3. w \in Seq(Token) /\ DOMAIN w = 1 .. Len(s)
      /\ \A k \in 1 .. Len(s) : w[k] = IF s[k] \in DOMAIN Escape THEN Escape[s[k]] ELSE s[k]
  <2>1. \A k \in 1 .. Len(s) : s[k] \in ToSet(s)
    BY <1>1 DEF ToSet
  <2> QED
    BY <1>1, <1>2, <2>1 DEF Sent, curl_easy_escape
<1>4. Len(w) = Len(s)
  <2> HIDE DEF w
  <2>1. Len(w) \in Nat /\ 1 .. Len(w) = 1 .. Len(s)
    BY <1>3, LenProperties
  <2> QED
    BY <1>1, <2>1
<1> HIDE DEF w
<1>5. \A k \in 1 .. Len(s) : w[k] \notin {"?", ";"}
  BY <1>3, EscapeIs
<1>6. ASSUME NEW k \in 1 .. Len(s)
      PROVE  (IF \E c \in DOMAIN Escape : Escape[c] = w[k]
              THEN CHOOSE c \in DOMAIN Escape : Escape[c] = w[k] ELSE w[k]) = s[k]
  <2>1. CASE s[k] \in DOMAIN Escape
    <3>1. \A c \in DOMAIN Escape : Escape[c] = w[k] <=> c = s[k]
      BY <1>3, <2>1, EscapeIs
    <3> QED
      BY <2>1, <3>1
  <2>2. CASE s[k] \notin DOMAIN Escape
    <3>1. s[k] \in ToSet(s)
      BY <1>1 DEF ToSet
    <3> QED
      BY <1>3, <2>2, <3>1
  <2> QED
    BY <2>1, <2>2
<1>7. Unescape(w) = s
  <2>1. Unescape(w) = [k \in 1 .. Len(s) |-> IF \E c \in DOMAIN Escape : Escape[c] = w[k]
                      THEN CHOOSE c \in DOMAIN Escape : Escape[c] = w[k] ELSE w[k]]
    BY <1>3 DEF Unescape
  <2>2. Unescape(w) = [k \in 1 .. Len(s) |-> s[k]]
    BY <1>6, <2>1
  <2> QED
    BY <1>1, <2>2
<1> QED
  BY <1>2, <1>4, <1>5, <1>7 DEF w

-----------------------------------------------------------------------------
(* The parameters of a select are the options it was given. *)
LEMMA OneMoreParameter ==
  ASSUME NEW params \in Seq(Parameter), NEW r \in Parameter
  PROVE  <<r>> \o params \in Seq(Parameter) /\ ToSet(<<r>> \o params) = {r} \cup ToSet(params)
<1> DEFINE a == <<r>>
           all == a \o params
<1>1. a \in Seq(Parameter) /\ Len(a) = 1 /\ a[1] = r
  OBVIOUS
<1> HIDE DEF a
<1>2. /\ all \in Seq(Parameter) /\ Len(all) = 1 + Len(params)
      /\ \A i \in 1 .. 1 + Len(params) : all[i] = IF i <= 1 THEN a[i] ELSE params[i - 1]
  <2>1. /\ all \in Seq(Parameter) /\ Len(all) = Len(a) + Len(params)
        /\ \A i \in 1 .. Len(a) + Len(params) : all[i] = IF i <= Len(a) THEN a[i] ELSE params[i - Len(a)]
    BY <1>1, ConcatProperties
  <2> QED
    BY <1>1, <2>1
<1>3. Len(params) \in Nat /\ DOMAIN params = 1 .. Len(params) /\ DOMAIN all = 1 .. 1 + Len(params)
  BY <1>2, LenProperties
<1> HIDE DEF all
<1>4. r \in ToSet(all)
  <2>1. 1 \in DOMAIN all /\ all[1] = r
    BY <1>1, <1>2, <1>3
  <2> QED
    BY <2>1 DEF ToSet
<1>5. ASSUME NEW i \in DOMAIN params PROVE params[i] \in ToSet(all)
  <2>1. i + 1 \in DOMAIN all /\ all[i + 1] = params[i]
    BY <1>2, <1>3
  <2> QED
    BY <2>1 DEF ToSet
<1>6. ASSUME NEW i \in DOMAIN all PROVE all[i] = r \/ all[i] \in ToSet(params)
  <2>1. CASE i = 1
    BY <1>1, <1>2, <1>3, <2>1
  <2>2. CASE i # 1
    <3>1. i - 1 \in DOMAIN params /\ all[i] = params[i - 1]
      BY <1>2, <1>3, <2>2
    <3> QED
      BY <3>1 DEF ToSet
  <2> QED
    BY <2>1, <2>2
<1>7. ToSet(all) = {r} \cup ToSet(params)
  BY <1>4, <1>5, <1>6 DEF ToSet
<1> QED
  BY <1>2, <1>7 DEF all, a

LEMMA ParametersAre ==
  ASSUME NEW q \in Select
  PROVE  /\ build_select_params(q) \in Seq(Parameter)
         /\ ToSet(build_select_params(q)) =
              {[key |-> o, value |-> q[o]] : o \in {p \in Option : q[p] # NULL}}
<1> DEFINE add(params, key) == IF q[key] = NULL THEN params ELSE build_param(params, key, q[key])
           of(O) == {[key |-> o, value |-> q[o]] : o \in {p \in O : q[p] # NULL}}
<1>1. ASSUME NEW params \in Seq(Parameter), NEW O, ToSet(params) = of(O), NEW key \in Option
      PROVE  add(params, key) \in Seq(Parameter) /\ ToSet(add(params, key)) = of(O \cup {key})
  <2>1. CASE q[key] = NULL
    <3>1. of(O \cup {key}) = of(O)
      BY <2>1
    <3> QED
      BY <1>1, <2>1, <3>1
  <2>2. CASE q[key] # NULL
    <3> DEFINE r == [key |-> key, value |-> q[key]]
    <3>1. r \in Parameter
      BY <2>2, TextAssumption DEF Parameter
    <3>2. of(O \cup {key}) = {r} \cup of(O)
      BY <2>2
    <3>3. add(params, key) = <<r>> \o params
      BY <2>2 DEF build_param
    <3> HIDE DEF r, of, add
    <3>4. <<r>> \o params \in Seq(Parameter) /\ ToSet(<<r>> \o params) = {r} \cup ToSet(params)
      BY <3>1, OneMoreParameter
    <3> QED
      BY <1>1, <3>2, <3>3, <3>4
  <2> QED
    BY <2>1, <2>2
<1>2. Option = {"props", "where", "sort", "page", "limit"}
  BY DEF Option
<1>3. build_select_params(q) = add(add(add(add(add(<< >>, "props"), "where"), "sort"), "page"), "limit")
  BY DEF build_select_params
<1>4. << >> \in Seq(Parameter) /\ ToSet(<< >>) = of({})
  <2>1. << >> \in Seq(Parameter) /\ DOMAIN << >> = {}
    BY EmptySeq
  <2> QED
    BY <2>1 DEF ToSet
<1> DEFINE p1 == add(<< >>, "props")
           p2 == add(p1, "where")
           p3 == add(p2, "sort")
           p4 == add(p3, "page")
           p5 == add(p4, "limit")
<1> HIDE DEF add, of
<1>5. p1 \in Seq(Parameter) /\ ToSet(p1) = of({} \cup {"props"})
  BY <1>1, <1>2, <1>4
<1> HIDE DEF p1
<1>6. p2 \in Seq(Parameter) /\ ToSet(p2) = of({} \cup {"props"} \cup {"where"})
  BY <1>1, <1>2, <1>5
<1> HIDE DEF p2
<1>7. p3 \in Seq(Parameter) /\ ToSet(p3) = of({} \cup {"props"} \cup {"where"} \cup {"sort"})
  BY <1>1, <1>2, <1>6
<1> HIDE DEF p3
<1>8. p4 \in Seq(Parameter) /\ ToSet(p4) = of({} \cup {"props"} \cup {"where"} \cup {"sort"} \cup {"page"})
  BY <1>1, <1>2, <1>7
<1> HIDE DEF p4
<1>9. p5 \in Seq(Parameter)
      /\ ToSet(p5) = of({} \cup {"props"} \cup {"where"} \cup {"sort"} \cup {"page"} \cup {"limit"})
  BY <1>1, <1>2, <1>8
<1>10. {} \cup {"props"} \cup {"where"} \cup {"sort"} \cup {"page"} \cup {"limit"} = Option
  BY <1>2
<1>11. build_select_params(q) = p5
  BY <1>3 DEF p1, p2, p3, p4
<1>12. build_select_params(q) \in Seq(Parameter) /\ ToSet(build_select_params(q)) = of(Option)
  BY <1>9, <1>10, <1>11
<1> QED
  BY <1>12 DEF of

-----------------------------------------------------------------------------
(* A key and the text w stand behind the mark at k, and behind them a      *)
(* separator or nothing.                                                   *)
PairAt(u, k, key, w) ==
  /\ k \in 1 .. Len(u) /\ u[k] \in {"?", ";"} /\ u[k + 1] = key
  /\ k + 2 + Len(w) <= Len(u)
  /\ \A i \in 1 .. Len(w) : u[k + 2 + i] = w[i]
  /\ k + 2 + Len(w) = Len(u) \/ u[k + 3 + Len(w)] = ";"

LEMMA PairRead ==
  ASSUME NEW u \in Seq(Token), NEW w \in Seq(Token), NEW k \in Nat, NEW key
  PROVE  PairAt(u, k, key, w) /\ (\A i \in 1 .. Len(w) : w[i] \notin {"?", ";"}) =>
           LET rest == Ahead(u, k + 2) IN SubSeq(rest, 1, Before(rest, {";"})) = w
<1>s. SUFFICES ASSUME PairAt(u, k, key, w), \A i \in 1 .. Len(w) : w[i] \notin {"?", ";"}
              PROVE  LET rest == Ahead(u, k + 2) IN SubSeq(rest, 1, Before(rest, {";"})) = w
  OBVIOUS
<1> DEFINE rest == Ahead(u, k + 2)
           M == {i - 1 : i \in {j \in DOMAIN rest : rest[j] \in {";"}}} \cup {Len(rest)}
<1>1. /\ Len(u) \in Nat /\ Len(w) \in Nat /\ 1 <= k /\ k <= Len(u) /\ k + 2 + Len(w) <= Len(u)
  <2>1. Len(u) \in Nat /\ Len(w) \in Nat
    BY LenProperties
  <2>2. k \in 1 .. Len(u) /\ k + 2 + Len(w) <= Len(u)
    BY <1>s DEF PairAt
  <2> QED
    BY <2>1, <2>2
<1>0. /\ \A i \in 1 .. Len(w) : u[k + 2 + i] = w[i]
      /\ k + 2 + Len(w) = Len(u) \/ u[k + 3 + Len(w)] = ";"
  BY <1>s DEF PairAt
<1> DEFINE n == Len(u)
           l == Len(w)
<1>2. /\ rest \in Seq(Token) /\ Len(rest) = n - (k + 2) /\ DOMAIN rest = 1 .. Len(rest)
      /\ \A i \in 1 .. Len(rest) : rest[i] = u[k + 2 + i]
  <2>1. n \in Nat /\ k + 3 \in Nat \ {0} /\ n \in Int /\ k + 2 < n + 1 /\ k + 2 + 1 = k + 3
    BY <1>1
  <2>2. rest = SubSeq(u, k + 3, n)
    BY <2>1 DEF Ahead
  <2>3. SubSeq(u, k + 3, n) \in Seq(Token) /\ Len(SubSeq(u, k + 3, n)) = IF k + 3 <= n THEN n - (k + 3) + 1 ELSE 0
    <3>1. n <= Len(u)
      BY <2>1
    <3> HIDE DEF n
    <3> QED
      BY <2>1, <3>1, SubSeqIn
  <2>4. \A j \in k + 3 .. n : u[j] \in Token
    <3>1. \A j \in k + 3 .. n : j \in 1 .. n
      <4> HIDE DEF n
      <4> QED
        BY <2>1
    <3> QED
      BY <3>1, ElementOfSeq
  <2> HIDE DEF n, l, rest
  <2>5. (IF k + 3 <= n THEN n - (k + 3) + 1 ELSE 0) = n - (k + 2)
    BY <2>1
  <2>6. ASSUME NEW i \in 1 .. Len(rest) PROVE rest[i] = u[k + 2 + i]
    <3>1. i \in 1 .. n - (k + 3) + 1 /\ (k + 3) + i - 1 = k + 2 + i
      BY <2>1, <2>2, <2>3, <2>5
    <3>2. \A m \in 1 .. n - (k + 3) + 1 : SubSeq(u, k + 3, n)[m] = u[(k + 3) + m - 1]
      BY <2>1, <2>4, SubSeqProperties
    <3> QED
      BY <2>2, <3>1, <3>2
  <2> QED
    BY <2>2, <2>3, <2>5, <2>6, LenProperties
<1>a. n \in Nat /\ l \in Nat /\ k + 2 + l <= n
  BY <1>1
<1>b. /\ \A i \in 1 .. l : u[k + 2 + i] = w[i]
      /\ k + 2 + l = n \/ u[k + 3 + l] = ";"
  BY <1>0
<1>c. \A i \in 1 .. l : w[i] # ";"
  BY <1>s
<1> HIDE DEF rest, n, l
<1>3. l <= Len(rest) /\ Len(rest) \in Nat /\ \A i \in 1 .. l : rest[i] = w[i]
  <2>1. Len(rest) = n - (k + 2) /\ l <= n - (k + 2) /\ n - (k + 2) \in Nat
    BY <1>a, <1>2
  <2>2. ASSUME NEW i \in 1 .. l PROVE rest[i] = w[i]
    <3>1. i \in 1 .. Len(rest)
      BY <1>a, <2>1
    <3> QED
      BY <1>b, <1>2, <3>1
  <2> QED
    BY <2>1, <2>2
<1>4. l \in M
  <2>1. CASE k + 2 + l = n
    <3>1. l = n - (k + 2)
      BY <1>a, <2>1
    <3> QED
      BY <1>2, <3>1
  <2>2. CASE k + 2 + l # n
    <3>1. l + 1 \in DOMAIN rest /\ k + 2 + (l + 1) = k + 3 + l /\ l = l + 1 - 1
      BY <1>a, <1>2, <2>2
    <3>2. rest[l + 1] \in {";"}
      BY <1>b, <1>2, <2>2, <3>1
    <3>3. l + 1 \in {j \in DOMAIN rest : rest[j] \in {";"}}
      BY <3>1, <3>2
    <3> DEFINE S == {j \in DOMAIN rest : rest[j] \in {";"}}
    <3>4. \E i \in S : l = i - 1
      <4>1. l + 1 \in S
        BY <3>3
      <4> HIDE DEF S
      <4>2. l = (l + 1) - 1
        BY <1>a
      <4> WITNESS l + 1 \in S
      <4> QED
        BY <4>2
    <3> QED
      BY <3>4
  <2> QED
    BY <2>1, <2>2
<1>5. M \in SUBSET Nat /\ \A m \in M : l <= m
  <2>1. ASSUME NEW j \in DOMAIN rest, rest[j] \in {";"} PROVE j - 1 \in Nat /\ l <= j - 1
    <3>1. j \in Nat \ {0} /\ ~(j \in 1 .. l)
      <4>1. rest[j] = ";" /\ j \in 1 .. Len(rest)
        BY <1>2, <2>1
      <4>2. ASSUME j \in 1 .. l PROVE FALSE
        BY <1>3, <1>c, <4>1, <4>2
      <4>3. j \in Nat \ {0}
        <5>1. \A m \in Nat : 1 .. m \subseteq Nat \ {0}
          OBVIOUS
        <5>2. Len(rest) \in Nat
          BY <1>3
        <5> QED
          BY <4>1, <5>1, <5>2, Zenon
      <4> QED
        BY <4>2, <4>3
    <3> QED
      BY <1>a, <3>1
  <2> QED
    BY <1>3, <2>1
<1>6. Before(rest, {";"}) = l
  <2>1. Before(rest, {";"}) = Min(M)
    BY DEF Before
  <2> HIDE DEF M
  <2> QED
    BY <1>4, <1>5, <2>1, MinOf
<1>7. SubSeq(rest, 1, l) = w
  <2> DEFINE s == SubSeq(rest, 1, l)
  <2>1. l \in Int /\ l <= Len(rest) /\ 1 \in Nat \ {0} /\ (IF 1 <= l THEN l - 1 + 1 ELSE 0) = l
    BY <1>a, <1>3
  <2>2. s \in Seq(Token) /\ Len(s) = IF 1 <= l THEN l - 1 + 1 ELSE 0
    BY <1>2, <2>1, SubSeqIn
  <2>3. \A j \in 1 .. l : rest[j] \in Token
    <3>1. \A j \in 1 .. l : j \in 1 .. Len(rest)
      BY <1>a, <1>3
    <3> QED
      BY <1>2, <3>1, ElementOfSeq
  <2>4. \A i \in 1 .. l - 1 + 1 : s[i] = rest[1 + i - 1]
    BY <2>1, <2>3, SubSeqProperties
  <2>5. ASSUME NEW i \in 1 .. l PROVE s[i] = w[i]
    <3>1. i \in 1 .. l - 1 + 1 /\ 1 + i - 1 = i
      BY <1>a
    <3> QED
      BY <1>3, <2>4, <3>1
  <2> HIDE DEF s
  <2>6. Len(s) = Len(w) /\ \A i \in 1 .. Len(s) : s[i] = w[i]
    BY <2>1, <2>2, <2>5 DEF l
  <2>7. s = w
    BY <2>2, <2>6, SeqEqual
  <2> QED
    BY <2>7 DEF s
<1> QED
  BY <1>6, <1>7 DEF rest

-----------------------------------------------------------------------------
(* A parameter as it is sent: a separator, the key, "=" and the text.      *)
LEMMA PieceIs ==
  ASSUME NEW x \in Token, NEW key \in Token, NEW w \in Seq(Token)
  PROVE  LET p == <<x>> \o <<key, "=">> \o w
         IN  /\ p \in Seq(Token) /\ Len(p) = 3 + Len(w)
             /\ p[1] = x /\ p[2] = key /\ p[3] = "=" /\ \A i \in 1 .. Len(w) : p[3 + i] = w[i]
<1> DEFINE a == <<x>>
           b == <<key, "=">>
           ab == a \o b
           p == ab \o w
<1>1. a \in Seq(Token) /\ b \in Seq(Token) /\ Len(a) = 1 /\ Len(b) = 2 /\ a[1] = x /\ b[1] = key /\ b[2] = "="
  <2>1. "=" \in Token
    BY DEF Token
  <2> QED
    BY <2>1, FewTokens
<1> HIDE DEF a, b
<1>2. ab \in Seq(Token) /\ Len(ab) = 3 /\ ab[1] = x /\ ab[2] = key /\ ab[3] = "="
  <2>1. /\ ab \in Seq(Token) /\ Len(ab) = Len(a) + Len(b)
        /\ \A i \in 1 .. Len(a) + Len(b) : ab[i] = IF i <= Len(a) THEN a[i] ELSE b[i - Len(a)]
    BY <1>1, ConcatProperties
  <2> HIDE DEF ab
  <2>2. /\ ab \in Seq(Token) /\ Len(ab) = 3
        /\ \A i \in 1 .. 3 : ab[i] = IF i <= 1 THEN a[i] ELSE b[i - 1]
    BY <1>1, <2>1
  <2> QED
    BY <1>1, <2>2
<1> HIDE DEF ab
<1>3. /\ p \in Seq(Token) /\ Len(p) = 3 + Len(w)
      /\ \A i \in 1 .. 3 + Len(w) : p[i] = IF i <= 3 THEN ab[i] ELSE w[i - 3]
  <2>1. /\ p \in Seq(Token) /\ Len(p) = Len(ab) + Len(w)
        /\ \A i \in 1 .. Len(ab) + Len(w) : p[i] = IF i <= Len(ab) THEN ab[i] ELSE w[i - Len(ab)]
    BY <1>2, ConcatProperties
  <2> HIDE DEF p
  <2> QED
    BY <1>2, <2>1
<1>4. Len(w) \in Nat
  BY LenProperties
<1> HIDE DEF p
<1>5. p[1] = x /\ p[2] = key /\ p[3] = "="
  <2>1. 1 \in 1 .. 3 + Len(w) /\ 2 \in 1 .. 3 + Len(w) /\ 3 \in 1 .. 3 + Len(w)
    BY <1>4
  <2> QED
    BY <1>2, <1>3, <2>1
<1>6. ASSUME NEW i \in 1 .. Len(w) PROVE p[3 + i] = w[i]
  <2>1. 3 + i \in 1 .. 3 + Len(w) /\ ~(3 + i <= 3) /\ 3 + i - 3 = i
    BY <1>4
  <2> QED
    BY <1>3, <2>1
<1> QED
  BY <1>3, <1>5, <1>6 DEF p, ab, a, b

(* What was a pair of a URL stays one behind ";", and the new one is one.  *)
LEMMA OneMorePair ==
  ASSUME NEW u \in Seq(Token), NEW x \in Token, NEW key \in Token, NEW w \in Seq(Token)
  PROVE  LET more == u \o (<<x>> \o <<key, "=">> \o w)
         IN  /\ more \in Seq(Token) /\ Len(more) = Len(u) + (3 + Len(w))
             /\ \A k \in 1 .. Len(u) : more[k] = u[k]
             /\ more[Len(u) + 1] = x /\ more[Len(u) + 2] = key /\ more[Len(u) + 3] = "="
             /\ \A i \in 1 .. Len(w) : more[Len(u) + 3 + i] = w[i]
<1> DEFINE p == <<x>> \o <<key, "=">> \o w
           more == u \o p
<1>1. /\ p \in Seq(Token) /\ Len(p) = 3 + Len(w)
      /\ p[1] = x /\ p[2] = key /\ p[3] = "=" /\ \A i \in 1 .. Len(w) : p[3 + i] = w[i]
  BY PieceIs
<1>2. Len(u) \in Nat /\ Len(w) \in Nat
  BY LenProperties
<1> HIDE DEF p
<1>3. /\ more \in Seq(Token) /\ Len(more) = Len(u) + Len(p)
      /\ \A i \in 1 .. Len(u) + Len(p) : more[i] = IF i <= Len(u) THEN u[i] ELSE p[i - Len(u)]
  <2>1. p \in Seq(Token)
    BY <1>1
  <2>2. /\ u \o p \in Seq(Token) /\ Len(u \o p) = Len(u) + Len(p)
        /\ \A i \in 1 .. Len(u) + Len(p) : (u \o p)[i] = IF i <= Len(u) THEN u[i] ELSE p[i - Len(u)]
    BY <2>1, ConcatProperties
  <2> QED
    BY <2>2
<1> HIDE DEF more
<1>4. \A k \in 1 .. Len(u) : more[k] = u[k]
  <2>1. \A k \in 1 .. Len(u) : k \in 1 .. Len(u) + Len(p) /\ k <= Len(u)
    BY <1>1, <1>2
  <2> QED
    BY <1>3, <2>1
<1>5. \A k \in 1 .. 3 + Len(w) : more[Len(u) + k] = p[k]
  <2>1. \A k \in 1 .. 3 + Len(w) : Len(u) + k \in 1 .. Len(u) + Len(p) /\ ~(Len(u) + k <= Len(u)) /\ Len(u) + k - Len(u) = k
    BY <1>1, <1>2
  <2> QED
    BY <1>3, <2>1
<1>6. ASSUME NEW i \in 1 .. Len(w) PROVE more[Len(u) + 3 + i] = w[i]
  <2>1. 3 + i \in 1 .. 3 + Len(w) /\ Len(u) + (3 + i) = Len(u) + 3 + i
    BY <1>2
  <2> QED
    BY <1>1, <1>5, <2>1
<1>7. more[Len(u) + 1] = x /\ more[Len(u) + 2] = key /\ more[Len(u) + 3] = "="
  <2>1. 1 \in 1 .. 3 + Len(w) /\ 2 \in 1 .. 3 + Len(w) /\ 3 \in 1 .. 3 + Len(w)
    BY <1>2
  <2> QED
    BY <1>1, <1>5, <2>1
<1> QED
  BY <1>1, <1>3, <1>4, <1>6, <1>7 DEF more, p

(* A mark is a separator of a URL. *)
Mark(c) == c \in {"?", ";"}
Semicolon == ";"

NoMark(s) == \A i \in 1 .. Len(s) : ~Mark(s[i])
PairsStay(u, more) ==
  \A k \in Nat, y \in Token, v \in Seq(Token) : PairAt(u, k, y, v) => PairAt(more, k, y, v)
OneMoreMark(u, more) ==
  \A k \in 1 .. Len(more) : Mark(more[k]) => k = Len(u) + 1 \/ (k \in 1 .. Len(u) /\ Mark(u[k]))

Grows(u, x, key, w, more) ==
  /\ more \in Seq(Token)
  /\ x = Semicolon => PairsStay(u, more)
  /\ Mark(x) => PairAt(more, Len(u) + 1, key, w) /\ Len(u) + 1 \in Nat
  /\ ~Mark(key) /\ NoMark(w) => OneMoreMark(u, more)

LEMMA PairsKept ==
  ASSUME NEW u \in Seq(Token), NEW x \in Token, NEW key \in Token, NEW w \in Seq(Token)
  PROVE  Grows(u, x, key, w, u \o (<<x>> \o <<key, "=">> \o w))
<1> DEFINE more == u \o (<<x>> \o <<key, "=">> \o w)
<1>a. more \in Seq(Token) /\ more = u \o (<<x>> \o <<key, "=">> \o w)
  BY OneMorePair
<1> HIDE DEF more
<1> DEFINE n == Len(u)
           l == Len(w)
<1>1. /\ Len(more) = n + (3 + l) /\ \A k \in 1 .. n : more[k] = u[k]
      /\ more[n + 1] = x /\ more[n + 2] = key /\ more[n + 3] = "="
      /\ \A i \in 1 .. l : more[n + 3 + i] = w[i]
  <2> DEFINE all == u \o (<<x>> \o <<key, "=">> \o w)
  <2>1. /\ all \in Seq(Token) /\ Len(all) = Len(u) + (3 + Len(w))
        /\ \A k \in 1 .. Len(u) : all[k] = u[k]
        /\ all[Len(u) + 1] = x /\ all[Len(u) + 2] = key /\ all[Len(u) + 3] = "="
        /\ \A i \in 1 .. Len(w) : all[Len(u) + 3 + i] = w[i]
    BY OneMorePair
  <2>2. more = all
    BY <1>a
  <2> HIDE DEF all
  <2> QED
    BY <2>1, <2>2
<1>2. n \in Nat /\ l \in Nat
  BY LenProperties
<1>3. ASSUME x = Semicolon, NEW k \in Nat, NEW y \in Token, NEW v \in Seq(Token)
      PROVE  PairAt(u, k, y, v) => PairAt(more, k, y, v)
  <2>1. SUFFICES ASSUME PairAt(u, k, y, v) PROVE PairAt(more, k, y, v)
    OBVIOUS
  <2> DEFINE m == Len(v)
  <2>2. m \in Nat
    BY LenProperties
  <2>3. /\ k \in 1 .. n /\ u[k] \in {"?", ";"} /\ u[k + 1] = y
        /\ k + 2 + m <= n
        /\ \A i \in 1 .. m : u[k + 2 + i] = v[i]
        /\ k + 2 + m = n \/ u[k + 3 + m] = ";"
    BY <2>1 DEF PairAt
  <2> HIDE DEF n, l, m
  <2>4. 1 <= k /\ k <= n /\ k + 2 + m <= n
    <3>1. k \in 1 .. n /\ k + 2 + m <= n
      BY <2>3
    <3> QED
      BY <1>2, <2>2, <3>1
  <2>5. k \in 1 .. n + (3 + l) /\ k \in 1 .. n /\ k + 1 \in 1 .. n /\ k + 2 + m <= n + (3 + l)
    BY <1>2, <2>2, <2>4
  <2>6. ASSUME NEW i \in 1 .. m PROVE more[k + 2 + i] = v[i]
    <3>1. k + 2 + i \in 1 .. n
      BY <1>2, <2>2, <2>4
    <3> QED
      BY <1>1, <2>3, <3>1
  <2>7. more[k + 3 + m] = ";"
    <3>1. CASE k + 2 + m = n
      <4>1. k + 3 + m = n + 1
        BY <1>2, <2>2, <3>1
      <4> QED
        BY <1>1, <1>3, <4>1 DEF Semicolon
    <3>2. CASE k + 2 + m # n
      <4>1. k + 3 + m \in 1 .. n
        BY <1>2, <2>2, <2>4, <3>2
      <4> QED
        BY <1>1, <2>3, <3>2, <4>1
    <3> QED
      BY <3>1, <3>2
  <2>8. more[k] \in {"?", ";"} /\ more[k + 1] = y
    BY <1>1, <2>3, <2>5
  <2>9. k \in 1 .. Len(more) /\ k + 2 + m <= Len(more)
    BY <1>1, <2>5
  <2> QED
    BY <2>6, <2>7, <2>8, <2>9 DEF PairAt, m
<1>4. ASSUME Mark(x) PROVE PairAt(more, n + 1, key, w) /\ n + 1 \in Nat
  <2> HIDE DEF n
  <2>1. /\ n + 1 \in Nat /\ n + 1 \in 1 .. n + (3 + l) /\ n + 1 + 1 = n + 2
        /\ n + 1 + 2 + l = n + (3 + l)
    BY <1>2
  <2>2. ASSUME NEW i \in 1 .. l PROVE more[n + 1 + 2 + i] = w[i]
    <3>1. n + 1 + 2 + i = n + 3 + i
      BY <1>2
    <3> QED
      BY <1>1, <3>1
  <2>3. n + 1 \in 1 .. Len(more) /\ n + 1 + 2 + l = Len(more) /\ n + 1 + 2 + l <= Len(more)
    BY <1>1, <1>2, <2>1
  <2>4. more[n + 1] \in {"?", ";"} /\ more[n + 1 + 1] = key
    BY <1>1, <1>4, <2>1 DEF Mark
  <2> QED
    BY <2>1, <2>2, <2>3, <2>4 DEF PairAt
<1>5. ASSUME ~Mark(key), \A i \in 1 .. l : ~Mark(w[i]), NEW k \in 1 .. Len(more), Mark(more[k])
      PROVE  k = n + 1 \/ (k \in 1 .. n /\ Mark(u[k]))
  <2> HIDE DEF n
  <2>1. k \in 1 .. n + (3 + l) /\ Len(more) = n + (3 + l)
    BY <1>1
  <2>2. CASE k \in 1 .. n
    BY <1>1, <1>5, <2>2
  <2>3. CASE k = n + 2
    BY <1>1, <1>5, <2>3
  <2>4. CASE k = n + 3
    BY <1>1, <1>5, <2>4 DEF Mark
  <2>5. CASE ~(k \in 1 .. n) /\ k # n + 1 /\ k # n + 2 /\ k # n + 3
    <3>1. k - (n + 3) \in 1 .. l /\ n + 3 + (k - (n + 3)) = k
      <4> HIDE DEF l
      <4> QED
        BY <1>2, <2>1, <2>5
    <3>2. more[k] = w[k - (n + 3)]
      BY <1>1, <3>1
    <3> QED
      BY <1>5, <3>1, <3>2
  <2> QED
    BY <2>2, <2>3, <2>4, <2>5
<1>6. x = Semicolon => PairsStay(u, more)
  BY <1>3 DEF PairsStay
<1>7. ~Mark(key) /\ NoMark(w) => OneMoreMark(u, more)
  BY <1>5 DEF NoMark, OneMoreMark
<1>8. Grows(u, x, key, w, more)
  BY <1>a, <1>4, <1>6, <1>7 DEF Grows
<1> QED
  BY <1>8 DEF more

-----------------------------------------------------------------------------
(* The first parameters of a query are the pairs of its beginning.         *)
Text(params, j, escaped) == Sent(escaped, params[j].value)
Holds(t, params, i, escaped) ==
  /\ t \in Seq(Token)
  /\ \A j \in 1 .. i : \E k \in Nat : PairAt(t, k, params[j].key, Text(params, j, escaped))
  /\ \A k \in 1 .. Len(t) : Mark(t[k]) =>
       \E j \in 1 .. i : PairAt(t, k, params[j].key, Text(params, j, escaped))

(* A text that is read as it was, however libcurl sends it. *)
Readable(escaped, s) ==
  /\ ToSet(s) \cap {Escape[c] : c \in DOMAIN Escape} = {}
  /\ escaped \/ ToSet(s) \cap DOMAIN Escape = {}

LEMMA TextIs ==
  ASSUME NEW params \in Seq(Parameter), NEW escaped \in BOOLEAN, NEW j \in 1 .. Len(params),
         Readable(escaped, params[j].value)
  PROVE  /\ params[j] \in Parameter /\ params[j].key \in Token /\ ~Mark(params[j].key)
         /\ Text(params, j, escaped) \in Seq(Token)
         /\ NoMark(Text(params, j, escaped))
         /\ Unescape(Text(params, j, escaped)) = params[j].value
<1>1. params[j] \in Parameter
  BY ElementOfSeq
<1>2. params[j].key \in Option /\ params[j].value \in Seq(STRING)
  BY <1>1 DEF Parameter
<1>3. params[j].key \in Token /\ ~Mark(params[j].key)
  BY <1>2 DEF Token, Option, Mark
<1> DEFINE s == params[j].value
<1>4. /\ s \in Seq(STRING) /\ ToSet(s) \cap {Escape[c] : c \in DOMAIN Escape} = {}
      /\ escaped \/ ToSet(s) \cap DOMAIN Escape = {}
  BY <1>2 DEF Readable
<1> HIDE DEF s
<1>5. /\ Sent(escaped, s) \in Seq(Token)
      /\ \A k \in 1 .. Len(Sent(escaped, s)) : Sent(escaped, s)[k] \notin {"?", ";"}
      /\ Unescape(Sent(escaped, s)) = s
  BY <1>4, SentIs
<1> QED
  BY <1>1, <1>3, <1>5 DEF Text, NoMark, Mark, s

LEMMA OneMoreHeld ==
  ASSUME NEW params \in Seq(Parameter), NEW escaped \in BOOLEAN, NEW i \in 1 .. Len(params),
         NEW t \in Seq(Token), NEW x
  PROVE  /\ Mark(x)
         /\ \A j \in 1 .. Len(params) : Readable(escaped, params[j].value)
         /\ i = 1 => NoMark(t)
         /\ i # 1 => x = Semicolon /\ Holds(t, params, i - 1, escaped)
         => Holds(t \o (<<x>> \o <<params[i].key, "=">> \o Text(params, i, escaped)), params, i, escaped)
<1>a. SUFFICES ASSUME Mark(x),
                      \A j \in 1 .. Len(params) : Readable(escaped, params[j].value),
                      i = 1 => NoMark(t),
                      i # 1 => x = Semicolon /\ Holds(t, params, i - 1, escaped)
               PROVE  Holds(t \o (<<x>> \o <<params[i].key, "=">> \o Text(params, i, escaped)), params, i, escaped)
  OBVIOUS
<1> DEFINE key == params[i].key
           w == Text(params, i, escaped)
           more == t \o (<<x>> \o <<key, "=">> \o w)
<1>1. /\ key \in Token /\ ~Mark(key) /\ w \in Seq(Token) /\ NoMark(w)
  BY <1>a, TextIs
<1>2. x \in Token /\ Mark(x)
  BY <1>a DEF Token, Mark, Escape
<1>3. Len(params) \in Nat /\ i \in Nat
  BY LenProperties
<1> HIDE DEF key, w
<1>4. Grows(t, x, key, w, more)
  BY <1>1, <1>2, PairsKept
<1> HIDE DEF more
<1>5. more \in Seq(Token)
  BY <1>4 DEF Grows
<1>6. /\ x = Semicolon => PairsStay(t, more)
      /\ Mark(x) => PairAt(more, Len(t) + 1, key, w) /\ Len(t) + 1 \in Nat
      /\ ~Mark(key) /\ NoMark(w) => OneMoreMark(t, more)
  BY <1>4 DEF Grows
<1>7. /\ PairAt(more, Len(t) + 1, key, w) /\ Len(t) + 1 \in Nat /\ i \in 1 .. i
      /\ \A k \in 1 .. Len(more) : Mark(more[k]) => k = Len(t) + 1 \/ (k \in 1 .. Len(t) /\ Mark(t[k]))
  BY <1>1, <1>2, <1>3, <1>6 DEF OneMoreMark
<1>8. ASSUME i # 1, NEW k \in Nat, NEW j \in 1 .. i - 1, PairAt(t, k, params[j].key, Text(params, j, escaped))
      PROVE  PairAt(more, k, params[j].key, Text(params, j, escaped))
  <2>1. j \in 1 .. Len(params)
    BY <1>3
  <2>2. params[j].key \in Token /\ Text(params, j, escaped) \in Seq(Token)
    BY <1>a, <2>1, TextIs
  <2> QED
    BY <1>a, <1>6, <1>8, <2>2 DEF PairsStay
<1>9. ASSUME NEW j \in 1 .. i PROVE \E k \in Nat : PairAt(more, k, params[j].key, Text(params, j, escaped))
  <2>1. CASE j = i
    BY <1>7, <2>1 DEF key, w
  <2>2. CASE j # i
    <3>1. i # 1 /\ j \in 1 .. i - 1
      BY <1>3, <2>2
    <3>2. PICK k \in Nat : PairAt(t, k, params[j].key, Text(params, j, escaped))
      BY <1>a, <3>1 DEF Holds
    <3> QED
      BY <1>8, <3>1, <3>2
  <2> QED
    BY <2>1, <2>2
<1>10. ASSUME NEW k \in 1 .. Len(more), Mark(more[k])
       PROVE  \E j \in 1 .. i : PairAt(more, k, params[j].key, Text(params, j, escaped))
  <2>1. CASE k = Len(t) + 1
    BY <1>7, <2>1 DEF key, w
  <2>2. CASE k # Len(t) + 1
    <3>1. k \in 1 .. Len(t) /\ Mark(t[k])
      BY <1>7, <1>10, <2>2
    <3>2. i # 1
      BY <1>a, <3>1 DEF NoMark
    <3>3. PICK j \in 1 .. i - 1 : PairAt(t, k, params[j].key, Text(params, j, escaped))
      BY <1>a, <3>1, <3>2 DEF Holds
    <3>4. k \in Nat /\ j \in 1 .. i
      <4>1. Len(t) \in Nat
        BY LenProperties
      <4> QED
        BY <1>3, <3>1, <4>1
    <3> QED
      BY <1>8, <3>2, <3>3, <3>4
  <2> QED
    BY <2>1, <2>2
<1>11. Holds(more, params, i, escaped)
  BY <1>5, <1>9, <1>10 DEF Holds
<1> QED
  BY <1>11 DEF more, key, w

(* From a text all of whose pairs are the parameters, exactly these are read. *)
LEMMA HeldRead ==
  ASSUME NEW params \in Seq(Parameter), NEW escaped \in BOOLEAN,
         \A j \in 1 .. Len(params) : Readable(escaped, params[j].value),
         NEW t \in Seq(Token), Holds(t, params, Len(params), escaped)
  PROVE  Pairs(t) = ToSet(params)
<1> DEFINE rest(k) == Ahead(t, k + 2)
           value(k) == Unescape(SubSeq(rest(k), 1, Before(rest(k), {";"})))
           pair(k) == [key |-> t[k + 1], value |-> value(k)]
<1>1. Len(t) \in Nat /\ DOMAIN t = 1 .. Len(t) /\ DOMAIN params = 1 .. Len(params)
  BY LenProperties
<1>2. Pairs(t) = {pair(k) : k \in {m \in 1 .. Len(t) : Mark(t[m])}}
  BY <1>1 DEF Pairs, Mark
<1>3. ASSUME NEW k \in Nat, NEW j \in 1 .. Len(params), PairAt(t, k, params[j].key, Text(params, j, escaped))
      PROVE  pair(k) = params[j] /\ k \in 1 .. Len(t) /\ Mark(t[k])
  <2> DEFINE w == Text(params, j, escaped)
  <2>1. /\ params[j] \in Parameter /\ params[j].key \in Token
        /\ w \in Seq(Token) /\ NoMark(w)
        /\ Unescape(w) = params[j].value
    BY TextIs
  <2>2. PairAt(t, k, params[j].key, w)
    BY <1>3
  <2> HIDE DEF w
  <2>3. \A i \in 1 .. Len(w) : w[i] \notin {"?", ";"}
    BY <2>1 DEF NoMark, Mark
  <2>4. SubSeq(rest(k), 1, Before(rest(k), {";"})) = w
    BY <2>1, <2>2, <2>3, PairRead
  <2>5. t[k + 1] = params[j].key /\ k \in 1 .. Len(t) /\ Mark(t[k])
    BY <2>2 DEF PairAt, Mark
  <2>6. value(k) = params[j].value
    BY <2>1, <2>4
  <2> HIDE DEF value
  <2>7. params[j] = [key |-> params[j].key, value |-> params[j].value]
    BY <2>1 DEF Parameter
  <2> QED
    BY <2>5, <2>6, <2>7
<1> HIDE DEF pair
<1>4. ASSUME NEW k \in 1 .. Len(t), Mark(t[k]) PROVE \E j \in 1 .. Len(params) : pair(k) = params[j]
  <2>1. PICK j \in 1 .. Len(params) : PairAt(t, k, params[j].key, Text(params, j, escaped))
    BY <1>4 DEF Holds
  <2>2. k \in Nat
    BY <1>1
  <2> QED
    BY <1>3, <2>1, <2>2
<1>5. ASSUME NEW j \in 1 .. Len(params) PROVE \E k \in 1 .. Len(t) : Mark(t[k]) /\ pair(k) = params[j]
  <2>1. PICK k \in Nat : PairAt(t, k, params[j].key, Text(params, j, escaped))
    BY DEF Holds
  <2> QED
    BY <1>3, <2>1
<1> QED
  BY <1>1, <1>2, <1>4, <1>5 DEF ToSet

LEMMA QueryRead ==
  ASSUME NEW params \in Seq(Parameter), NEW escaped \in BOOLEAN,
         \A j \in 1 .. Len(params) : Readable(escaped, params[j].value),
         NEW u \in Seq(Token), NoMark(u)
  PROVE  Pairs(u \o Query(params, escaped)) = ToSet(params)
<1> DEFINE x(k) == IF k = 1 THEN "?" ELSE Semicolon
           piece(k) == <<x(k)>> \o <<params[k].key, "=">> \o Text(params, k, escaped)
           N == Len(params)
           ss == [k \in 1 .. N |-> piece(k)]
           query == Query(params, escaped)
<1>1. N \in Nat /\ DOMAIN params = 1 .. N
  BY LenProperties
<1>2. ASSUME NEW k \in 1 .. N PROVE piece(k) \in Seq(Token)
  <2>1. params[k].key \in Token /\ Text(params, k, escaped) \in Seq(Token) /\ x(k) \in Token
    BY TextIs DEF Token, Escape, Semicolon
  <2> HIDE DEF x
  <2> QED
    BY <2>1, PieceIs
<1>3. query = FlattenSeq(ss)
  <2>1. \A k \in 1 .. N : piece(k) =
          (IF k = 1 THEN <<"?">> ELSE <<";">>) \o <<params[k].key, "=">>
            \o (IF escaped THEN curl_easy_escape(params[k].value) ELSE params[k].value)
    BY DEF Text, Sent, Semicolon
  <2> HIDE DEF piece
  <2>2. Query(params, escaped) = FlattenSeq([k \in 1 .. N |->
          (IF k = 1 THEN <<"?">> ELSE <<";">>) \o <<params[k].key, "=">>
            \o (IF escaped THEN curl_easy_escape(params[k].value) ELSE params[k].value)])
    BY <1>1 DEF Query
  <2>3. ss = [k \in 1 .. N |->
          (IF k = 1 THEN <<"?">> ELSE <<";">>) \o <<params[k].key, "=">>
            \o (IF escaped THEN curl_easy_escape(params[k].value) ELSE params[k].value)]
    BY <2>1
  <2> HIDE DEF ss
  <2> QED
    BY <2>2, <2>3
<1> HIDE DEF piece
<1>4. ss \in [1 .. N -> Seq(Token)] /\ Len(ss) = N /\ (N = 0 => ss = << >>)
  BY <1>1, <1>2
<1>5. \A k \in 1 .. N : ss[k] = piece(k)
  OBVIOUS
<1> HIDE DEF ss, query, N
<1>6. PICK f : Joins(f, ss, N)
  BY <1>1, <1>4, FlattenIn
<1>a. /\ f \in [1 .. N -> Seq(Token)]
      /\ \A i \in 1 .. N : f[i] = IF i = 1 THEN ss[i] ELSE f[i - 1] \o ss[i]
      /\ FlattenSeq(ss) = IF N = 0 THEN << >> ELSE f[N]
  BY <1>6 DEF Joins
<1> DEFINE T(i) == u \o f[i]
           Bad == {i \in 1 .. N : ~Holds(T(i), params, i, escaped)}
<1>7. Bad = {}
  <2>1. SUFFICES ASSUME Bad # {} PROVE FALSE
    OBVIOUS
  <2>2. Bad \in SUBSET Nat
    OBVIOUS
  <2>3. PICK i \in Bad : \A j \in Bad : i <= j
    <3> HIDE DEF Bad
    <3> QED
      BY <2>1, <2>2, LeastNat
  <2>4. i \in 1 .. N /\ i \in Nat /\ ~Holds(T(i), params, i, escaped)
    OBVIOUS
  <2> DEFINE before == IF i = 1 THEN u ELSE T(i - 1)
  <2>5. before \in Seq(Token) /\ T(i) = before \o piece(i)
    <3>1. CASE i = 1
      BY <1>5, <1>a, <2>4, <3>1
    <3>2. CASE i # 1
      <4>1. i - 1 \in 1 .. N
        BY <1>1, <2>4, <3>2
      <4> DEFINE a == f[i - 1]
                 p == piece(i)
      <4>2. a \in Seq(Token) /\ p \in Seq(Token) /\ f[i] = a \o p
        BY <1>2, <1>5, <1>a, <2>4, <3>2, <4>1
      <4> HIDE DEF a, p
      <4>3. u \o a \in Seq(Token) /\ (u \o a) \o p = u \o (a \o p)
        BY <4>2, Joined, JoinedInTurn
      <4>4. before = u \o a /\ T(i) = u \o (a \o p)
        BY <3>2, <4>2 DEF a
      <4> QED
        BY <4>3, <4>4 DEF p
    <3> QED
      BY <3>1, <3>2
  <2>6. i = 1 => NoMark(before)
    OBVIOUS
  <2>7. i # 1 => x(i) = Semicolon /\ Holds(before, params, i - 1, escaped)
    <3>1. i # 1 => i - 1 \in 1 .. N /\ ~(i <= i - 1)
      BY <1>1, <2>4
    <3> HIDE DEF T
    <3>2. i # 1 => i - 1 \notin Bad
      <4> HIDE DEF Bad
      <4> QED
        BY <2>3, <3>1
    <3> QED
      BY <3>1, <3>2
  <2>8. Mark(x(i))
    BY DEF Mark, Semicolon
  <2>9. i \in 1 .. Len(params)
    BY <2>4 DEF N
  <2> DEFINE y == x(i)
  <2> HIDE DEF before, x, T, Bad
  <2>10. Holds(before \o (<<y>> \o <<params[i].key, "=">> \o Text(params, i, escaped)), params, i, escaped)
    <3>1. before \in Seq(Token) /\ Mark(y) /\ (i # 1 => y = Semicolon /\ Holds(before, params, i - 1, escaped))
      BY <2>5, <2>7, <2>8
    <3> HIDE DEF y
    <3> QED
      BY <2>6, <2>9, <3>1, OneMoreHeld
  <2> QED
    BY <2>4, <2>5, <2>10 DEF piece
<1>8. u \o query \in Seq(Token) /\ Holds(u \o query, params, N, escaped)
  <2>1. CASE N = 0
    <3>1. query = << >>
      BY <1>3, <1>a, <2>1
    <3>2. u \o query = u
      BY <3>1, ConcatEmptySeq
    <3>3. \A j \in 1 .. N : FALSE
      BY <2>1
    <3> QED
      BY <3>2, <3>3 DEF Holds, NoMark
  <2>2. CASE N # 0
    <3>1. N \in 1 .. N /\ query = f[N]
      BY <1>1, <1>3, <1>a, <2>2
    <3>2. Holds(T(N), params, N, escaped)
      BY <1>7, <3>1
    <3> QED
      BY <3>1, <3>2 DEF Holds
  <2> QED
    BY <2>1, <2>2
<1>9. Pairs(u \o query) = ToSet(params)
  <2> DEFINE t == u \o query
  <2>1. t \in Seq(Token) /\ Holds(t, params, Len(params), escaped)
    BY <1>8 DEF N
  <2> HIDE DEF t
  <2>2. Pairs(t) = ToSet(params)
    BY <2>1, HeldRead
  <2> QED
    BY <2>2 DEF t
<1> QED
  BY <1>9 DEF query

-----------------------------------------------------------------------------
LEMMA PathSmooth == UrlInv => NoEmptyName
<1> SUFFICES ASSUME UrlInv, request.made, Clean(request.name), Clean(request.id) PROVE Smooth(request.path)
  BY DEF NoEmptyName
<1> DEFINE v == request.version
           n == request.name
           i == request.id
<1>1. /\ v \in Seq(STRING) /\ "/" \notin ToSet(v)
      /\ n = NULL \/ n \in Seq(STRING)
      /\ i = NULL \/ i \in Seq(STRING)
  BY TextAssumption DEF UrlInv
<1>2. request.path = PathText(v, <<"ns">>, n, i)
  BY UrlIs
<1>3. Clean(n) /\ Clean(i)
  OBVIOUS
<1> HIDE DEF v, n, i
<1>4. Smooth(PathText(v, <<"ns">>, n, i))
  BY <1>1, <1>3, SmoothPath
<1> QED
  BY <1>2, <1>4

LEMMA UrlOptions == UrlInv => OptionsRead
<1> DEFINE asked == {o \in Option : request.q[o] # NULL}
           Free(set) == \A o \in asked : ToSet(request.q[o]) \cap set = {}
           images == {Escape[c] : c \in DOMAIN Escape}
           given == {[key |-> o, value |-> request.q[o]] : o \in asked}
           marks == (ToSet(base) \cup ToSet(request.path)) \cap {"?", ";"}
<1>1. SUFFICES ASSUME UrlInv, request.made, marks = {}, Free(images), request.escaped \/ Free(DOMAIN Escape)
               PROVE  Pairs(request.url) = given
  BY DEF OptionsRead
<1> DEFINE params == build_select_params(request.q)
           escaped == request.escaped
           u == base \o request.path
<1>2. request.q \in Select /\ escaped \in BOOLEAN
  BY <1>1 DEF UrlInv
<1>3. params \in Seq(Parameter) /\ ToSet(params) = given
  BY <1>2, ParametersAre
<1>4. base \in Seq(Token) /\ request.path \in Seq(Token)
  BY <1>1, UrlIs
<1>5. u \in Seq(Token) /\ NoMark(u)
  <2>1. /\ u \in Seq(Token) /\ Len(u) = Len(base) + Len(request.path)
        /\ \A i \in 1 .. Len(base) + Len(request.path) :
             u[i] = IF i <= Len(base) THEN base[i] ELSE request.path[i - Len(base)]
    BY <1>4, ConcatProperties
  <2>2. \A i \in 1 .. Len(base) : base[i] \in ToSet(base)
    BY <1>4, LenProperties DEF ToSet
  <2>3. \A i \in 1 .. Len(request.path) : request.path[i] \in ToSet(request.path)
    BY <1>4, LenProperties DEF ToSet
  <2>4. Len(base) \in Nat /\ Len(request.path) \in Nat
    BY <1>4, LenProperties
  <2>5. \A c \in ToSet(base) \cup ToSet(request.path) : ~Mark(c)
    BY <1>1 DEF Mark
  <2> HIDE DEF u, marks
  <2>6. ASSUME NEW i \in 1 .. Len(u) PROVE ~Mark(u[i])
    <3>1. CASE i <= Len(base)
      <4>1. i \in 1 .. Len(base) /\ i \in 1 .. Len(base) + Len(request.path)
        BY <2>1, <2>4, <3>1
      <4> QED
        BY <2>1, <2>2, <2>5, <3>1, <4>1
    <3>2. CASE ~(i <= Len(base))
      <4>1. i - Len(base) \in 1 .. Len(request.path) /\ i \in 1 .. Len(base) + Len(request.path)
        BY <2>1, <2>4, <3>2
      <4> QED
        BY <2>1, <2>3, <2>5, <3>2, <4>1
    <3> QED
      BY <3>1, <3>2
  <2> QED
    BY <2>1, <2>6 DEF NoMark
<1>6. request.url = u \o Query(params, escaped)
  BY <1>1 DEF UrlInv, create_url
<1>7. \A j \in 1 .. Len(params) : Readable(escaped, params[j].value)
  <2> SUFFICES ASSUME NEW j \in 1 .. Len(params) PROVE Readable(escaped, params[j].value)
    OBVIOUS
  <2>1. params[j] \in given
    <3>1. params[j] \in ToSet(params)
      BY <1>3, LenProperties DEF ToSet
    <3> QED
      BY <1>3, <3>1
  <2>2. PICK o \in asked : params[j] = [key |-> o, value |-> request.q[o]]
    BY <2>1
  <2>3. params[j].value = request.q[o]
    BY <2>2
  <2>4. ToSet(request.q[o]) \cap images = {} /\ (escaped \/ ToSet(request.q[o]) \cap DOMAIN Escape = {})
    BY <1>1
  <2> QED
    BY <2>3, <2>4 DEF Readable
<1> HIDE DEF params, escaped, u, given
<1>8. Pairs(u \o Query(params, escaped)) = ToSet(params)
  BY <1>2, <1>3, <1>5, <1>7, QueryRead
<1> QED
  BY <1>3, <1>6, <1>8

(* For any URL in the file, any version, names, ids and options, the URL   *)
(* of a request holds the host of the file, one slash and the whole path   *)
(* of its names, no slash of it is at the end or before another one unless *)
(* a name puts it there, and the server reads in it exactly the options    *)
(* the select was given (build_rsuri, build_select_params, create_url).    *)
THEOREM UrlsAreFaithful == Spec => []UrlFaithful
<1>1. Init => UrlInv
  BY NoConfigTexts DEF Init, UrlInv, NoRequest
<1>2. ReadInv /\ UrlInv /\ [Next]_vars => UrlInv'
  BY UrlStep
<1>3. UrlInv => UrlFaithful
  BY UrlWhole, PathSmooth, UrlOptions DEF UrlFaithful
<1> QED
  BY <1>1, <1>2, <1>3, ReadHolds, PTL DEF Spec
=============================================================================

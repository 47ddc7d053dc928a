----------------------------- MODULE VmeProofs -----------------------------
(***************************************************************************)
(* What the entry points of vme.c do with memory, for any number of        *)
(* handles and of results.  The argument is the one of a proof outline:    *)
(* a trace of a program says which blocks its handle has before each of    *)
(* its statements; programs are put together from parts that have traces;  *)
(* and at every moment the rest of the program that runs has one.          *)
(***************************************************************************)
EXTENDS Vme, SequenceTheorems, TLAPS

Kind == HandlePart \cup Temporary

(* What a handle may have: kinds of blocks, and that it is open. *)
All == Kind \cup {"open"}

Ops == {"new", "use", "del", "may fail", "open", "close", "prepare_result", "vme_error_result"}
Simple == [op : Ops, kinds : SUBSET Kind]
Stmt == Simple \cup [op : {"vc_from_vme"}, kinds : {{"vantiq_client_t"}}, refused : Seq(Simple)]

(* No call is being made with a handle that has A: nothing of a call is    *)
(* left, an open handle has all its parts, and one that was torn down has  *)
(* none but server_url.  A handle that vme_init gave up has any.           *)
AtRest(A) ==
  /\ A \cap Temporary = {}
  /\ "open" \in A => HandlePart \subseteq A
  /\ "vantiq_client_t" \notin A => A \subseteq {"server_url"}

(* What a statement needs, and what is there after it. *)
Needs(s, A) ==
  /\ s.op # "new" => s.kinds \subseteq A
  /\ s.op = "may fail" => AtRest(A)

Effect(s, A) ==
  IF s.op = "new" THEN A \cup s.kinds
  ELSE IF s.op = "del" THEN A \ s.kinds
  ELSE IF s.op = "open" THEN A \cup {"open"}
  ELSE IF s.op = "close" THEN A \ (s.kinds \cup {"open"})
  ELSE A

Trace(p, t) ==
  /\ p \in Seq(Stmt) /\ t \in Seq(SUBSET All) /\ Len(t) = Len(p) + 1
  /\ \A i \in 1 .. Len(p) : Needs(p[i], t[i]) /\ t[i + 1] = Effect(p[i], t[i])

(* From A, the program p ends with B, and every statement finds its needs. *)
Takes(A, p, B) ==
  \E t \in Seq(SUBSET All) : Trace(p, t) /\ t[1] = A /\ t[Len(t)] = B

-----------------------------------------------------------------------------
(* Statements are well-typed, and so is what they leave. *)
LEMMA EffectType ==
  ASSUME NEW s \in Stmt, NEW A \in SUBSET All
  PROVE  Effect(s, A) \in SUBSET All
BY DEF Stmt, Simple, Effect, All

LEMMA NothingTakes ==
  ASSUME NEW A \in SUBSET All
  PROVE  Takes(A, << >>, A)
<1> DEFINE t == <<A>>
<1>1. t \in Seq(SUBSET All) /\ Len(t) = 1 /\ t[1] = A
  OBVIOUS
<1>2. << >> \in Seq(Stmt) /\ Len(<< >>) = 0
  OBVIOUS
<1> HIDE DEF t
<1>3. Trace(<< >>, t)
  BY <1>1, <1>2 DEF Trace
<1> QED
  BY <1>1, <1>3 DEF Takes

LEMMA OneTakes ==
  ASSUME NEW s \in Stmt, NEW A \in SUBSET All, Needs(s, A)
  PROVE  Takes(A, <<s>>, Effect(s, A))
<1> DEFINE t == <<A, Effect(s, A)>>
<1>1. t \in Seq(SUBSET All) /\ Len(t) = 2 /\ t[1] = A /\ t[2] = Effect(s, A)
  BY EffectType
<1>2. <<s>> \in Seq(Stmt) /\ Len(<<s>>) = 1 /\ <<s>>[1] = s
  OBVIOUS
<1> HIDE DEF t
<1>3. Trace(<<s>>, t)
  BY <1>1, <1>2 DEF Trace
<1> QED
  BY <1>1, <1>3 DEF Takes

(* Programs that follow one another. *)
LEMMA BothTake ==
  ASSUME NEW A, NEW B, NEW C, NEW p, NEW q, Takes(A, p, B), Takes(B, q, C)
  PROVE  Takes(A, p \o q, C)
<1>1. PICK t \in Seq(SUBSET All) : Trace(p, t) /\ t[1] = A /\ t[Len(t)] = B
  BY DEF Takes
<1>2. PICK u \in Seq(SUBSET All) : Trace(q, u) /\ u[1] = B /\ u[Len(u)] = C
  BY DEF Takes
<1>3. /\ p \in Seq(Stmt) /\ q \in Seq(Stmt) /\ Len(p) \in Nat /\ Len(q) \in Nat
      /\ Len(t) = Len(p) + 1 /\ Len(u) = Len(q) + 1
  BY <1>1, <1>2 DEF Trace
<1> DEFINE v == [i \in 1 .. Len(p) + Len(q) + 1 |->
                   IF i <= Len(p) THEN t[i] ELSE u[i - Len(p)]]
<1>4. v \in Seq(SUBSET All) /\ Len(v) = Len(p) + Len(q) + 1
  <2>1. \A i \in 1 .. Len(p) + Len(q) + 1 : v[i] \in SUBSET All
    <3> SUFFICES ASSUME NEW i \in 1 .. Len(p) + Len(q) + 1 PROVE v[i] \in SUBSET All
      OBVIOUS
    <3>1. CASE i <= Len(p)
      BY <1>3, <3>1
    <3>2. CASE ~(i <= Len(p))
      <4>1. i - Len(p) \in 1 .. Len(u)
        BY <1>3, <3>2
      <4> QED
        BY <4>1, <3>2
    <3> QED
      BY <3>1, <3>2
  <2> QED
    BY <1>3, <2>1
<1>5. /\ p \o q \in Seq(Stmt) /\ Len(p \o q) = Len(p) + Len(q)
      /\ \A i \in 1 .. Len(p) + Len(q) :
           (p \o q)[i] = IF i <= Len(p) THEN p[i] ELSE q[i - Len(p)]
  BY <1>3, ConcatProperties
<1>6. t[Len(p) + 1] = u[1]
  BY <1>1, <1>2, <1>3
<1>7. \A i \in 1 .. Len(p) + 1 : v[i] = t[i]
  BY <1>3, <1>6
<1>8. \A i \in 1 .. Len(q) + 1 : v[i + Len(p)] = u[i]
  BY <1>3
<1>9. ASSUME NEW i \in 1 .. Len(p) + Len(q)
      PROVE  Needs((p \o q)[i], v[i]) /\ v[i + 1] = Effect((p \o q)[i], v[i])
  <2>1. CASE i <= Len(p)
    <3>1. i \in 1 .. Len(p) /\ i + 1 \in 1 .. Len(p) + 1
      BY <2>1, <1>3
    <3>2. (p \o q)[i] = p[i]
      BY <1>5, <2>1
    <3>3. v[i] = t[i] /\ v[i + 1] = t[i + 1]
      <4>1. i \in 1 .. Len(p) + 1
        BY <1>3, <3>1
      <4> HIDE DEF v
      <4> QED
        BY <1>7, <3>1, <4>1
    <3> QED
      BY <1>1, <3>1, <3>2, <3>3 DEF Trace
  <2>2. CASE ~(i <= Len(p))
    <3>1. PICK j \in 1 .. Len(q) : i = j + Len(p)
      <4>1. i - Len(p) \in 1 .. Len(q) /\ i = (i - Len(p)) + Len(p)
        BY <2>2, <1>3
      <4> QED
        BY <4>1
    <3>2. (p \o q)[i] = q[j]
      <4>1. (p \o q)[i] = q[i - Len(p)]
        BY <1>5, <2>2
      <4>2. i - Len(p) = j
        BY <1>3, <3>1
      <4> QED
        BY <4>1, <4>2
    <3>3. v[i] = u[j] /\ v[i + 1] = u[j + 1]
      <4>1. j \in 1 .. Len(q) + 1 /\ j + 1 \in 1 .. Len(q) + 1 /\ i + 1 = (j + 1) + Len(p)
        BY <1>3, <3>1
      <4> HIDE DEF v
      <4> QED
        BY <1>8, <3>1, <4>1
    <3> QED
      BY <1>2, <3>1, <3>2, <3>3 DEF Trace
  <2> QED
    BY <2>1, <2>2
<1>10. v[1] = A /\ v[Len(v)] = C
  BY <1>1, <1>2, <1>3, <1>4, <1>7, <1>8
<1> HIDE DEF v
<1>11. Trace(p \o q, v)
  BY <1>4, <1>5, <1>9 DEF Trace
<1> QED
  BY <1>4, <1>10, <1>11 DEF Takes

(* Executing the first statement. *)
LEMMA HeadTakes ==
  ASSUME NEW A, NEW B, NEW p, p # << >>, Takes(A, p, B)
  PROVE  /\ Head(p) \in Stmt /\ Needs(Head(p), A) /\ A \in SUBSET All
         /\ Takes(Effect(Head(p), A), Tail(p), B)
<1>1. PICK t \in Seq(SUBSET All) : Trace(p, t) /\ t[1] = A /\ t[Len(t)] = B
  BY DEF Takes
<1>2. p \in Seq(Stmt) /\ Len(p) \in Nat \ {0} /\ Len(t) = Len(p) + 1
  BY <1>1, EmptySeq DEF Trace
<1>3. /\ Head(p) \in Stmt /\ Head(p) = p[1] /\ Tail(p) \in Seq(Stmt) /\ Len(Tail(p)) = Len(p) - 1
      /\ \A i \in 1 .. Len(p) - 1 : Tail(p)[i] = p[i + 1]
  BY <1>2, HeadTailProperties
<1>4. Needs(p[1], t[1]) /\ t[2] = Effect(p[1], t[1])
  BY <1>1, <1>2 DEF Trace
<1> DEFINE u == Tail(t)
<1>5. /\ u \in Seq(SUBSET All) /\ Len(u) = Len(p)
      /\ \A i \in 1 .. Len(p) : u[i] = t[i + 1]
  <2>1. t # << >> /\ Len(t) - 1 = Len(p)
    BY <1>2
  <2> QED
    BY <2>1, HeadTailProperties
<1> HIDE DEF u
<1>6. Trace(Tail(p), u)
  <2>1. Len(u) = Len(Tail(p)) + 1
    BY <1>2, <1>3, <1>5
  <2>2. ASSUME NEW i \in 1 .. Len(Tail(p))
        PROVE  Needs(Tail(p)[i], u[i]) /\ u[i + 1] = Effect(Tail(p)[i], u[i])
    <3>1. i + 1 \in 1 .. Len(p) /\ i \in 1 .. Len(p) /\ i \in 1 .. Len(p) - 1
      BY <1>2, <1>3
    <3>2. Tail(p)[i] = p[i + 1] /\ u[i] = t[i + 1] /\ u[i + 1] = t[i + 1 + 1]
      BY <1>3, <1>5, <3>1
    <3> QED
      BY <1>1, <3>1, <3>2 DEF Trace
  <2> QED
    BY <1>3, <1>5, <2>1, <2>2 DEF Trace
<1>7. u[1] = Effect(p[1], A) /\ u[Len(u)] = B
  BY <1>1, <1>2, <1>4, <1>5
<1>8. A \in SUBSET All
  BY <1>1, <1>2
<1> QED
  BY <1>1, <1>3, <1>4, <1>5, <1>6, <1>7, <1>8 DEF Takes
-----------------------------------------------------------------------------
LEMMA Typed ==
  ASSUME NEW k \in SUBSET Kind, NEW r \in Seq(Simple)
  PROVE  /\ New(k) \in Simple /\ Use(k) \in Simple /\ Del(k) \in Simple
         /\ MayFail \in Simple /\ Open \in Simple /\ Close \in Simple
         /\ PrepareResult \in Simple /\ ErrorResult \in Simple
         /\ Check(r) \in Stmt
<1>1. /\ {} \in SUBSET Kind /\ {"vantiq_client_t"} \in SUBSET Kind
      /\ {"vantiq_client_t", "recv_buf", "curl"} \in SUBSET Kind
  BY DEF Kind, HandlePart
<1>2. New(k) \in Simple /\ Use(k) \in Simple /\ Del(k) \in Simple
  BY DEF Simple, Ops, New, Use, Del
<1>3. MayFail \in Simple /\ Open \in Simple /\ ErrorResult \in Simple
  BY <1>1 DEF Simple, Ops, MayFail, Open, ErrorResult
<1>4. Close \in Simple /\ PrepareResult \in Simple
  BY <1>1 DEF Simple, Ops, Close, PrepareResult
<1>5. Check(r) \in Stmt
  BY DEF Stmt, Check
<1> QED
  BY <1>2, <1>3, <1>4, <1>5

(* A request with its path and document finds all it uses, frees its URL,  *)
(* and leaves what it found.                                               *)
LEMMA RequestTakes ==
  ASSUME NEW uri \in SUBSET {"params", "rsuri"}, NEW document \in SUBSET {"message"},
         NEW A \in SUBSET All, HandlePart \cup uri \cup document \subseteq A, "url" \notin A
  PROVE  Takes(A, Request(uri, document), A)
<1> DEFINE p == Request(uri, document)
           U == A \cup {"url"}
           t == <<A, A, U, U, U, A>>
<1>1. p \in Seq(Stmt) /\ Len(p) = 5
  <2>1. /\ uri \cup {"vantiq_client_t", "server_url", "curl"} \in SUBSET Kind
        /\ {"url"} \in SUBSET Kind
        /\ document \cup {"vantiq_client_t", "url", "http_hdrs", "recv_buf", "curl"} \in SUBSET Kind
    BY DEF Kind, HandlePart, Temporary
  <2>2. /\ Use(uri \cup {"vantiq_client_t", "server_url", "curl"}) \in Stmt
        /\ New({"url"}) \in Stmt /\ Del({"url"}) \in Stmt
        /\ Use(document \cup {"vantiq_client_t", "url", "http_hdrs", "recv_buf", "curl"}) \in Stmt
        /\ PrepareResult \in Stmt
    <3>1. << >> \in Seq(Simple)
      OBVIOUS
    <3> QED
      BY <2>1, <3>1, Typed DEF Stmt
  <2> QED
    BY <2>2 DEF Request
<1>2. U \in SUBSET All
  BY DEF All, Kind, Temporary
<1>3. t \in Seq(SUBSET All) /\ Len(t) = 6
  BY <1>2
<1>4. Needs(p[1], t[1]) /\ t[2] = Effect(p[1], t[1])
  BY DEF Request, Use, Needs, Effect, HandlePart
<1>5. Needs(p[2], t[2]) /\ t[3] = Effect(p[2], t[2])
  BY DEF Request, New, Needs, Effect
<1>6. Needs(p[3], t[3]) /\ t[4] = Effect(p[3], t[3])
  BY DEF Request, Use, Needs, Effect, HandlePart
<1>7. Needs(p[4], t[4]) /\ t[5] = Effect(p[4], t[4])
  BY DEF Request, PrepareResult, Needs, Effect, HandlePart
<1>8. Needs(p[5], t[5]) /\ t[6] = Effect(p[5], t[5])
  BY DEF Request, Del, Needs, Effect
<1>9. t[1] = A /\ t[Len(t)] = A
  OBVIOUS
<1>10. Trace(p, t)
  <2> HIDE DEF p, t
  <2>1. \A i \in 1 .. 5 : Needs(p[i], t[i]) /\ t[i + 1] = Effect(p[i], t[i])
    <3>1. \A i \in 1 .. 5 : i = 1 \/ i = 2 \/ i = 3 \/ i = 4 \/ i = 5
      OBVIOUS
    <3>2. 1 + 1 = 2 /\ 2 + 1 = 3 /\ 3 + 1 = 4 /\ 4 + 1 = 5 /\ 5 + 1 = 6
      OBVIOUS
    <3> QED
      BY <1>4, <1>5, <1>6, <1>7, <1>8, <3>1, <3>2
  <2> QED
    BY <1>1, <1>3, <2>1 DEF Trace
<1> HIDE DEF p, t
<1> QED
  BY <1>3, <1>9, <1>10 DEF Takes, p
-----------------------------------------------------------------------------
(* The entry points.  Each finds what it uses, and gives back all but the  *)
(* handle.                                                                 *)
Whole == HandlePart \cup {"open"}
Parts == SUBSET {"params", "rsuri", "message"}

LEMMA StepTakes ==
  ASSUME NEW k \in SUBSET Kind, NEW A \in SUBSET All, NEW r \in Seq(Simple)
  PROVE  /\ Takes(A, <<New(k)>>, A \cup k)
         /\ k \subseteq A => Takes(A, <<Use(k)>>, A) /\ Takes(A, <<Del(k)>>, A \ k)
         /\ "vantiq_client_t" \in A => Takes(A, <<Check(r)>>, A)
<1>1. New(k) \in Stmt /\ Use(k) \in Stmt /\ Del(k) \in Stmt /\ Check(r) \in Stmt
  BY Typed DEF Stmt
<1>2. Needs(New(k), A) /\ Effect(New(k), A) = A \cup k
  BY DEF Needs, Effect, New
<1>3. k \subseteq A => /\ Needs(Use(k), A) /\ Effect(Use(k), A) = A
                    /\ Needs(Del(k), A) /\ Effect(Del(k), A) = A \ k
  BY DEF Needs, Effect, Use, Del
<1>4. "vantiq_client_t" \in A => Needs(Check(r), A) /\ Effect(Check(r), A) = A
  BY DEF Needs, Effect, Check
<1> QED
  BY <1>1, <1>2, <1>3, <1>4, OneTakes

LEMMA Pairs ==
  ASSUME NEW a \in Stmt, NEW b \in Stmt
  PROVE  <<a, b>> = <<a>> \o <<b>>
<1> DEFINE s == <<a>>
           t == <<b>>
           u == <<a, b>>
<1>1. /\ s \in Seq(Stmt) /\ Len(s) = 1 /\ s[1] = a
      /\ t \in Seq(Stmt) /\ Len(t) = 1 /\ t[1] = b
      /\ u \in Seq(Stmt) /\ Len(u) = 2 /\ u[1] = a /\ u[2] = b
  OBVIOUS
<1> HIDE DEF s, t, u
<1>2. s \o t \in Seq(Stmt) /\ Len(s \o t) = 2 /\ (s \o t)[1] = a /\ (s \o t)[2] = b
  <2>1. Len(s) + Len(t) = 2 /\ Len(s) = 1
    BY <1>1
  <2>2. /\ s \o t \in Seq(Stmt) /\ Len(s \o t) = Len(s) + Len(t)
        /\ \A i \in 1 .. Len(s) + Len(t) :
             (s \o t)[i] = IF i <= Len(s) THEN s[i] ELSE t[i - Len(s)]
    BY <1>1, ConcatProperties
  <2>3. 1 \in 1 .. 2 /\ 2 \in 1 .. 2 /\ 1 <= 1 /\ ~(2 <= 1) /\ 2 - 1 = 1
    OBVIOUS
  <2>4. (s \o t)[1] = s[1] /\ (s \o t)[2] = t[2 - 1]
    BY <2>1, <2>2, <2>3
  <2> QED
    BY <1>1, <2>1, <2>2, <2>3, <2>4
<1>3. \A i \in 1 .. 2 : i = 1 \/ i = 2
  OBVIOUS
<1>4. u = s \o t
  BY <1>1, <1>2, <1>3, SeqEqual
<1> QED
  BY <1>4 DEF s, t, u

LEMMA PairTakes ==
  ASSUME NEW a \in Stmt, NEW b \in Stmt, NEW A, NEW B, NEW C,
         Takes(A, <<a>>, B), Takes(B, <<b>>, C)
  PROVE  Takes(A, <<a, b>>, C)
BY Pairs, BothTake

LEMMA TripleTakes ==
  ASSUME NEW a \in Stmt, NEW b \in Stmt, NEW c \in Stmt, NEW A, NEW B, NEW C
  PROVE  /\ Takes(A, <<a>>, B) /\ Takes(B, <<b, c>>, C) => Takes(A, <<a, b, c>>, C)
         /\ Takes(A, <<a, b>>, B) /\ Takes(B, <<c>>, C) => Takes(A, <<a, b, c>>, C)
<1>1. <<a, b, c>> = <<a>> \o <<b, c>>
  OBVIOUS
<1>2. <<a, b, c>> = <<a, b>> \o <<c>>
  OBVIOUS
<1> QED
  BY <1>1, <1>2, BothTake

(* What comes before a request allocates, what comes after it frees. *)
LEMMA AroundTakes ==
  ASSUME NEW T \in Parts, NEW uri \in SUBSET {"params", "rsuri"},
         NEW document \in SUBSET {"message"}, uri \cup document \subseteq T,
         NEW before, Takes(Whole, before, Whole \cup T),
         NEW after, Takes(Whole \cup T, after, Whole)
  PROVE  Takes(Whole, before \o Request(uri, document) \o after, Whole)
<1>1. /\ Whole \cup T \in SUBSET All /\ HandlePart \cup uri \cup document \subseteq Whole \cup T
      /\ "url" \notin Whole \cup T
  BY DEF Whole, Parts, All, Kind, HandlePart, Temporary
<1>2. Takes(Whole \cup T, Request(uri, document), Whole \cup T)
  BY <1>1, RequestTakes
<1>3. Takes(Whole, before \o Request(uri, document), Whole \cup T)
  BY <1>2, BothTake
<1> QED
  BY <1>3, BothTake

LEMMA WholeType == Whole \in SUBSET All /\ Whole \subseteq Whole
BY DEF Whole, All, Kind

LEMMA RefusedType == << ErrorResult >> \in Seq(Simple) /\ << >> \in Seq(Simple)
<1>1. {} \in SUBSET Kind /\ << >> \in Seq(Simple)
  OBVIOUS
<1>2. ErrorResult \in Simple
  BY <1>1, Typed
<1> QED
  BY <1>1, <1>2

(* The allocations and the checks an entry point begins with. *)
LEMMA BeforeTakes ==
  ASSUME NEW A \in SUBSET All, Whole \subseteq A, NEW k \in Parts, NEW r \in Seq(Simple)
  PROVE  /\ Takes(A, <<New(k)>>, A \cup k) /\ Takes(A, <<Check(r)>>, A)
         /\ Takes(A, BuildPath, A \cup {"rsuri"})
         /\ Takes(A, <<Check(r), New(k)>>, A \cup k) /\ Takes(A, <<New(k), Check(r)>>, A \cup k)
         /\ A \cup k \in SUBSET All /\ Whole \subseteq A \cup k
<1>1. k \in SUBSET Kind /\ {"rsuri"} \in SUBSET Kind /\ {"vantiq_client_t"} \in SUBSET Kind
  BY DEF Parts, Kind, Temporary, HandlePart
<1>2. "vantiq_client_t" \in A /\ {"vantiq_client_t"} \subseteq A
  BY DEF Whole, HandlePart
<1>3. A \cup k \in SUBSET All /\ "vantiq_client_t" \in A \cup k
  BY <1>1, <1>2 DEF All
<1>4. /\ Takes(A, <<New(k)>>, A \cup k) /\ Takes(A, <<Check(r)>>, A)
      /\ Takes(A \cup k, <<Check(r)>>, A \cup k)
  BY <1>1, <1>2, <1>3, StepTakes
<1>5. Takes(A, BuildPath, A \cup {"rsuri"})
  <2>1. /\ Takes(A, <<Use({"vantiq_client_t"})>>, A)
        /\ Takes(A, <<New({"rsuri"})>>, A \cup {"rsuri"})
    BY <1>1, <1>2, StepTakes
  <2>2. Use({"vantiq_client_t"}) \in Stmt /\ New({"rsuri"}) \in Stmt
    BY <1>1, Typed, RefusedType DEF Stmt
  <2> QED
    BY <2>1, <2>2, PairTakes DEF BuildPath
<1>6. Takes(A, <<Check(r), New(k)>>, A \cup k)
  <2>1. Check(r) \in Stmt /\ New(k) \in Stmt
    BY <1>1, Typed DEF Stmt
  <2> QED
    BY <1>4, <2>1, PairTakes
<1>7. Takes(A, <<New(k), Check(r)>>, A \cup k)
  <2>1. Check(r) \in Stmt /\ New(k) \in Stmt
    BY <1>1, Typed DEF Stmt
  <2> QED
    BY <1>4, <2>1, PairTakes
<1> QED
  BY <1>3, <1>4, <1>5, <1>6, <1>7

LEMMA CheckTakes ==
  Takes(Whole, << Check(<< ErrorResult >>) >>, Whole) /\ Takes(Whole, << Check(<< >>) >>, Whole)
<1>1. {} \in Parts
  BY DEF Parts
<1> QED
  BY <1>1, BeforeTakes, WholeType, RefusedType

(* The frees it ends with. *)
LEMMA AfterTakes ==
  ASSUME NEW j \in Parts, NEW k \in Parts, j \cap k = {}
  PROVE  /\ Takes(Whole \cup k, <<Del(k)>>, Whole)
         /\ Takes(Whole \cup (j \cup k), <<Del(j), Del(k)>>, Whole)
<1>1. j \in SUBSET Kind /\ k \in SUBSET Kind
  BY DEF Parts, Kind, Temporary
<1>2. Whole \cup k \in SUBSET All /\ Whole \cup (j \cup k) \in SUBSET All
  BY <1>1 DEF All, Whole, Kind
<1>3. (Whole \cup k) \ k = Whole /\ (Whole \cup (j \cup k)) \ j = Whole \cup k
  <2>1. Whole \cap {"params", "rsuri", "message"} = {}
    BY DEF Whole, HandlePart
  <2> QED
    BY <2>1 DEF Parts
<1>4. Takes(Whole \cup k, <<Del(k)>>, Whole)
  <2>1. << >> \in Seq(Simple) /\ k \subseteq Whole \cup k
    OBVIOUS
  <2> QED
    BY <1>1, <1>2, <1>3, <2>1, StepTakes
<1>5. Takes(Whole \cup (j \cup k), <<Del(j)>>, Whole \cup k)
  <2>1. << >> \in Seq(Simple) /\ j \subseteq Whole \cup (j \cup k)
    OBVIOUS
  <2> QED
    BY <1>1, <1>2, <1>3, <2>1, StepTakes
<1>6. Del(j) \in Stmt /\ Del(k) \in Stmt
  BY <1>1, Typed, RefusedType DEF Stmt
<1> QED
  BY <1>4, <1>5, <1>6, PairTakes
-----------------------------------------------------------------------------
LEMMA SelectTakes ==
  ASSUME NEW k \in SUBSET {"params"}
  PROVE  Takes(Whole, vme_select(k), Whole)
<1> DEFINE r == << ErrorResult, Del(k) >>
           before == << New(k), Check(r) >>
<1>1. k \in Parts /\ {} \in Parts /\ {} \in SUBSET {"message"} /\ k \in SUBSET {"params", "rsuri"}
  BY DEF Parts
<1>2. r \in Seq(Simple)
  <2>1. k \in SUBSET Kind /\ << >> \in Seq(Simple)
    BY DEF Kind, Temporary
  <2>2. ErrorResult \in Simple /\ Del(k) \in Simple
    BY <2>1, Typed
  <2> QED
    BY <2>2
<1>3. Takes(Whole, before, Whole \cup k)
  BY <1>1, <1>2, BeforeTakes, WholeType
<1>4. Takes(Whole \cup k, << Del(k) >>, Whole)
  BY <1>1, AfterTakes
<1> HIDE DEF before
<1>5. Takes(Whole, before \o Request(k, {}) \o << Del(k) >>, Whole)
  <2>1. k \cup {} \subseteq k
    OBVIOUS
  <2> QED
    BY <1>1, <1>3, <1>4, <2>1, AroundTakes
<1> QED
  BY <1>5 DEF vme_select, before

LEMMA SelectCountTakes == Takes(Whole, vme_select_count, Whole)
<1> DEFINE k == {"params"}
           r == << ErrorResult, Del(k) >>
           before == << Check(<< ErrorResult >>), New(k), Check(r) >>
<1>1. k \in Parts /\ {} \in SUBSET {"message"} /\ k \in SUBSET {"params", "rsuri"}
  BY DEF Parts
<1>2. r \in Seq(Simple) /\ << ErrorResult >> \in Seq(Simple)
  <2>1. k \in SUBSET Kind /\ << >> \in Seq(Simple)
    BY DEF Kind, Temporary
  <2>2. ErrorResult \in Simple /\ Del(k) \in Simple
    BY <2>1, Typed
  <2> QED
    BY <2>2
<1>3. Takes(Whole, << Check(<< ErrorResult >>) >>, Whole) /\ Takes(Whole, << New(k), Check(r) >>, Whole \cup k)
  <2> HIDE DEF k, r
  <2> QED
    BY <1>1, <1>2, BeforeTakes, WholeType
<1>4. Takes(Whole, before, Whole \cup k)
  <2>1. k \in SUBSET Kind
    BY DEF Kind, Temporary
  <2> HIDE DEF r, k
  <2>2. New(k) \in Stmt /\ Check(r) \in Stmt /\ Check(<< ErrorResult >>) \in Stmt
    BY <1>2, <2>1, Typed DEF Stmt
  <2> QED
    BY <1>3, <2>2, TripleTakes
<1>5. Takes(Whole \cup k, << Del(k) >>, Whole)
  <2>1. {} \in Parts
    BY DEF Parts
  <2> HIDE DEF k
  <2> QED
    BY <1>1, <2>1, AfterTakes
<1> HIDE DEF before, k
<1>6. Takes(Whole, before \o Request(k, {}) \o << Del(k) >>, Whole)
  <2>1. k \cup {} \subseteq k
    OBVIOUS
  <2> QED
    BY <1>1, <1>4, <1>5, <2>1, AroundTakes
<1> QED
  BY <1>6 DEF vme_select_count, before, k

LEMMA SelectCallbackTakes ==
  ASSUME NEW k \in SUBSET {"params"}
  PROVE  Takes(Whole, vme_select_callback(k), Whole)
<1>1. Takes(Whole, << Check(<< ErrorResult >>) >>, Whole)
  BY CheckTakes
<1> QED
  BY <1>1, SelectTakes, BothTake DEF vme_select_callback

(* The entry points that check the handle, allocate one block and free it. *)
LEMMA OneBlockTakes ==
  ASSUME NEW k \in Parts, NEW uri \in SUBSET {"params", "rsuri"},
         NEW document \in SUBSET {"message"}, uri \cup document \subseteq k
  PROVE  Takes(Whole, << Check(<< ErrorResult >>), New(k) >> \o Request(uri, document)
                        \o << Del(k) >>, Whole)
<1> DEFINE before == << Check(<< ErrorResult >>), New(k) >>
<1>1. Takes(Whole, before, Whole \cup k)
  BY BeforeTakes, WholeType, RefusedType
<1>2. Takes(Whole \cup k, << Del(k) >>, Whole)
  <2>1. {} \in Parts
    BY DEF Parts
  <2> QED
    BY <2>1, AfterTakes
<1> HIDE DEF before
<1>3. Takes(Whole, before \o Request(uri, document) \o << Del(k) >>, Whole)
  BY <1>1, <1>2, AroundTakes
<1> QED
  BY <1>3 DEF before

(* Those that allocate two, and free them in either order. *)
LEMMA TwoBlocksTake ==
  ASSUME NEW j \in Parts, NEW k \in Parts, j \cap k = {},
         NEW uri \in SUBSET {"params", "rsuri"}, NEW document \in SUBSET {"message"},
         uri \cup document \subseteq j \cup k
  PROVE  /\ Takes(Whole, << Check(<< ErrorResult >>), New(j), New(k) >> \o Request(uri, document)
                           \o << Del(k), Del(j) >>, Whole)
         /\ \A before : Takes(Whole, before, Whole \cup (j \cup k)) =>
              Takes(Whole, before \o Request(uri, document) \o << Del(k), Del(j) >>, Whole)
<1>1. j \cup k \in Parts /\ Whole \cup (k \cup j) = Whole \cup (j \cup k) /\ k \cap j = {}
  BY DEF Parts
<1>2. Takes(Whole \cup (j \cup k), << Del(k), Del(j) >>, Whole)
  BY <1>1, AfterTakes
<1>3. ASSUME NEW before, Takes(Whole, before, Whole \cup (j \cup k))
      PROVE  Takes(Whole, before \o Request(uri, document) \o << Del(k), Del(j) >>, Whole)
  BY <1>1, <1>2, <1>3, AroundTakes
<1> DEFINE first == << Check(<< ErrorResult >>), New(j), New(k) >>
<1>4. Takes(Whole, first, Whole \cup (j \cup k))
  <2>1. /\ Takes(Whole, << Check(<< ErrorResult >>), New(j) >>, Whole \cup j)
        /\ Whole \cup j \in SUBSET All /\ Whole \subseteq Whole \cup j
    BY BeforeTakes, WholeType, RefusedType
  <2>2. Takes(Whole \cup j, << New(k) >>, (Whole \cup j) \cup k)
    BY <2>1, BeforeTakes, RefusedType
  <2>3. j \in SUBSET Kind /\ k \in SUBSET Kind
    BY DEF Parts, Kind, Temporary
  <2>4. New(j) \in Stmt /\ New(k) \in Stmt /\ Check(<< ErrorResult >>) \in Stmt
    BY <2>3, Typed, RefusedType DEF Stmt
  <2>5. (Whole \cup j) \cup k = Whole \cup (j \cup k)
    OBVIOUS
  <2> QED
    BY <2>1, <2>2, <2>4, <2>5, TripleTakes
<1> HIDE DEF first
<1>5. Takes(Whole, first \o Request(uri, document) \o << Del(k), Del(j) >>, Whole)
  BY <1>3, <1>4
<1> QED
  BY <1>3, <1>5 DEF first
-----------------------------------------------------------------------------
LEMMA DeleteTakes ==
  ASSUME NEW k \in SUBSET {"params"}
  PROVE  Takes(Whole, vme_delete(k), Whole)
<1>1. k \in Parts /\ k \in SUBSET {"params", "rsuri"} /\ {} \in SUBSET {"message"} /\ k \cup {} \subseteq k
  BY DEF Parts
<1> QED
  BY <1>1, OneBlockTakes DEF vme_delete

LEMMA InsertTakes == Takes(Whole, vme_insert, Whole)
<1>1. /\ {"message"} \in Parts /\ {} \in SUBSET {"params", "rsuri"}
      /\ {"message"} \in SUBSET {"message"} /\ {} \cup {"message"} \subseteq {"message"}
  BY DEF Parts
<1> QED
  BY <1>1, OneBlockTakes DEF vme_insert

LEMMA UpsertTakes == Takes(Whole, vme_upsert, Whole)
<1>1. /\ {"message"} \in Parts /\ {"params"} \in Parts /\ {"message"} \cap {"params"} = {}
      /\ {"params"} \in SUBSET {"params", "rsuri"} /\ {"message"} \in SUBSET {"message"}
      /\ {"params"} \cup {"message"} \subseteq {"message"} \cup {"params"}
  BY DEF Parts
<1> QED
  BY <1>1, TwoBlocksTake DEF vme_upsert

LEMMA QueryTakes == Takes(Whole, vme_query_source, Whole)
<1>1. /\ {"message"} \in Parts /\ {"rsuri"} \in Parts /\ {"rsuri"} \cap {"message"} = {}
      /\ {"rsuri"} \in SUBSET {"params", "rsuri"} /\ {"message"} \in SUBSET {"message"}
      /\ {"rsuri"} \cup {"message"} \subseteq {"rsuri"} \cup {"message"}
  BY DEF Parts
<1> QED
  BY <1>1, TwoBlocksTake DEF vme_query_source

LEMMA AggregateTakes == Takes(Whole, vme_aggregate, Whole)
<1>1. /\ {"params"} \in Parts /\ {"rsuri"} \in Parts /\ {"rsuri"} \cap {"params"} = {}
      /\ {"rsuri", "params"} \in SUBSET {"params", "rsuri"} /\ {} \in SUBSET {"message"}
      /\ {"rsuri", "params"} \cup {} \subseteq {"rsuri"} \cup {"params"}
  BY DEF Parts
<1> QED
  BY <1>1, TwoBlocksTake DEF vme_aggregate

LEMMA PublishTakes == Takes(Whole, vme_publish, Whole)
<1> DEFINE before == << New({"message"}), Check(<< ErrorResult >>) >>
<1>1. /\ {"message"} \in Parts /\ {"rsuri"} \in Parts /\ {"message"} \cap {"rsuri"} = {}
      /\ {"rsuri"} \in SUBSET {"params", "rsuri"} /\ {"message"} \in SUBSET {"message"}
      /\ {"rsuri"} \cup {"message"} \subseteq {"message"} \cup {"rsuri"}
  BY DEF Parts
<1>2. /\ Takes(Whole, before, Whole \cup {"message"})
      /\ Whole \cup {"message"} \in SUBSET All /\ Whole \subseteq Whole \cup {"message"}
  BY <1>1, BeforeTakes, WholeType, RefusedType, ZenonT(40)
<1>3. Takes(Whole \cup {"message"}, BuildPath, (Whole \cup {"message"}) \cup {"rsuri"})
  BY <1>1, <1>2, BeforeTakes, RefusedType
<1>4. (Whole \cup {"message"}) \cup {"rsuri"} = Whole \cup ({"message"} \cup {"rsuri"})
  OBVIOUS
<1> HIDE DEF before
<1>5. Takes(Whole, before \o BuildPath, Whole \cup ({"message"} \cup {"rsuri"}))
  BY <1>2, <1>3, <1>4, BothTake
<1>6. Takes(Whole, before \o BuildPath \o Request({"rsuri"}, {"message"})
                     \o << Del({"rsuri"}), Del({"message"}) >>, Whole)
  BY <1>1, <1>5, TwoBlocksTake
<1> QED
  BY <1>6 DEF vme_publish, before

LEMMA ExecuteTakes == Takes(Whole, vme_execute, Whole)
<1>1. /\ {"message"} \in Parts /\ {"rsuri"} \in Parts /\ {"rsuri"} \cap {"message"} = {}
      /\ {"rsuri"} \in SUBSET {"params", "rsuri"} /\ {"message"} \in SUBSET {"message"}
      /\ {"rsuri"} \cup {"message"} \subseteq {"rsuri"} \cup {"message"}
  BY DEF Parts
<1>2. /\ Takes(Whole, BuildPath, Whole \cup {"rsuri"})
      /\ Whole \cup {"rsuri"} \in SUBSET All /\ Whole \subseteq Whole \cup {"rsuri"}
  BY <1>1, BeforeTakes, WholeType, RefusedType, ZenonT(40)
<1>3. Takes(Whole \cup {"rsuri"}, << New({"message"}) >>, (Whole \cup {"rsuri"}) \cup {"message"})
  BY <1>1, <1>2, BeforeTakes, RefusedType
<1>4. (Whole \cup {"rsuri"}) \cup {"message"} = Whole \cup ({"rsuri"} \cup {"message"})
  OBVIOUS
<1>5. Takes(Whole, << Check(<< ErrorResult >>) >> \o BuildPath, Whole \cup {"rsuri"})
  BY <1>2, CheckTakes, BothTake
<1>6. Takes(Whole, << Check(<< ErrorResult >>) >> \o BuildPath \o << New({"message"}) >>,
            Whole \cup ({"rsuri"} \cup {"message"}))
  BY <1>3, <1>4, <1>5, BothTake
<1>7. Takes(Whole, << Check(<< ErrorResult >>) >> \o BuildPath \o << New({"message"}) >>
                     \o Request({"rsuri"}, {"message"})
                     \o << Del({"message"}), Del({"rsuri"}) >>, Whole)
  BY <1>1, <1>6, TwoBlocksTake
<1> QED
  BY <1>7 DEF vme_execute

LEMMA PatchTakes == Takes(Whole, vme_patch, Whole)
<1>1. /\ {} \in SUBSET {"params", "rsuri"} /\ {} \in SUBSET {"message"}
      /\ HandlePart \cup {} \cup {} \subseteq Whole /\ "url" \notin Whole
  BY DEF Whole, HandlePart
<1>2. Takes(Whole, Request({}, {}), Whole)
  BY <1>1, RequestTakes, WholeType
<1> QED
  BY <1>2, CheckTakes, BothTake DEF vme_patch

(* Every request finds all it uses, and leaves its handle as it was. *)
LEMMA RequestsTake ==
  ASSUME NEW p \in Requests
  PROVE  Takes(Whole, p, Whole)
<1>1. CASE p \in {vme_select(k) : k \in SUBSET {"params"}}
  BY <1>1, SelectTakes
<1>2. CASE p \in {vme_select_callback(k) : k \in SUBSET {"params"}}
  BY <1>2, SelectCallbackTakes
<1>3. CASE p \in {vme_delete(k) : k \in SUBSET {"params"}}
  BY <1>3, DeleteTakes
<1>4. CASE p \in {vme_select_count, vme_insert, vme_update, vme_upsert, vme_publish,
                 vme_patch, vme_execute, vme_query_source, vme_aggregate}
  BY <1>4, SelectCountTakes, InsertTakes, UpsertTakes, PublishTakes, PatchTakes, ExecuteTakes,
     QueryTakes, AggregateTakes DEF vme_update
<1> QED
  BY <1>1, <1>2, <1>3, <1>4 DEF Requests
-----------------------------------------------------------------------------
(* vme_teardown leaves server_url of the handle, and nothing else. *)
LEMMA TeardownTakes == Takes(Whole, vme_teardown, {"server_url"})
<1> DEFINE p == vme_teardown
           A4 == Whole \ {"recv_buf"}
           A5 == Whole \ {"recv_buf", "http_hdrs"}
           A6 == Whole \ {"recv_buf", "http_hdrs", "curl"}
           t == << Whole, Whole, Whole, A4, A5, A6, {"server_url"} >>
<1>1. p \in Seq(Stmt) /\ Len(p) = 6
  <2>1. /\ {"vantiq_client_t", "server_url"} \in SUBSET Kind /\ {"recv_buf"} \in SUBSET Kind
        /\ {"http_hdrs"} \in SUBSET Kind /\ {"curl"} \in SUBSET Kind
    BY DEF Kind, HandlePart
  <2>2. /\ Check(<< >>) \in Stmt /\ Use({"vantiq_client_t", "server_url"}) \in Stmt
        /\ Del({"recv_buf"}) \in Stmt /\ Del({"http_hdrs"}) \in Stmt /\ Del({"curl"}) \in Stmt
        /\ Close \in Stmt
    BY <2>1, Typed, RefusedType DEF Stmt
  <2> QED
    BY <2>2 DEF vme_teardown
<1>2. t \in Seq(SUBSET All) /\ Len(t) = 7 /\ t[1] = Whole /\ t[Len(t)] = {"server_url"}
  <2>1. /\ Whole \in SUBSET All /\ A4 \in SUBSET All /\ A5 \in SUBSET All /\ A6 \in SUBSET All
        /\ {"server_url"} \in SUBSET All
    BY DEF Whole, All, Kind, HandlePart
  <2> QED
    BY <2>1
<1>3. Needs(p[1], t[1]) /\ t[2] = Effect(p[1], t[1])
  BY DEF vme_teardown, Check, Needs, Effect, Whole, HandlePart
<1>4. Needs(p[2], t[2]) /\ t[3] = Effect(p[2], t[2])
  BY DEF vme_teardown, Use, Needs, Effect, Whole, HandlePart
<1>5. Needs(p[3], t[3]) /\ t[4] = Effect(p[3], t[3])
  BY DEF vme_teardown, Del, Needs, Effect, Whole, HandlePart
<1>6. Needs(p[4], t[4]) /\ t[5] = Effect(p[4], t[4])
  BY DEF vme_teardown, Del, Needs, Effect, Whole, HandlePart
<1>7. Needs(p[5], t[5]) /\ t[6] = Effect(p[5], t[5])
  BY DEF vme_teardown, Del, Needs, Effect, Whole, HandlePart
<1>8. Needs(p[6], t[6]) /\ t[7] = Effect(p[6], t[6])
  BY DEF vme_teardown, Close, Needs, Effect, Whole, HandlePart
<1>9. Trace(p, t)
  <2> HIDE DEF p, t
  <2>1. \A i \in 1 .. 6 : Needs(p[i], t[i]) /\ t[i + 1] = Effect(p[i], t[i])
    <3>1. \A i \in 1 .. 6 : i = 1 \/ i = 2 \/ i = 3 \/ i = 4 \/ i = 5 \/ i = 6
      OBVIOUS
    <3> QED
      BY <1>3, <1>4, <1>5, <1>6, <1>7, <1>8, <3>1
  <2> QED
    BY <1>1, <1>2, <2>1 DEF Trace
<1> HIDE DEF p, t
<1> QED
  BY <1>2, <1>9 DEF Takes, p

(* vme_init at an address where no handle is; the three places at which it *)
(* may give up have no temporary block.                                    *)
LEMMA InitTakes ==
  ASSUME NEW A \in SUBSET {"server_url"}
  PROVE  Takes(A, vme_init, Whole)
<1> DEFINE p == vme_init
           A2 == A \cup {"vantiq_client_t"}
           A3 == A2 \cup {"auth_hdr"}
           A4 == A3 \cup {"http_hdrs"}
           A5 == A2 \cup {"http_hdrs"}
           A6 == {"vantiq_client_t", "http_hdrs", "server_url"}
           A7 == A6 \cup {"recv_buf"}
           U == HandlePart \cup {"auth_url"}
           t == << A, A2, A3, A4, A5, A6, A7, A7, A7, HandlePart, U, U, HandlePart, HandlePart, Whole >>
<1>1. p \in Seq(Stmt) /\ Len(p) = 14
  <2>1. /\ {"vantiq_client_t"} \in SUBSET Kind /\ {"auth_hdr"} \in SUBSET Kind
        /\ {"http_hdrs"} \in SUBSET Kind /\ {"server_url"} \in SUBSET Kind
        /\ {"recv_buf"} \in SUBSET Kind /\ {"curl"} \in SUBSET Kind
        /\ {"auth_url"} \in SUBSET Kind
        /\ {"auth_url", "http_hdrs", "recv_buf", "curl"} \in SUBSET Kind
    BY DEF Kind, HandlePart, Temporary
  <2>2. /\ New({"vantiq_client_t"}) \in Stmt /\ New({"auth_hdr"}) \in Stmt
        /\ New({"http_hdrs"}) \in Stmt /\ Del({"auth_hdr"}) \in Stmt
        /\ New({"server_url"}) \in Stmt /\ New({"recv_buf"}) \in Stmt /\ MayFail \in Stmt
        /\ New({"curl"}) \in Stmt /\ New({"auth_url"}) \in Stmt
        /\ Use({"auth_url", "http_hdrs", "recv_buf", "curl"}) \in Stmt
        /\ Del({"auth_url"}) \in Stmt /\ Open \in Stmt
    BY <2>1, Typed, RefusedType DEF Stmt
  <2> QED
    BY <2>2 DEF vme_init
<1>2. t \in Seq(SUBSET All) /\ Len(t) = 15 /\ t[1] = A /\ t[Len(t)] = Whole
  <2>1. /\ A \in SUBSET All /\ A2 \in SUBSET All /\ A3 \in SUBSET All /\ A4 \in SUBSET All
        /\ A5 \in SUBSET All /\ A6 \in SUBSET All /\ A7 \in SUBSET All
        /\ HandlePart \in SUBSET All /\ U \in SUBSET All /\ Whole \in SUBSET All
    BY DEF Whole, All, Kind, HandlePart, Temporary
  <2> QED
    BY <2>1
<1>3. Needs(p[1], t[1]) /\ t[2] = Effect(p[1], t[1])
  BY DEF vme_init, New, Needs, Effect
<1>4. Needs(p[2], t[2]) /\ t[3] = Effect(p[2], t[2])
  BY DEF vme_init, New, Needs, Effect
<1>5. Needs(p[3], t[3]) /\ t[4] = Effect(p[3], t[3])
  BY DEF vme_init, New, Needs, Effect
<1>6. Needs(p[4], t[4]) /\ t[5] = Effect(p[4], t[4])
  BY DEF vme_init, Del, Needs, Effect
<1>7. Needs(p[5], t[5]) /\ t[6] = Effect(p[5], t[5])
  BY DEF vme_init, New, Needs, Effect
<1>8. Needs(p[6], t[6]) /\ t[7] = Effect(p[6], t[6])
  BY DEF vme_init, New, Needs, Effect
<1>9. Needs(p[7], t[7]) /\ t[8] = Effect(p[7], t[7])
  BY DEF vme_init, MayFail, Needs, Effect, AtRest, Temporary
<1>10. Needs(p[8], t[8]) /\ t[9] = Effect(p[8], t[8])
  BY DEF vme_init, MayFail, Needs, Effect, AtRest, Temporary
<1>11. Needs(p[9], t[9]) /\ t[10] = Effect(p[9], t[9])
  BY DEF vme_init, New, Needs, Effect, HandlePart
<1>12. Needs(p[10], t[10]) /\ t[11] = Effect(p[10], t[10])
  BY DEF vme_init, New, Needs, Effect
<1>13. Needs(p[11], t[11]) /\ t[12] = Effect(p[11], t[11])
  BY DEF vme_init, Use, Needs, Effect, HandlePart
<1>14. Needs(p[12], t[12]) /\ t[13] = Effect(p[12], t[12])
  BY DEF vme_init, Del, Needs, Effect, HandlePart
<1>15. Needs(p[13], t[13]) /\ t[14] = Effect(p[13], t[13])
  BY DEF vme_init, MayFail, Needs, Effect, AtRest, Temporary, HandlePart
<1>16. Needs(p[14], t[14]) /\ t[15] = Effect(p[14], t[14])
  BY DEF vme_init, Open, Needs, Effect, Whole
<1>17. Trace(p, t)
  <2> HIDE DEF p, t
  <2>1. \A i \in 1 .. 14 : Needs(p[i], t[i]) /\ t[i + 1] = Effect(p[i], t[i])
    <3>1. \A i \in 1 .. 14 : \/ i = 1 \/ i = 2 \/ i = 3 \/ i = 4 \/ i = 5 \/ i = 6 \/ i = 7
                           \/ i = 8 \/ i = 9 \/ i = 10 \/ i = 11 \/ i = 12 \/ i = 13 \/ i = 14
      OBVIOUS
    <3> QED
      BY <1>3, <1>4, <1>5, <1>6, <1>7, <1>8, <1>9, <1>10, <1>11, <1>12, <1>13, <1>14, <1>15,
         <1>16, <3>1
  <2> QED
    BY <1>1, <1>2, <2>1 DEF Trace
<1> HIDE DEF p, t
<1> QED
  BY <1>2, <1>17 DEF Takes, p
-----------------------------------------------------------------------------
(* What a handle h has, when the blocks H are allocated and the handles O  *)
(* are open.                                                               *)
Has(H, O, h) == {k \in Kind : [of |-> h, kind |-> k] \in H} \cup {k \in {"open"} : h \in O}

LEMMA HasType ==
  ASSUME NEW H, NEW O, NEW h
  PROVE  Has(H, O, h) \in SUBSET All
BY DEF Has, All

LEMMA OpenIsNoKind == "open" \notin Kind
BY DEF Kind, HandlePart, Temporary

LEMMA HasBlocks ==
  ASSUME NEW H, NEW O, NEW h, NEW k \in SUBSET Kind
  PROVE  k \subseteq Has(H, O, h) <=> Blocks(h, k) \subseteq H
BY OpenIsNoKind DEF Has, Blocks

(* What does not touch the blocks of a handle changes nothing for it.      *)
LEMMA HasElsewhere ==
  ASSUME NEW H, NEW O, NEW G, NEW P, NEW g, g \in P <=> g \in O,
         \A x \in Kind : [of |-> g, kind |-> x] \in G <=> [of |-> g, kind |-> x] \in H
  PROVE  Has(G, P, g) = Has(H, O, g)
BY DEF Has

(* One statement of a call changes what its handle has by Effect.          *)
LEMMA HasEffect ==
  ASSUME NEW H, NEW O, NEW G, NEW P, NEW h, NEW s \in Stmt,
         \/ s.op = "new" /\ G = H \cup Blocks(h, s.kinds) /\ P = O
         \/ s.op = "del" /\ G = H \ Blocks(h, s.kinds) /\ P = O
         \/ s.op = "open" /\ G = H /\ P = O \cup {h}
         \/ s.op = "close" /\ G = H \ Blocks(h, s.kinds) /\ P = O \ {h}
         \/ s.op \notin {"new", "del", "open", "close"} /\ G = H /\ P = O
  PROVE  Has(G, P, h) = Effect(s, Has(H, O, h))
<1>1. s.kinds \in SUBSET Kind
  BY DEF Stmt, Simple, Kind, HandlePart
<1>2. \A x \in Kind : [of |-> h, kind |-> x] \in Blocks(h, s.kinds) <=> x \in s.kinds
  BY <1>1 DEF Blocks
<1>3. \A x : x \in Has(H, O, h) <=>
        (x \in Kind /\ [of |-> h, kind |-> x] \in H) \/ (x = "open" /\ h \in O)
  BY DEF Has
<1>4. \A x : x \in Has(G, P, h) <=>
        (x \in Kind /\ [of |-> h, kind |-> x] \in G) \/ (x = "open" /\ h \in P)
  BY DEF Has
<1>5. CASE s.op = "new" /\ G = H \cup Blocks(h, s.kinds) /\ P = O
  BY <1>1, <1>2, <1>3, <1>4, <1>5 DEF Effect
<1>6. CASE s.op = "del" /\ G = H \ Blocks(h, s.kinds) /\ P = O
  BY <1>1, <1>2, <1>3, <1>4, <1>6, OpenIsNoKind DEF Effect
<1>7. CASE s.op = "open" /\ G = H /\ P = O \cup {h}
  BY <1>1, <1>2, <1>3, <1>4, <1>7 DEF Effect
<1>8. CASE s.op = "close" /\ G = H \ Blocks(h, s.kinds) /\ P = O \ {h}
  BY <1>1, <1>2, <1>3, <1>4, <1>8, OpenIsNoKind DEF Effect
<1>9. CASE s.op \notin {"new", "del", "open", "close"} /\ G = H /\ P = O
  BY <1>9 DEF Effect
<1> QED
  BY <1>5, <1>6, <1>7, <1>8, <1>9
-----------------------------------------------------------------------------
(* A call whose handle is NULL: it makes at most one block before its      *)
(* check, and is then refused; refused, it frees at most what it has.      *)
Refusal(p, A) ==
  \/ p = << >> \/ p = << ErrorResult >>
  \/ \E k \in SUBSET Temporary :
       k \subseteq A /\ (p = << ErrorResult, Del(k) >> \/ p = << Del(k) >>)

Checks(p, A) == p # << >> /\ \E r \in Seq(Simple) : Head(p) = Check(r) /\ Refusal(r, A)

Starts(p, A) ==
  p # << >> /\ \E k \in SUBSET Temporary : Head(p) = New(k) /\ Checks(Tail(p), A \cup k)

NullGoes(p, A) == Refusal(p, A) \/ Checks(p, A) \/ Starts(p, A)

(* What is refused depends on how the program begins.                      *)
LEMMA BeginsSame ==
  ASSUME NEW p \in Seq(Stmt), p # << >>, NEW q \in Seq(Stmt)
  PROVE  /\ p \o q \in Seq(Stmt) /\ p \o q # << >> /\ Head(p \o q) = Head(p)
         /\ Tail(p \o q) = Tail(p) \o q
         /\ Tail(p) \in Seq(Stmt)
<1>1. p \o q \in Seq(Stmt) /\ Len(p) \in Nat \ {0} /\ Len(q) \in Nat /\ Len(p \o q) = Len(p) + Len(q)
  BY EmptySeq, ConcatProperties
<1>2. p \o q # << >>
  BY <1>1, EmptySeq
<1>3. Tail(p) \in Seq(Stmt) /\ Len(Tail(p)) = Len(p) - 1
      /\ \A i \in 1 .. Len(p) - 1 : Tail(p)[i] = p[i + 1]
  BY HeadTailProperties
<1>4. Tail(p \o q) \in Seq(Stmt) /\ Len(Tail(p \o q)) = Len(p) + Len(q) - 1
      /\ \A i \in 1 .. Len(p) + Len(q) - 1 : Tail(p \o q)[i] = (p \o q)[i + 1]
  BY <1>1, <1>2, HeadTailProperties
<1>5. \A i \in 1 .. Len(p) + Len(q) : (p \o q)[i] = IF i <= Len(p) THEN p[i] ELSE q[i - Len(p)]
  BY <1>1, ConcatProperties
<1>6. Head(p \o q) = Head(p)
  BY <1>1, <1>2, <1>5, HeadTailProperties
<1>7. Tail(p) \o q \in Seq(Stmt) /\ Len(Tail(p) \o q) = Len(p) - 1 + Len(q)
      /\ \A i \in 1 .. Len(p) - 1 + Len(q) :
           (Tail(p) \o q)[i] = IF i <= Len(p) - 1 THEN Tail(p)[i] ELSE q[i - (Len(p) - 1)]
  BY <1>3, ConcatProperties
<1>8. \A i \in 1 .. Len(p) + Len(q) - 1 : Tail(p \o q)[i] = (Tail(p) \o q)[i]
  <2> SUFFICES ASSUME NEW i \in 1 .. Len(p) + Len(q) - 1
               PROVE  Tail(p \o q)[i] = (Tail(p) \o q)[i]
    OBVIOUS
  <2>1. Tail(p \o q)[i] = (p \o q)[i + 1] /\ i + 1 \in 1 .. Len(p) + Len(q)
    BY <1>1, <1>4
  <2>2. CASE i <= Len(p) - 1
    BY <1>1, <1>3, <1>5, <1>7, <2>1, <2>2
  <2>3. CASE ~(i <= Len(p) - 1)
    <3>1. ~(i + 1 <= Len(p)) /\ i + 1 - Len(p) = i - (Len(p) - 1)
      BY <1>1, <2>3
    <3> QED
      BY <1>1, <1>5, <1>7, <2>1, <2>3, <3>1
  <2> QED
    BY <2>2, <2>3
<1>9. Tail(p \o q) = Tail(p) \o q
  BY <1>1, <1>4, <1>7, <1>8, SeqEqual
<1> QED
  BY <1>1, <1>2, <1>3, <1>6, <1>9

LEMMA GoesWithMore ==
  ASSUME NEW p \in Seq(Stmt), NEW q \in Seq(Stmt), NEW A
  PROVE  /\ p \o q \in Seq(Stmt)
         /\ Checks(p, A) => Checks(p \o q, A)
         /\ Starts(p, A) => Starts(p \o q, A)
<1>1. p \o q \in Seq(Stmt)
  BY ConcatProperties
<1>2. Checks(p, A) => Checks(p \o q, A)
  BY BeginsSame DEF Checks
<1>3. ASSUME NEW k \in SUBSET Temporary, p # << >>, Head(p) = New(k), Checks(Tail(p), A \cup k)
      PROVE  Starts(p \o q, A)
  <2>1. Tail(p) # << >>
    BY <1>3 DEF Checks
  <2>2. Checks(Tail(p) \o q, A \cup k)
    <3>1. Tail(p) \in Seq(Stmt)
      BY <1>3, BeginsSame
    <3>2. Tail(p) \o q # << >> /\ Head(Tail(p) \o q) = Head(Tail(p))
      BY <2>1, <3>1, BeginsSame
    <3> QED
      BY <1>3, <3>2 DEF Checks
  <2>3. p \o q # << >> /\ Head(p \o q) = Head(p) /\ Tail(p \o q) = Tail(p) \o q
    BY <1>3, BeginsSame
  <2> QED
    BY <1>3, <2>2, <2>3 DEF Starts
<1> QED
  BY <1>1, <1>2, <1>3 DEF Starts

LEMMA PartTypes ==
  ASSUME NEW k \in Parts, NEW j \in Parts, NEW uri \in SUBSET {"params", "rsuri"},
         NEW document \in SUBSET {"message"}
  PROVE  /\ Request(uri, document) \in Seq(Stmt) /\ BuildPath \in Seq(Stmt)
         /\ << Del(k) >> \in Seq(Stmt) /\ << Del(k), Del(j) >> \in Seq(Stmt)
         /\ New(k) \in Stmt
<1>1. k \in SUBSET Kind /\ j \in SUBSET Kind
  BY DEF Parts, Kind, Temporary
<1>2. New(k) \in Stmt /\ Del(k) \in Stmt /\ Del(j) \in Stmt
  BY <1>1, RefusedType, Typed DEF Stmt
<1> DEFINE A == HandlePart \cup uri \cup document
<1>3. A \in SUBSET All /\ "url" \notin A
  BY DEF All, Kind, HandlePart, Temporary
<1>4. Takes(A, Request(uri, document), A)
  BY <1>3, RequestTakes
<1>5. Takes(Whole, BuildPath, Whole \cup {"rsuri"})
  <2>1. {} \in Parts
    BY DEF Parts
  <2> QED
    BY <2>1, BeforeTakes, WholeType, RefusedType
<1>6. Request(uri, document) \in Seq(Stmt) /\ BuildPath \in Seq(Stmt)
  BY <1>4, <1>5 DEF Takes, Trace
<1> QED
  BY <1>2, <1>6

LEMMA NewFirst ==
  ASSUME NEW k \in Parts, NEW r \in Seq(Simple), NEW A, Refusal(r, A \cup k)
  PROVE  << New(k), Check(r) >> \in Seq(Stmt) /\ Starts(<< New(k), Check(r) >>, A)
<1> DEFINE s == << New(k), Check(r) >>
<1>1. New(k) \in Stmt /\ Check(r) \in Stmt /\ k \in SUBSET Temporary
  <2>1. k \in SUBSET Kind /\ k \in SUBSET Temporary
    BY DEF Parts, Kind, Temporary
  <2> QED
    BY <2>1, Typed DEF Stmt
<1>2. /\ s \in Seq(Stmt) /\ s # << >> /\ Head(s) = New(k)
      /\ Tail(s) # << >> /\ Head(Tail(s)) = Check(r)
  BY <1>1
<1> HIDE DEF s
<1>3. Checks(Tail(s), A \cup k)
  BY <1>2 DEF Checks
<1>4. s \in Seq(Stmt) /\ Starts(s, A)
  BY <1>1, <1>2, <1>3 DEF Starts
<1> QED
  BY <1>4 DEF s

LEMMA PartsOf ==
  /\ {} \in Parts /\ {"params"} \in Parts /\ {"message"} \in Parts /\ {"rsuri"} \in Parts
  /\ {} \in SUBSET {"params", "rsuri"} /\ {"params"} \in SUBSET {"params", "rsuri"}
  /\ {"rsuri"} \in SUBSET {"params", "rsuri"}
  /\ {"rsuri", "params"} \in SUBSET {"params", "rsuri"}
  /\ {} \in SUBSET {"message"} /\ {"message"} \in SUBSET {"message"}
  /\ \A k \in SUBSET {"params"} : k \in Parts /\ k \in SUBSET {"params", "rsuri"}
BY DEF Parts

LEMMA FirstChecks ==
  ASSUME NEW A, NEW k \in Parts, NEW j \in Parts
  PROVE  /\ << Check(<< ErrorResult >>) >> \in Seq(Stmt)
         /\ Checks(<< Check(<< ErrorResult >>) >>, A)
         /\ << Check(<< ErrorResult >>), New(k) >> \in Seq(Stmt)
         /\ Checks(<< Check(<< ErrorResult >>), New(k) >>, A)
         /\ << Check(<< ErrorResult >>), New(k), New(j) >> \in Seq(Stmt)
         /\ Checks(<< Check(<< ErrorResult >>), New(k), New(j) >>, A)
         /\ << Check(<< >>) >> \in Seq(Stmt) /\ Checks(<< Check(<< >>) >>, A)
<1>1. /\ Check(<< ErrorResult >>) \in Stmt /\ Check(<< >>) \in Stmt
      /\ New(k) \in Stmt /\ New(j) \in Stmt
  <2>1. {} \in SUBSET Kind
    OBVIOUS
  <2>2. New(k) \in Stmt /\ New(j) \in Stmt
    BY PartTypes, PartsOf
  <2> QED
    BY <2>1, <2>2, Typed, RefusedType
<1>2. Refusal(<< >>, A) /\ Refusal(<< ErrorResult >>, A)
  BY DEF Refusal
<1> DEFINE a == << Check(<< ErrorResult >>) >>
           b == << Check(<< ErrorResult >>), New(k) >>
           c == << Check(<< ErrorResult >>), New(k), New(j) >>
           d == << Check(<< >>) >>
<1>3. /\ a \in Seq(Stmt) /\ a # << >> /\ Head(a) = Check(<< ErrorResult >>)
      /\ b \in Seq(Stmt) /\ b # << >> /\ Head(b) = Check(<< ErrorResult >>)
      /\ c \in Seq(Stmt) /\ c # << >> /\ Head(c) = Check(<< ErrorResult >>)
      /\ d \in Seq(Stmt) /\ d # << >> /\ Head(d) = Check(<< >>)
  BY <1>1
<1> HIDE DEF a, b, c, d
<1>4. Checks(a, A) /\ Checks(b, A) /\ Checks(c, A) /\ Checks(d, A)
  BY <1>2, <1>3, RefusedType DEF Checks
<1> QED
  BY <1>3, <1>4 DEF a, b, c, d

LEMMA SelectRefused ==
  ASSUME NEW k \in SUBSET {"params"}, NEW A
  PROVE  vme_select(k) \in Seq(Stmt) /\ NullGoes(vme_select(k), A)
         /\ vme_select_callback(k) \in Seq(Stmt) /\ NullGoes(vme_select_callback(k), A)
<1> DEFINE r == << ErrorResult, Del(k) >>
           s == << New(k), Check(r) >>
           q == Request(k, {})
           d == << Del(k) >>
<1>1. k \in Parts /\ k \in SUBSET Temporary /\ k \in SUBSET Kind /\ {} \in SUBSET Kind
  BY DEF Parts, Kind, Temporary
<1>2. r \in Seq(Simple) /\ Refusal(r, A \cup k)
  <2>1. ErrorResult \in Simple /\ Del(k) \in Simple
    BY <1>1, Typed, RefusedType
  <2>2. k \subseteq A \cup k
    OBVIOUS
  <2> QED
    BY <1>1, <2>1, <2>2 DEF Refusal
<1>3. q \in Seq(Stmt) /\ d \in Seq(Stmt) /\ New(k) \in Stmt
  <2>1. k \in SUBSET {"params", "rsuri"} /\ {} \in SUBSET {"message"}
    OBVIOUS
  <2> QED
    BY <1>1, <2>1, PartTypes
<1>4. s \in Seq(Stmt) /\ Starts(s, A)
  BY <1>1, <1>2, NewFirst
<1>5. vme_select(k) = (s \o q) \o d
  BY DEF vme_select
<1> HIDE DEF s, q, d
<1>6. s \o q \in Seq(Stmt) /\ Starts(s \o q, A)
  BY <1>3, <1>4, GoesWithMore
<1>7. vme_select(k) \in Seq(Stmt) /\ Starts(vme_select(k), A)
  BY <1>3, <1>5, <1>6, GoesWithMore
<1>8. vme_select_callback(k) \in Seq(Stmt) /\ Checks(vme_select_callback(k), A)
  BY <1>7, FirstChecks, PartsOf, GoesWithMore DEF vme_select_callback
<1> QED
  BY <1>7, <1>8 DEF NullGoes

LEMMA SelectCountRefused ==
  ASSUME NEW A
  PROVE  vme_select_count \in Seq(Stmt) /\ Checks(vme_select_count, A)
<1> DEFINE k == {"params"}
           r == << ErrorResult, Del(k) >>
           s == << Check(<< ErrorResult >>), New(k), Check(r) >>
           q == Request(k, {})
           d == << Del(k) >>
<1>1. r \in Seq(Simple)
  <2>1. k \in SUBSET Kind
    BY DEF Kind, Temporary
  <2>2. ErrorResult \in Simple /\ Del(k) \in Simple
    BY <2>1, Typed, RefusedType
  <2> QED
    BY <2>2
<1>2. Check(<< ErrorResult >>) \in Stmt /\ Check(r) \in Stmt /\ New(k) \in Stmt
  <2>1. {} \in SUBSET Kind
    OBVIOUS
  <2> QED
    BY <1>1, <2>1, Typed, RefusedType, PartTypes, PartsOf
<1>3. s \in Seq(Stmt) /\ s # << >> /\ Head(s) = Check(<< ErrorResult >>)
  BY <1>2
<1>4. q \in Seq(Stmt) /\ d \in Seq(Stmt)
  BY PartTypes, PartsOf
<1>5. vme_select_count = (s \o q) \o d
  BY DEF vme_select_count
<1> HIDE DEF s, q, d
<1>6. Checks(s, A)
  BY <1>3, RefusedType DEF Checks, Refusal
<1>7. s \o q \in Seq(Stmt) /\ Checks(s \o q, A)
  BY <1>3, <1>4, <1>6, GoesWithMore
<1> QED
  BY <1>4, <1>5, <1>7, GoesWithMore

(* The entry points that check the handle first. *)
LEMMA CheckingRefused ==
  ASSUME NEW A, NEW k \in SUBSET {"params"}
  PROVE  \A p \in {vme_delete(k), vme_insert, vme_upsert, vme_patch, vme_execute,
                   vme_query_source, vme_aggregate} : p \in Seq(Stmt) /\ Checks(p, A)
<1>1. ASSUME NEW s \in Seq(Stmt), Checks(s, A), NEW uri \in SUBSET {"params", "rsuri"},
             NEW document \in SUBSET {"message"}, NEW i \in Parts, NEW j \in Parts
      PROVE  /\ s \o Request(uri, document) \in Seq(Stmt)
             /\ Checks(s \o Request(uri, document), A)
             /\ s \o Request(uri, document) \o << Del(i) >> \in Seq(Stmt)
             /\ Checks(s \o Request(uri, document) \o << Del(i) >>, A)
             /\ s \o Request(uri, document) \o << Del(i), Del(j) >> \in Seq(Stmt)
             /\ Checks(s \o Request(uri, document) \o << Del(i), Del(j) >>, A)
  <2> DEFINE q == Request(uri, document)
             d == << Del(i) >>
             e == << Del(i), Del(j) >>
  <2>1. q \in Seq(Stmt) /\ d \in Seq(Stmt) /\ e \in Seq(Stmt)
    BY PartTypes
  <2> HIDE DEF q, d, e
  <2>2. s \o q \in Seq(Stmt) /\ Checks(s \o q, A)
    BY <1>1, <2>1, GoesWithMore
  <2>3. s \o q \o d \in Seq(Stmt) /\ Checks(s \o q \o d, A)
    BY <2>1, <2>2, GoesWithMore
  <2>4. s \o q \o e \in Seq(Stmt) /\ Checks(s \o q \o e, A)
    BY <2>1, <2>2, GoesWithMore
  <2> QED
    BY <2>2, <2>3, <2>4 DEF q, d, e
<1>2. vme_delete(k) \in Seq(Stmt) /\ Checks(vme_delete(k), A)
  BY <1>1, FirstChecks, PartsOf DEF vme_delete
<1>3. vme_insert \in Seq(Stmt) /\ Checks(vme_insert, A)
  BY <1>1, FirstChecks, PartsOf DEF vme_insert
<1>4. vme_upsert \in Seq(Stmt) /\ Checks(vme_upsert, A)
  BY <1>1, FirstChecks, PartsOf DEF vme_upsert
<1>5. vme_patch \in Seq(Stmt) /\ Checks(vme_patch, A)
  BY <1>1, FirstChecks, PartsOf DEF vme_patch
<1>6. vme_query_source \in Seq(Stmt) /\ Checks(vme_query_source, A)
  BY <1>1, FirstChecks, PartsOf DEF vme_query_source
<1>7. vme_aggregate \in Seq(Stmt) /\ Checks(vme_aggregate, A)
  BY <1>1, FirstChecks, PartsOf DEF vme_aggregate
<1>8. vme_execute \in Seq(Stmt) /\ Checks(vme_execute, A)
  <2> DEFINE c == << Check(<< ErrorResult >>) >>
             n == << New({"message"}) >>
  <2>1. c \in Seq(Stmt) /\ Checks(c, A)
    BY FirstChecks, PartsOf
  <2>2. BuildPath \in Seq(Stmt) /\ n \in Seq(Stmt)
    BY PartTypes, PartsOf
  <2> HIDE DEF c, n
  <2>3. c \o BuildPath \in Seq(Stmt) /\ Checks(c \o BuildPath, A)
    BY <2>1, <2>2, GoesWithMore
  <2>4. c \o BuildPath \o n \in Seq(Stmt) /\ Checks(c \o BuildPath \o n, A)
    BY <2>2, <2>3, GoesWithMore
  <2> QED
    BY <1>1, <2>4, PartsOf DEF vme_execute, c, n
<1> QED
  BY <1>2, <1>3, <1>4, <1>5, <1>6, <1>7, <1>8

LEMMA PublishRefused ==
  ASSUME NEW A
  PROVE  vme_publish \in Seq(Stmt) /\ NullGoes(vme_publish, A)
<1> DEFINE s == << New({"message"}), Check(<< ErrorResult >>) >>
           q == Request({"rsuri"}, {"message"})
           d == << Del({"rsuri"}), Del({"message"}) >>
<1>1. BuildPath \in Seq(Stmt) /\ q \in Seq(Stmt) /\ d \in Seq(Stmt)
  BY PartTypes, PartsOf
<1>2. s \in Seq(Stmt)
  <2>1. {} \in SUBSET Kind
    OBVIOUS
  <2>2. Check(<< ErrorResult >>) \in Stmt /\ New({"message"}) \in Stmt
    BY <2>1, Typed, RefusedType, PartTypes, PartsOf
  <2> QED
    BY <2>2
<1>3. Refusal(<< ErrorResult >>, A \cup {"message"})
  BY DEF Refusal
<1>4. vme_publish = ((s \o BuildPath) \o q) \o d
  BY DEF vme_publish
<1>5. Starts(s, A)
  BY <1>3, NewFirst, PartsOf, RefusedType
<1> HIDE DEF s, q, d
<1>6. s \o BuildPath \in Seq(Stmt) /\ Starts(s \o BuildPath, A)
  BY <1>1, <1>2, <1>5, GoesWithMore
<1>7. (s \o BuildPath) \o q \in Seq(Stmt) /\ Starts((s \o BuildPath) \o q, A)
  BY <1>1, <1>6, GoesWithMore
<1>8. ((s \o BuildPath) \o q) \o d \in Seq(Stmt) /\ Starts(((s \o BuildPath) \o q) \o d, A)
  BY <1>1, <1>7, GoesWithMore
<1> QED
  BY <1>4, <1>8 DEF NullGoes

LEMMA RequestsRefused ==
  ASSUME NEW p \in Requests, NEW A
  PROVE  p \in Seq(Stmt) /\ NullGoes(p, A)
<1>1. CASE p \in {vme_select(k) : k \in SUBSET {"params"}}
  BY <1>1, SelectRefused
<1>2. CASE p \in {vme_select_callback(k) : k \in SUBSET {"params"}}
  BY <1>2, SelectRefused
<1>3. CASE p \in {vme_delete(k) : k \in SUBSET {"params"}}
  BY <1>3, CheckingRefused DEF NullGoes
<1>4. CASE p \in {vme_select_count, vme_insert, vme_update, vme_upsert, vme_publish,
                 vme_patch, vme_execute, vme_query_source, vme_aggregate}
  <2>1. CASE p = vme_publish
    BY <2>1, PublishRefused
  <2>2. CASE p = vme_select_count
    BY <2>2, SelectCountRefused DEF NullGoes
  <2>3. CASE p \in {vme_insert, vme_upsert, vme_patch, vme_execute, vme_query_source, vme_aggregate}
    <3>1. {} \in SUBSET {"params"}
      OBVIOUS
    <3> QED
      BY <2>3, <3>1, CheckingRefused DEF NullGoes
  <2> QED
    BY <1>4, <2>1, <2>2, <2>3 DEF vme_update
<1> QED
  BY <1>1, <1>2, <1>3, <1>4 DEF Requests

LEMMA TeardownRefused ==
  ASSUME NEW A
  PROVE  vme_teardown \in Seq(Stmt) /\ NullGoes(vme_teardown, A)
<1>1. vme_teardown \in Seq(Stmt)
  BY TeardownTakes DEF Takes, Trace
<1>2. vme_teardown # << >> /\ Head(vme_teardown) = Check(<< >>)
  BY DEF vme_teardown
<1> QED
  BY <1>1, <1>2, RefusedType DEF NullGoes, Checks, Refusal
-----------------------------------------------------------------------------
(* The inductive invariant.  A handle no call is made with is at rest, the *)
(* rest of the program that runs finds what it uses and leaves the handle  *)
(* at rest, or is on its way to refuse the null pointer, and a result that *)
(* is not freed has its blocks to itself.                                  *)
Idle == \A a \in Addr \ {cur} : AtRest(Has(heap, open, a))

Running ==
  IF cur = NULL THEN NullGoes(todo, Has(heap, open, NULL))
  ELSE \E B : AtRest(B) /\ Takes(Has(heap, open, cur), todo, B)

ResultsWhole ==
  \A r \in Slot : ~Free(r) => Pointed(r) \subseteq heap /\ \A b \in Pointed(r) : b.of = r

Inv == TypeOK /\ todo \in Seq(Stmt) /\ Idle /\ Running /\ ResultsWhole

(* A statement of a call changes the blocks of its handle alone. *)
Does(s, h) ==
  \/ s.op = "new" /\ heap' = heap \cup Blocks(h, s.kinds) /\ open' = open
  \/ s.op = "del" /\ heap' = heap \ Blocks(h, s.kinds) /\ open' = open
  \/ s.op = "open" /\ heap' = heap /\ open' = open \cup {h}
  \/ s.op = "close" /\ heap' = heap \ Blocks(h, s.kinds) /\ open' = open \ {h}
  \/ s.op \notin {"new", "del", "open", "close"} /\ heap' = heap /\ open' = open

LEMMA StepHas ==
  ASSUME NEW s \in Stmt, NEW h, Does(s, h)
  PROVE  /\ Has(heap', open', h) = Effect(s, Has(heap, open, h))
         /\ \A g : g # h => Has(heap', open', g) = Has(heap, open, g)
         /\ \A b : b.of # h => (b \in heap <=> b \in heap')
<1>1. Has(heap', open', h) = Effect(s, Has(heap, open, h))
  BY HasEffect DEF Does
<1>2. \A b : b.of # h => b \notin Blocks(h, s.kinds)
  BY DEF Blocks
<1>3. \A b : b.of # h => (b \in heap <=> b \in heap')
  BY <1>2 DEF Does
<1>4. ASSUME NEW g, g # h
      PROVE  Has(heap', open', g) = Has(heap, open, g)
  <2>1. g \in open' <=> g \in open
    BY <1>4 DEF Does
  <2>2. \A x \in Kind : [of |-> g, kind |-> x] \in heap' <=> [of |-> g, kind |-> x] \in heap
    BY <1>3, <1>4
  <2> QED
    BY <2>1, <2>2, HasElsewhere
<1> QED
  BY <1>1, <1>3, <1>4

LEMMA Owners ==
  /\ \A a \in Addr : a # NULL /\ a \notin Slot
  /\ NULL \notin Slot
BY VmeAssumption

(* Executing a statement with a handle that is not null. *)
LEMMA GoesOn ==
  ASSUME Inv, todo # << >>, cur # NULL, Go,
         Has(heap', open', cur) = Effect(Statement, Has(heap, open, cur))
  PROVE  Running' /\ todo' \in Seq(Stmt)
<1>1. PICK B : AtRest(B) /\ Takes(Has(heap, open, cur), todo, B)
  BY DEF Inv, Running
<1>2. Takes(Effect(Head(todo), Has(heap, open, cur)), Tail(todo), B)
  BY <1>1, HeadTakes
<1>3. cur' = cur /\ todo' = Tail(todo)
  BY DEF Go
<1>4. Takes(Has(heap', open', cur'), todo', B)
  BY <1>2, <1>3 DEF Statement
<1>5. todo' \in Seq(Stmt)
  BY <1>3, HeadTailProperties DEF Inv
<1> QED
  BY <1>1, <1>3, <1>4, <1>5 DEF Running

(* The next statement of a call, and what it finds. *)
LEMMA NextNeeds ==
  ASSUME Inv, todo # << >>, cur # NULL
  PROVE  Needs(Statement, Has(heap, open, cur))
BY HeadTakes DEF Inv, Running, Statement

LEMMA NullNext ==
  ASSUME NEW p, NEW A, p # << >>, NullGoes(p, A)
  PROVE  \/ \E k \in SUBSET Temporary : Head(p) = New(k) /\ Checks(Tail(p), A \cup k)
         \/ \E r \in Seq(Simple) : Head(p) = Check(r) /\ Refusal(r, A)
         \/ Head(p) = ErrorResult /\ Refusal(Tail(p), A)
         \/ \E k \in SUBSET Temporary :
              k \subseteq A /\ Head(p) = Del(k) /\ Tail(p) = << >>
<1>1. CASE Starts(p, A)
  BY <1>1 DEF Starts
<1>2. CASE Checks(p, A)
  BY <1>2 DEF Checks
<1>3. CASE Refusal(p, A)
  <2>1. CASE p = << ErrorResult >>
    <3>1. Head(p) = ErrorResult /\ Tail(p) = << >>
      BY <2>1
    <3> QED
      BY <3>1 DEF Refusal
  <2>2. ASSUME NEW k \in SUBSET Temporary, k \subseteq A, p = << ErrorResult, Del(k) >>
        PROVE  Head(p) = ErrorResult /\ Refusal(Tail(p), A)
    <3>1. Head(p) = ErrorResult /\ Tail(p) = << Del(k) >>
      BY <2>2
    <3> QED
      BY <2>2, <3>1 DEF Refusal
  <2>3. ASSUME NEW k \in SUBSET Temporary, k \subseteq A, p = << Del(k) >>
        PROVE  k \subseteq A /\ Head(p) = Del(k) /\ Tail(p) = << >>
    BY <2>3
  <2> QED
    BY <1>3, <2>1, <2>2, <2>3 DEF Refusal
<1> QED
  BY <1>1, <1>2, <1>3 DEF NullGoes
-----------------------------------------------------------------------------
LEMMA StatementType ==
  ASSUME Inv, todo # << >>
  PROVE  /\ Statement \in Stmt /\ Statement.kinds \in SUBSET Kind
         /\ Tail(todo) \in Seq(Stmt)
<1>1. Head(todo) \in Stmt /\ Tail(todo) \in Seq(Stmt)
  BY HeadTailProperties DEF Inv
<1> QED
  BY <1>1 DEF Statement, Stmt, Simple, Kind, HandlePart

LEMMA ProgramType ==
  ASSUME NEW p \in Seq(Stmt)
  PROVE  \A i \in 1 .. Len(p) : p[i].kinds \subseteq HandlePart \cup Temporary
<1>1. \A x \in Stmt : x.kinds \subseteq HandlePart \cup Temporary
  BY DEF Stmt, Simple, Kind, HandlePart
<1> QED
  BY <1>1

LEMMA ResultsKept ==
  ASSUME Inv, UNCHANGED results, \A b \in heap : b.of \in Slot => b \in heap'
  PROVE  ResultsWhole'
<1>1. \A r : Free(r)' = Free(r) /\ Pointed(r)' = Pointed(r)
  BY DEF Free, Pointed, Blocks
<1> QED
  BY <1>1 DEF Inv, ResultsWhole

LEMMA Executes ==
  ASSUME Inv, todo # << >>, Go, Does(Statement, cur), UNCHANGED results,
         Statement.op \notin {"vc_from_vme", "vme_error_result"}
  PROVE  Idle' /\ Running' /\ ResultsWhole' /\ todo' \in Seq(Stmt)
<1>1. cur' = cur /\ todo' = Tail(todo) /\ Statement \in Stmt /\ todo' \in Seq(Stmt)
  BY StatementType DEF Go
<1>2. /\ Has(heap', open', cur) = Effect(Statement, Has(heap, open, cur))
      /\ \A g : g # cur => Has(heap', open', g) = Has(heap, open, g)
      /\ \A b : b.of # cur => (b \in heap <=> b \in heap')
  BY <1>1, StepHas
<1>3. Idle'
  BY <1>1, <1>2 DEF Inv, Idle
<1>4. ResultsWhole'
  <2>1. cur \notin Slot
    BY Owners DEF Inv, TypeOK
  <2> QED
    BY <1>2, <2>1, ResultsKept
<1>5. CASE cur # NULL
  BY <1>1, <1>2, <1>3, <1>4, <1>5, GoesOn
<1>6. CASE cur = NULL
  <2> DEFINE A == Has(heap, open, cur)
  <2>1. NullGoes(todo, A)
    BY <1>6 DEF Inv, Running
  <2>2. ASSUME NEW k \in SUBSET Temporary, Head(todo) = New(k), Checks(Tail(todo), A \cup k)
        PROVE  NullGoes(Tail(todo), Has(heap', open', cur))
    <3>1. Effect(Statement, A) = A \cup k
      BY <2>2 DEF Statement, New, Effect
    <3> QED
      BY <1>2, <2>2, <3>1 DEF NullGoes
  <2>3. Tail(todo) = << >> => NullGoes(Tail(todo), Has(heap', open', cur))
    BY DEF NullGoes, Refusal
  <2>4. /\ \A r : Statement # Check(r)
        /\ Statement # ErrorResult
    BY DEF Check, ErrorResult
  <2>5. NullGoes(Tail(todo), Has(heap', open', cur))
    <3> HIDE DEF A
    <3> QED
      BY <2>1, <2>2, <2>3, <2>4, NullNext DEF Statement
  <2> QED
    BY <1>1, <1>3, <1>4, <1>6, <2>5 DEF Running
<1> QED
  BY <1>5, <1>6

LEMMA NewKeeps ==
  ASSUME Inv, StepNew
  PROVE  Inv'
<1>1. /\ todo # << >> /\ Statement.op = "new" /\ Go /\ heap' = heap \cup Blocks(cur, Statement.kinds)
      /\ open' = open /\ results' = results /\ cur' = cur
  BY DEF StepNew, At, Named, Go
<1>2. Idle' /\ Running' /\ ResultsWhole' /\ todo' \in Seq(Stmt)
  BY <1>1, Executes DEF Does
<1>3. Blocks(cur, Statement.kinds) \subseteq Block
  BY <1>1, StatementType DEF Inv, TypeOK, Blocks, Block, Kind
<1>4. TypeOK'
  BY <1>1, <1>2, <1>3, ProgramType DEF Inv, TypeOK
<1> QED
  BY <1>2, <1>4 DEF Inv

LEMMA UseKeeps ==
  ASSUME Inv, StepUse
  PROVE  Inv'
<1>1. /\ todo # << >> /\ Statement.op = "use" /\ Go /\ heap' = heap
      /\ open' = open /\ results' = results /\ cur' = cur
  BY DEF StepUse, At, Go
<1>2. Idle' /\ Running' /\ ResultsWhole' /\ todo' \in Seq(Stmt)
  BY <1>1, Executes DEF Does
<1>3. TypeOK'
  BY <1>1, <1>2, ProgramType DEF Inv, TypeOK
<1> QED
  BY <1>2, <1>3 DEF Inv

LEMMA DelKeeps ==
  ASSUME Inv, StepDel
  PROVE  Inv'
<1>1. /\ todo # << >> /\ Statement.op = "del" /\ Go /\ heap' = heap \ Blocks(cur, Statement.kinds)
      /\ open' = open /\ results' = results /\ cur' = cur
  BY DEF StepDel, At, Named, Go
<1>2. Idle' /\ Running' /\ ResultsWhole' /\ todo' \in Seq(Stmt)
  BY <1>1, Executes DEF Does
<1>3. TypeOK'
  BY <1>1, <1>2, ProgramType DEF Inv, TypeOK
<1> QED
  BY <1>2, <1>3 DEF Inv

(* A handle is opened and closed only by calls that have one. *)
LEMMA NoneOpened ==
  ASSUME Inv, todo # << >>, Statement.op \in {"open", "close", "may fail", "prepare_result"}
  PROVE  cur # NULL
<1> SUFFICES ASSUME cur = NULL PROVE FALSE
  OBVIOUS
<1>1. NullGoes(todo, Has(heap, open, cur))
  BY DEF Inv, Running
<1>2. /\ \A k : Statement # New(k) /\ Statement # Del(k)
      /\ \A r : Statement # Check(r)
      /\ Statement # ErrorResult
  <2>1. /\ \A k : New(k).op = "new" /\ Del(k).op = "del"
        /\ \A r : Check(r).op = "vc_from_vme"
        /\ ErrorResult.op = "vme_error_result"
    BY DEF Check, ErrorResult, New, Del
  <2>2. Statement.op \notin {"new", "del", "vc_from_vme", "vme_error_result"}
    OBVIOUS
  <2> QED
    BY <2>1, <2>2
<1> QED
  BY <1>1, <1>2, NullNext DEF Statement

LEMMA OpenKeeps ==
  ASSUME Inv, StepOpen
  PROVE  Inv'
<1>1. /\ todo # << >> /\ Statement.op = "open" /\ Go /\ heap' = heap
      /\ open' = open \cup {cur} /\ results' = results /\ cur' = cur
  BY DEF StepOpen, At, Go
<1>2. Idle' /\ Running' /\ ResultsWhole' /\ todo' \in Seq(Stmt)
  BY <1>1, Executes DEF Does
<1>3. cur \in Addr
  BY <1>1, NoneOpened DEF Inv, TypeOK
<1>4. TypeOK'
  BY <1>1, <1>2, <1>3, ProgramType DEF Inv, TypeOK
<1> QED
  BY <1>2, <1>4 DEF Inv

LEMMA CloseKeeps ==
  ASSUME Inv, StepClose
  PROVE  Inv'
<1>1. /\ todo # << >> /\ Statement.op = "close" /\ Go /\ heap' = heap \ Blocks(cur, Statement.kinds)
      /\ open' = open \ {cur} /\ results' = results /\ cur' = cur
  BY DEF StepClose, At, Named, Go
<1>2. Idle' /\ Running' /\ ResultsWhole' /\ todo' \in Seq(Stmt)
  BY <1>1, Executes DEF Does
<1>3. TypeOK'
  BY <1>1, <1>2, ProgramType DEF Inv, TypeOK
<1> QED
  BY <1>2, <1>3 DEF Inv

(* A vme_init that gives up leaves what it has, and nothing of it is       *)
(* temporary.                                                              *)
LEMMA FailKeeps ==
  ASSUME Inv, StepFail
  PROVE  Inv'
<1>1. /\ todo # << >> /\ Statement.op = "may fail" /\ todo' \in {<< >>, Tail(todo)}
      /\ heap' = heap /\ open' = open /\ results' = results /\ cur' = cur
  BY DEF StepFail, At
<1>2. cur # NULL
  BY <1>1, NoneOpened
<1>3. todo' \in Seq(Stmt)
  <2>1. << >> \in Seq(Stmt)
    OBVIOUS
  <2> QED
    BY <1>1, <2>1, StatementType
<1>4. Running'
  <2>1. CASE todo' = Tail(todo)
    <3>1. Go
      BY <1>1, <2>1 DEF Go
    <3>2. Does(Statement, cur)
      BY <1>1 DEF Does
    <3> QED
      BY <1>1, <3>1, <3>2, Executes
  <2>2. CASE todo' = << >>
    <3>1. AtRest(Has(heap, open, cur))
      BY <1>1, <1>2, NextNeeds DEF Needs
    <3>2. Takes(Has(heap, open, cur), << >>, Has(heap, open, cur))
      BY HasType, NothingTakes
    <3> QED
      BY <1>1, <1>2, <2>2, <3>1, <3>2 DEF Running
  <2> QED
    BY <1>1, <2>1, <2>2
<1>5. Idle'
  BY <1>1 DEF Inv, Idle
<1>6. ResultsWhole'
  BY <1>1, ResultsKept
<1>7. TypeOK'
  BY <1>1, <1>3, ProgramType DEF Inv, TypeOK
<1> QED
  BY <1>3, <1>4, <1>5, <1>6, <1>7 DEF Inv

LEMMA CheckKeeps ==
  ASSUME Inv, StepCheck
  PROVE  Inv'
<1>1. /\ todo # << >> /\ Statement.op = "vc_from_vme"
      /\ todo' = IF Valid THEN Tail(todo) ELSE Statement.refused
      /\ heap' = heap /\ open' = open /\ results' = results /\ cur' = cur
  BY DEF StepCheck, At
<1>2. Running' /\ todo' \in Seq(Stmt)
  <2>1. CASE cur # NULL
    <3>1. Go
      BY <1>1, <2>1 DEF Go, Valid
    <3>2. Has(heap', open', cur) = Effect(Statement, Has(heap, open, cur))
      BY <1>1 DEF Effect
    <3> QED
      BY <1>1, <2>1, <3>1, <3>2, GoesOn
  <2>2. CASE cur = NULL
    <3> DEFINE A == Has(heap, open, cur)
    <3>1. NullGoes(todo, A)
      BY <2>2 DEF Inv, Running
    <3>2. /\ \A k : Statement # New(k) /\ Statement # Del(k)
          /\ Statement # ErrorResult
      <4>1. /\ \A k : New(k).op = "new" /\ Del(k).op = "del"
            /\ ErrorResult.op = "vme_error_result"
        BY DEF ErrorResult, New, Del
      <4>2. Statement.op \notin {"new", "del", "vme_error_result"}
        BY <1>1
      <4> QED
        BY <4>1, <4>2
    <3> HIDE DEF A
    <3>3. PICK r \in Seq(Simple) : Statement = Check(r) /\ Refusal(r, A)
      BY <1>1, <3>1, <3>2, NullNext DEF Statement
    <3>4. todo' = r
      BY <1>1, <2>2, <3>3 DEF Valid, Check
    <3>5. r \in Seq(Stmt)
      <4>1. Len(r) \in Nat /\ DOMAIN r = 1 .. Len(r) /\ \A i \in 1 .. Len(r) : r[i] \in Stmt
        BY <3>3 DEF Stmt
      <4> QED
        BY <3>3 DEF Stmt
    <3> QED
      BY <1>1, <2>2, <3>3, <3>4, <3>5 DEF Running, NullGoes, A
  <2> QED
    BY <2>1, <2>2
<1>3. Idle'
  BY <1>1 DEF Inv, Idle
<1>4. ResultsWhole'
  BY <1>1, ResultsKept
<1>5. TypeOK'
  BY <1>1, <1>2, ProgramType DEF Inv, TypeOK
<1> QED
  BY <1>2, <1>3, <1>4, <1>5 DEF Inv

(* Blocks of results are none of a handle's. *)
LEMMA ResultHas ==
  ASSUME Inv, NEW g \in Addr \cup {NULL}, open' = open,
         \A b : b.of \notin Slot => (b \in heap' <=> b \in heap)
  PROVE  Has(heap', open', g) = Has(heap, open, g)
<1>1. g \notin Slot
  BY Owners
<1>2. \A x \in Kind : [of |-> g, kind |-> x] \in heap' <=> [of |-> g, kind |-> x] \in heap
  BY <1>1
<1> QED
  BY <1>2, HasElsewhere

(* A new result in a free slot, with blocks of its own. *)
LEMMA ResultAdded ==
  ASSUME Inv, NEW r \in Slot, Free(r), NEW X \in SUBSET Block, \A b \in X : b.of = r,
         heap' = heap \cup X, NEW v, results' = [results EXCEPT ![r] = v],
         v \in [vme_json_data : Block \cup {NULL}, vme_error_msg : Block \cup {NULL}],
         Blocks(r, {"vme_result_t"}) \subseteq X,
         v.vme_json_data \in X \cup {NULL}, v.vme_error_msg \in X \cup {NULL}
  PROVE  /\ ResultsWhole' /\ heap' \subseteq Block
         /\ results' \in [Slot -> {NULL} \cup
              [vme_json_data : Block \cup {NULL}, vme_error_msg : Block \cup {NULL}]]
<1>1. heap' \subseteq Block
  BY DEF Inv, TypeOK
<1>2. results' \in [Slot -> {NULL} \cup
        [vme_json_data : Block \cup {NULL}, vme_error_msg : Block \cup {NULL}]]
  BY DEF Inv, TypeOK
<1>3. results'[r] = v /\ \A q \in Slot : q # r => results'[q] = results[q]
  BY DEF Inv, TypeOK
<1>4. ASSUME NEW q \in Slot, ~Free(q)'
      PROVE  Pointed(q)' \subseteq heap' /\ \A b \in Pointed(q)' : b.of = q
  <2>1. CASE q = r
    <3>1. Pointed(q)' \subseteq X
      BY <1>3, <2>1 DEF Pointed, Blocks
    <3> QED
      BY <2>1, <3>1
  <2>2. CASE q # r
    <3>1. ~Free(q) /\ Pointed(q)' = Pointed(q)
      BY <1>3, <1>4, <2>2 DEF Free, Pointed, Blocks
    <3> QED
      BY <3>1 DEF Inv, ResultsWhole
  <2> QED
    BY <2>1, <2>2
<1> QED
  BY <1>1, <1>2, <1>4 DEF ResultsWhole

LEMMA ResultKeeps ==
  ASSUME Inv, StepResult
  PROVE  Inv'
<1>1. /\ todo # << >> /\ Statement.op = "prepare_result" /\ Go /\ open' = open
      /\ cur' = cur /\ todo' = Tail(todo)
  BY DEF StepResult, At, Go
<1>2. PICK r \in Slot, failed \in BOOLEAN, body \in BOOLEAN, refused \in BOOLEAN :
        LET text == [of |-> r, kind |-> "error_text"]
            copy == BodyCopy(r, IF refused THEN "server_error" ELSE "json_data")
        IN  /\ Free(r)
            /\ heap' = heap \cup Blocks(r, {"vme_result_t"})
                            \cup {b \in {text} : failed} \cup {b \in {copy} : body}
            /\ results' = [results EXCEPT ![r] =
                 [vme_json_data |-> IF body /\ ~refused THEN copy ELSE Cleared,
                  vme_error_msg |-> IF body /\ refused THEN copy
                                    ELSE IF failed THEN text ELSE Cleared]]
  BY DEF StepResult
<1> DEFINE text == [of |-> r, kind |-> "error_text"]
           copy == BodyCopy(r, IF refused THEN "server_error" ELSE "json_data")
           X == Blocks(r, {"vme_result_t"}) \cup {b \in {text} : failed} \cup {b \in {copy} : body}
           v == [vme_json_data |-> IF body /\ ~refused THEN copy ELSE Cleared,
                 vme_error_msg |-> IF body /\ refused THEN copy
                                   ELSE IF failed THEN text ELSE Cleared]
<1>3. text \in Block /\ copy \in Block /\ text.of = r /\ copy.of = r
  BY DEF Block, ResultPart, BodyCopy
<1>4. Blocks(r, {"vme_result_t"}) \subseteq Block /\ \A b \in Blocks(r, {"vme_result_t"}) : b.of = r
  BY DEF Block, Blocks, ResultPart
<1>5. heap' = heap \cup X /\ results' = [results EXCEPT ![r] = v] /\ Free(r)
  BY <1>2
<1> HIDE DEF text, copy
<1>6. X \in SUBSET Block /\ (\A b \in X : b.of = r) /\ Blocks(r, {"vme_result_t"}) \subseteq X
  BY <1>3, <1>4
<1>7. /\ v \in [vme_json_data : Block \cup {NULL}, vme_error_msg : Block \cup {NULL}]
      /\ v.vme_json_data \in X \cup {NULL} /\ v.vme_error_msg \in X \cup {NULL}
  BY <1>3 DEF Cleared
<1> HIDE DEF X, v
<1>8. /\ ResultsWhole' /\ heap' \subseteq Block
      /\ results' \in [Slot -> {NULL} \cup
           [vme_json_data : Block \cup {NULL}, vme_error_msg : Block \cup {NULL}]]
  BY <1>5, <1>6, <1>7, ResultAdded
<1>9. \A g \in Addr \cup {NULL} : Has(heap', open', g) = Has(heap, open, g)
  <2>1. \A b : b.of \notin Slot => (b \in heap' <=> b \in heap)
    BY <1>5, <1>6
  <2> QED
    BY <1>1, <2>1, ResultHas
<1>10. cur # NULL /\ cur \in Addr
  BY <1>1, NoneOpened DEF Inv, TypeOK
<1>11. Running' /\ todo' \in Seq(Stmt)
  <2>1. Effect(Statement, Has(heap, open, cur)) = Has(heap, open, cur)
    BY <1>1 DEF Effect
  <2> QED
    BY <1>1, <1>9, <1>10, <2>1, GoesOn
<1>12. Idle'
  BY <1>1, <1>9 DEF Inv, Idle
<1>13. TypeOK'
  BY <1>1, <1>8, <1>11, ProgramType DEF Inv, TypeOK
<1> QED
  BY <1>8, <1>11, <1>12, <1>13 DEF Inv

LEMMA ErrorKeeps ==
  ASSUME Inv, StepError
  PROVE  Inv'
<1>1. /\ todo # << >> /\ Statement.op = "vme_error_result" /\ Go /\ open' = open
      /\ cur' = cur /\ todo' = Tail(todo)
  BY DEF StepError, At, Go
<1>2. PICK r \in Slot :
        /\ Free(r)
        /\ heap' = heap \cup Blocks(r, {"vme_result_t", "error_text"})
        /\ results' = [results EXCEPT ![r] =
             [vme_json_data |-> NULL,
              vme_error_msg |-> [of |-> r, kind |-> "error_text"]]]
  BY DEF StepError
<1> DEFINE text == [of |-> r, kind |-> "error_text"]
           X == Blocks(r, {"vme_result_t", "error_text"})
           v == [vme_json_data |-> NULL, vme_error_msg |-> text]
<1>3. /\ X \in SUBSET Block /\ (\A b \in X : b.of = r) /\ Blocks(r, {"vme_result_t"}) \subseteq X
      /\ text \in X
  BY DEF Block, Blocks, ResultPart
<1>4. heap' = heap \cup X /\ results' = [results EXCEPT ![r] = v] /\ Free(r)
  BY <1>2
<1> HIDE DEF text, X
<1>5. /\ v \in [vme_json_data : Block \cup {NULL}, vme_error_msg : Block \cup {NULL}]
      /\ v.vme_json_data \in X \cup {NULL} /\ v.vme_error_msg \in X \cup {NULL}
  BY <1>3
<1> HIDE DEF v
<1>6. /\ ResultsWhole' /\ heap' \subseteq Block
      /\ results' \in [Slot -> {NULL} \cup
           [vme_json_data : Block \cup {NULL}, vme_error_msg : Block \cup {NULL}]]
  BY <1>3, <1>4, <1>5, ResultAdded
<1>7. \A g \in Addr \cup {NULL} : Has(heap', open', g) = Has(heap, open, g)
  <2>1. \A b : b.of \notin Slot => (b \in heap' <=> b \in heap)
    BY <1>3, <1>4
  <2> QED
    BY <1>1, <2>1, ResultHas
<1>8. Running' /\ todo' \in Seq(Stmt)
  <2>1. CASE cur # NULL
    <3>1. Effect(Statement, Has(heap, open, cur)) = Has(heap, open, cur)
      BY <1>1 DEF Effect
    <3>2. cur \in Addr
      BY <2>1 DEF Inv, TypeOK
    <3> QED
      BY <1>1, <1>7, <2>1, <3>1, <3>2, GoesOn
  <2>2. CASE cur = NULL
    <3> DEFINE A == Has(heap, open, cur)
    <3>1. NullGoes(todo, A)
      BY <2>2 DEF Inv, Running
    <3>2. /\ \A k : Statement # New(k) /\ Statement # Del(k)
          /\ \A q : Statement # Check(q)
      <4>1. /\ \A k : New(k).op = "new" /\ Del(k).op = "del"
            /\ \A q : Check(q).op = "vc_from_vme"
        BY DEF New, Del, Check
      <4>2. Statement.op \notin {"new", "del", "vc_from_vme"}
        BY <1>1
      <4> QED
        BY <4>1, <4>2
    <3> HIDE DEF A
    <3>3. Refusal(Tail(todo), A)
      BY <1>1, <3>1, <3>2, NullNext DEF Statement
    <3>4. Has(heap', open', NULL) = A
      BY <1>7, <2>2 DEF A
    <3> QED
      BY <1>1, <2>2, <3>3, <3>4, StatementType DEF Running, NullGoes
  <2> QED
    BY <2>1, <2>2
<1>9. Idle'
  BY <1>1, <1>7 DEF Inv, Idle
<1>10. TypeOK'
  BY <1>1, <1>6, <1>8, ProgramType DEF Inv, TypeOK
<1> QED
  BY <1>6, <1>8, <1>9, <1>10 DEF Inv

LEMMA FreeKeeps ==
  ASSUME Inv, vme_free_result
  PROVE  Inv'
<1>1. todo = << >> /\ open' = open /\ cur' = cur /\ todo' = todo
  BY DEF vme_free_result
<1>2. PICK r \in Slot : ~Free(r) /\ heap' = heap \ Pointed(r) /\ results' = [results EXCEPT ![r] = NULL]
  BY DEF vme_free_result
<1>3. \A b \in Pointed(r) : b.of = r
  BY <1>2 DEF Inv, ResultsWhole
<1>4. results'[r] = NULL /\ \A q \in Slot : q # r => results'[q] = results[q]
  BY <1>2 DEF Inv, TypeOK
<1>5. ResultsWhole'
  <2> SUFFICES ASSUME NEW q \in Slot, ~Free(q)'
               PROVE  Pointed(q)' \subseteq heap' /\ \A b \in Pointed(q)' : b.of = q
    BY DEF ResultsWhole
  <2>1. q # r
    BY <1>4 DEF Free
  <2>2. ~Free(q) /\ Pointed(q)' = Pointed(q)
    BY <1>4, <2>1 DEF Free, Pointed, Blocks
  <2>3. Pointed(q) \subseteq heap /\ \A b \in Pointed(q) : b.of = q
    BY <2>2 DEF Inv, ResultsWhole
  <2> QED
    BY <1>2, <1>3, <2>1, <2>2, <2>3
<1>6. \A g \in Addr \cup {NULL} : Has(heap', open', g) = Has(heap, open, g)
  <2>1. \A b : b.of \notin Slot => (b \in heap' <=> b \in heap)
    BY <1>2, <1>3
  <2> QED
    BY <1>1, <2>1, ResultHas
<1>7. Idle'
  BY <1>1, <1>6 DEF Inv, Idle
<1>8. Running'
  <2>1. cur \in Addr \cup {NULL}
    BY DEF Inv, TypeOK
  <2>2. Has(heap', open', cur) = Has(heap, open, cur)
    BY <1>6, <2>1
  <2> QED
    BY <1>1, <2>2 DEF Inv, Running
<1>9. TypeOK'
  <2>1. heap' \subseteq Block
    BY <1>2 DEF Inv, TypeOK
  <2>2. results' \in [Slot -> {NULL} \cup
          [vme_json_data : Block \cup {NULL}, vme_error_msg : Block \cup {NULL}]]
    BY <1>2 DEF Inv, TypeOK
  <2> QED
    BY <1>1, <2>1, <2>2 DEF Inv, TypeOK
<1>10. todo' \in Seq(Stmt)
  BY <1>1 DEF Inv
<1> QED
  BY <1>5, <1>7, <1>8, <1>9, <1>10 DEF Inv
-----------------------------------------------------------------------------
(* Between two calls, every handle is at rest. *)
LEMMA AllAtRest ==
  ASSUME Inv, todo = << >>, NEW a \in Addr
  PROVE  AtRest(Has(heap, open, a))
<1>1. CASE a # cur
  BY <1>1 DEF Inv, Idle
<1>2. CASE a = cur
  <2>1. cur # NULL
    BY <1>2, Owners
  <2>2. PICK B : AtRest(B) /\ Takes(Has(heap, open, cur), << >>, B)
    BY <2>1 DEF Inv, Running
  <2>3. PICK t \in Seq(SUBSET All) :
          Trace(<< >>, t) /\ t[1] = Has(heap, open, cur) /\ t[Len(t)] = B
    BY <2>2 DEF Takes
  <2>4. Len(t) = 1
    BY <2>3 DEF Trace
  <2> QED
    BY <1>2, <2>2, <2>3, <2>4
<1> QED
  BY <1>1, <1>2

LEMMA RestTypes == AtRest(Whole) /\ AtRest({"server_url"})
BY DEF AtRest, Whole, HandlePart, Temporary

(* An open handle at rest has all its parts; a free address has none but   *)
(* the server_url of a handle that is gone.                                *)
LEMMA OpenHasAll ==
  ASSUME Inv, todo = << >>, NEW a \in open
  PROVE  Has(heap, open, a) = Whole
<1>1. a \in Addr
  BY DEF Inv, TypeOK
<1>2. AtRest(Has(heap, open, a)) /\ Has(heap, open, a) \in SUBSET All
  BY <1>1, AllAtRest, HasType
<1>3. "open" \in Has(heap, open, a)
  BY DEF Has
<1> QED
  BY <1>2, <1>3 DEF AtRest, Whole, All, Kind

LEMMA FreeHasNone ==
  ASSUME Inv, todo = << >>, NEW a \in Addr, Blocks(a, {"vantiq_client_t"}) \cap heap = {}
  PROVE  Has(heap, open, a) \in SUBSET {"server_url"}
<1>1. AtRest(Has(heap, open, a))
  BY AllAtRest
<1>2. "vantiq_client_t" \notin Has(heap, open, a)
  BY DEF Has, Blocks
<1> QED
  BY <1>1, <1>2 DEF AtRest

LEMMA EnterKeeps ==
  ASSUME Inv, NEW h \in Addr \cup {NULL}, NEW p \in Seq(Stmt), Enter(h, p),
         h = NULL => NullGoes(p, Has(heap, open, NULL)),
         h # NULL => \E B : AtRest(B) /\ Takes(Has(heap, open, h), p, B)
  PROVE  Inv'
<1>1. /\ todo = << >> /\ cur' = h /\ todo' = p
      /\ heap' = heap /\ open' = open /\ results' = results
  BY DEF Enter
<1>2. Idle'
  BY <1>1, AllAtRest DEF Idle
<1>3. Running'
  BY <1>1 DEF Running
<1>4. ResultsWhole'
  BY <1>1, ResultsKept
<1>5. TypeOK'
  BY <1>1, ProgramType DEF Inv, TypeOK
<1> QED
  BY <1>1, <1>2, <1>3, <1>4, <1>5 DEF Inv

LEMMA CallInitKeeps ==
  ASSUME Inv, CallInit
  PROVE  Inv'
<1>1. PICK a \in Addr : Blocks(a, {"vantiq_client_t"}) \cap heap = {} /\ Enter(a, vme_init)
  BY DEF CallInit
<1>2. Has(heap, open, a) \in SUBSET {"server_url"}
  BY <1>1, FreeHasNone DEF Enter
<1>3. Takes(Has(heap, open, a), vme_init, Whole)
  BY <1>2, InitTakes
<1>4. vme_init \in Seq(Stmt)
  BY <1>3 DEF Takes, Trace
<1>5. a # NULL
  BY Owners
<1> QED
  BY <1>1, <1>3, <1>4, <1>5, RestTypes, EnterKeeps

LEMMA CallRequestKeeps ==
  ASSUME Inv, CallRequest
  PROVE  Inv'
<1>1. PICK h \in open \cup {NULL}, p \in Requests : Enter(h, p)
  BY DEF CallRequest
<1>2. p \in Seq(Stmt) /\ NullGoes(p, Has(heap, open, NULL))
  BY RequestsRefused
<1>3. h # NULL => Takes(Has(heap, open, h), p, Whole)
  BY <1>1, OpenHasAll, RequestsTake DEF Enter
<1>4. h \in Addr \cup {NULL}
  BY DEF Inv, TypeOK
<1> QED
  BY <1>1, <1>2, <1>3, <1>4, RestTypes, EnterKeeps

LEMMA CallTeardownKeeps ==
  ASSUME Inv, CallTeardown
  PROVE  Inv'
<1>1. PICK h \in open \cup {NULL} : Enter(h, vme_teardown)
  BY DEF CallTeardown
<1>2. vme_teardown \in Seq(Stmt) /\ NullGoes(vme_teardown, Has(heap, open, NULL))
  BY TeardownRefused
<1>3. h # NULL => Takes(Has(heap, open, h), vme_teardown, {"server_url"})
  BY <1>1, OpenHasAll, TeardownTakes DEF Enter
<1>4. h \in Addr \cup {NULL}
  BY DEF Inv, TypeOK
<1> QED
  BY <1>1, <1>2, <1>3, <1>4, RestTypes, EnterKeeps

LEMMA InitInv ==
  ASSUME Init
  PROVE  Inv
<1>1. heap = {} /\ open = {} /\ results = [r \in Slot |-> NULL] /\ cur = NULL /\ todo = << >>
  BY DEF Init
<1>2. todo \in Seq(Stmt)
  BY <1>1
<1>3. TypeOK
  BY <1>1 DEF TypeOK
<1>4. Idle
  <2>1. \A a \in Addr : Has(heap, open, a) = {}
    BY <1>1 DEF Has
  <2>2. AtRest({})
    BY DEF AtRest
  <2> QED
    BY <2>1, <2>2 DEF Idle
<1>5. Running
  BY <1>1 DEF Running, NullGoes, Refusal
<1>6. ResultsWhole
  BY <1>1 DEF ResultsWhole, Free
<1> QED
  BY <1>2, <1>3, <1>4, <1>5, <1>6 DEF Inv

LEMMA StepKeeps ==
  ASSUME Inv, [Next]_vars
  PROVE  Inv'
<1>1. CASE UNCHANGED vars
  <2>1. heap' = heap /\ open' = open /\ results' = results /\ cur' = cur /\ todo' = todo
    BY <1>1 DEF vars
  <2>2. Idle' /\ Running'
    BY <2>1 DEF Inv, Idle, Running
  <2>3. ResultsWhole'
    BY <2>1, ResultsKept
  <2>4. TypeOK' /\ todo' \in Seq(Stmt)
    BY <2>1 DEF Inv, TypeOK
  <2> QED
    BY <2>2, <2>3, <2>4 DEF Inv
<1>2. CASE Step
  BY <1>2, NewKeeps, UseKeeps, DelKeeps, FailKeeps, OpenKeeps, CloseKeeps, CheckKeeps, ResultKeeps,
     ErrorKeeps DEF Step
<1> QED
  BY <1>1, <1>2, CallInitKeeps, CallRequestKeeps, CallTeardownKeeps, FreeKeeps DEF Next

(* The inductive invariant holds throughout. *)
THEOREM Invariance == Spec => []Inv
<1>1. Init => Inv
  BY InitInv
<1>2. Inv /\ [Next]_vars => Inv'
  BY StepKeeps
<1> QED
  BY <1>1, <1>2, PTL DEF Spec
-----------------------------------------------------------------------------
(* Every variable has its type, for any number of handles and results. *)
THEOREM TypeCorrect == Spec => []TypeOK
<1>1. Inv => TypeOK
  BY DEF Inv
<1> QED
  BY <1>1, Invariance, PTL

(* No entry point, and not vme_free_result, uses or frees a block that is  *)
(* not allocated then, in whatever order the application makes its calls   *)
(* with whatever handles.                                                  *)
THEOREM UsesAreLive == Spec => []UsesLive
<1>1. ASSUME Inv
      PROVE  UsesLive
  <2>1. \A r \in Slot : ~Free(r) => Pointed(r) \subseteq heap
    BY <1>1 DEF Inv, ResultsWhole
  <2>2. ASSUME todo # << >>, Statement.op # "new", ~(Statement.op = "vc_from_vme" /\ cur = NULL)
        PROVE  Named \subseteq heap
    <3>1. Statement.kinds \subseteq Has(heap, open, cur)
      <4>1. CASE cur # NULL
        BY <1>1, <2>2, <4>1, NextNeeds DEF Needs
      <4>2. CASE cur = NULL
        <5> DEFINE A == Has(heap, open, cur)
        <5>1. NullGoes(todo, A)
          BY <1>1, <4>2 DEF Inv, Running
        <5>2. (\A k : Statement # New(k)) /\ \A r : Statement # Check(r)
          <6>1. (\A k : New(k).op = "new") /\ \A r : Check(r).op = "vc_from_vme"
            BY DEF New, Check
          <6> QED
            BY <2>2, <4>2, <6>1
        <5> HIDE DEF A
        <5>3. CASE Statement = ErrorResult
          BY <5>3 DEF ErrorResult
        <5>4. CASE \E k \in SUBSET Temporary : k \subseteq A /\ Statement = Del(k)
          BY <5>4 DEF Del, A
        <5> QED
          BY <2>2, <5>1, <5>2, <5>3, <5>4, NullNext DEF Statement
      <4> QED
        BY <4>1, <4>2
    <3>2. Statement.kinds \in SUBSET Kind
      BY <1>1, <2>2, StatementType
    <3> QED
      BY <3>1, <3>2, HasBlocks DEF Named
  <2> QED
    BY <2>1, <2>2 DEF UsesLive, At
<1> QED
  BY <1>1, Invariance, PTL

(* No two results, and no result and handle, share a block; and the parts  *)
(* of an open handle stay allocated between its calls.                     *)
THEOREM OwnershipApart == Spec => []OwnedApart
<1>1. ASSUME Inv
      PROVE  OwnedApart
  <2>1. \A r \in Slot : ~Free(r) => \A b \in Pointed(r) : b.of = r
    BY <1>1 DEF Inv, ResultsWhole
  <2>2. ASSUME NEW a \in open, a # cur \/ todo = << >>
        PROVE  Blocks(a, HandlePart) \subseteq heap
    <3>1. a \in Addr
      BY <1>1 DEF Inv, TypeOK
    <3>2. AtRest(Has(heap, open, a))
      BY <1>1, <2>2, <3>1, AllAtRest DEF Inv, Idle
    <3>3. "open" \in Has(heap, open, a)
      BY DEF Has
    <3>4. HandlePart \subseteq Has(heap, open, a) /\ HandlePart \in SUBSET Kind
      BY <3>2, <3>3 DEF AtRest, Kind
    <3> QED
      BY <3>4, HasBlocks
  <2> QED
    BY <2>1, <2>2 DEF OwnedApart
<1> QED
  BY <1>1, Invariance, PTL

(* Between calls nothing temporary of a handle is allocated, and of one    *)
(* that was torn down nothing but server_url.                              *)
THEOREM TemporariesAreFreed == Spec => []TemporariesFreed
<1>1. ASSUME Inv, todo = << >>, NEW a \in Addr
      PROVE  /\ Blocks(a, Temporary) \cap heap = {}
             /\ Blocks(a, {"vantiq_client_t"}) \cap heap = {} =>
                  Blocks(a, HandlePart \ {"server_url"}) \cap heap = {}
  <2>1. AtRest(Has(heap, open, a))
    BY <1>1, AllAtRest
  <2>2. \A k \in Kind : [of |-> a, kind |-> k] \in heap => k \in Has(heap, open, a)
    BY DEF Has
  <2>3. Blocks(a, Temporary) \cap heap = {}
    BY <2>1, <2>2 DEF AtRest, Blocks, Kind
  <2>4. ASSUME Blocks(a, {"vantiq_client_t"}) \cap heap = {}
        PROVE  Blocks(a, HandlePart \ {"server_url"}) \cap heap = {}
    <3>1. Has(heap, open, a) \in SUBSET {"server_url"}
      BY <1>1, <2>4, FreeHasNone
    <3> QED
      BY <2>2, <3>1 DEF Blocks, Kind
  <2> QED
    BY <2>3, <2>4
<1>2. Inv => TemporariesFreed
  BY <1>1 DEF TemporariesFreed
<1> QED
  BY <1>2, Invariance, PTL
=============================================================================

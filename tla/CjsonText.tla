----------------------------- MODULE CjsonText -----------------------------
(***************************************************************************)
(* The texts of src/vme/cjson.c: printing an item into a buffer that grows *)
(* or is given, parsing a text into items, comparing two items and taking  *)
(* the blanks out of a text.  A text is a sequence of bytes, an item a     *)
(* record with its members in order.                                       *)
(*                                                                         *)
(* Numbers are integers or not finite: how sprintf and strtod write and    *)
(* read a fraction or an exponent is left out.  The buffers' sizes are     *)
(* constants, so that small texts reach their limits.                      *)
(***************************************************************************)
EXTENDS Integers, FiniteSetsExt, SequencesExt, TLC

CONSTANTS
  INT_MAX,               \* the greatest int
  Memory,                \* what the greatest block may be that the allocator gives
  CJSON_NESTING_LIMIT,   \* 1000 in the code
  default_buffer_size,   \* 256 in the code
  NumberBuffer,          \* 26 in print_number
  NumberString,          \* 64 in parse_number
  NotFinite,             \* a double that is infinite
  Value,                 \* the items that are printed
  Spelling,              \* texts, and how another program may write them in quotes
  Pads,                  \* what may stand before and after a value: pairs of texts
  Comments,              \* the comments that may stand there: pairs of texts
  Rooms,                 \* the first sizes a print with a buffer of its own is given
  MaxSpare               \* how much more room than its text a given buffer may have

ASSUME TextAssumption ==
  /\ {INT_MAX, CJSON_NESTING_LIMIT, default_buffer_size} \subseteq Nat
  /\ Memory \subseteq Nat /\ NumberBuffer \in Nat \ {0}
  /\ NumberString \in Nat /\ NumberBuffer <= NumberString

NUL == 0
TAB == 9
NEWLINE == 10
CR == 13
BLANK == 32
QUOTE == 34
STAR == 42
PLUS == 43
COMMA == 44
MINUS == 45
SLASH == 47
ZERO == 48
COLON == 58
BACKSLASH == 92
LETTER_u == 117
Digit == ZERO .. ZERO + 9
Word(type) ==
  CASE type = "null" -> <<110, 117, 108, 108>>
    [] type = "true" -> <<116, 114, 117, 101>>
    [] type = "false" -> <<102, 97, 108, 115, 101>>
Open(type) == IF type = "array" THEN 91 ELSE 123
Close(type) == Open(type) + 2
BOM == <<239, 187, 191>>

(* The int kept beside a number. *)
Saturate(n) ==
  IF n = NotFinite \/ n >= INT_MAX THEN INT_MAX ELSE IF n <= -INT_MAX - 1 THEN -INT_MAX - 1 ELSE n

(* An item: what it is, what it holds, and the name it has in an object. *)
Bare(type) ==
  [type |-> type, number |-> 0, valueint |-> 0, text |-> << >>, key |-> << >>, kids |-> << >>]

CreateNumber(n) == [Bare("number") EXCEPT !.number = n, !.valueint = Saturate(n)]

(* How many bytes of b[from ..], from counted from 0, come before a NUL. *)
RECURSIVE strlen(_, _)
strlen(b, from) ==
  IF from >= Len(b) \/ b[from + 1] = NUL THEN 0 ELSE 1 + strlen(b, from + 1)

CString(s) == SubSeq(s, 1, strlen(s, 0))

-----------------------------------------------------------------------------
(* The buffer of a print.  ok says that no call has failed, over that a    *)
(* byte behind its end was written or read, held how often each block is   *)
(* still to be freed: the one in p.buffer, and the one that print returns. *)
(* A byte not yet written may be anything but NUL.                         *)
Junk == 1
NewBuffer(size, noalloc, format, realloc, memory) ==
  [data |-> [k \in 1 .. size |-> Junk], offset |-> 0, depth |-> 0, noalloc |-> noalloc,
   format |-> format, realloc |-> realloc, memory |-> memory,
   ok |-> TRUE, over |-> FALSE, held |-> [buffer |-> 1, printed |-> 0]]

Fail(p) == [p EXCEPT !.ok = FALSE]

(* The first block of a print, or none when there is no memory for it.     *)
Allocated(size, format, realloc, memory) ==
  LET p == NewBuffer(size, FALSE, format, realloc, memory)
  IN  IF size <= memory THEN p ELSE Fail([p EXCEPT !.data = << >>, !.held.buffer = 0])

(* The bytes s are stored from position at on. *)
Store(p, at, s) ==
  [p EXCEPT !.data = [k \in DOMAIN @ |-> IF k - at \in DOMAIN s THEN s[k - at] ELSE @[k]],
            !.over = @ \/ at + Len(s) > Len(p.data)]

(* realloc keeps every byte; without it the bytes up to the offset and one *)
(* more are copied.  When there is no memory the block is freed at once.    *)
Grow(p, size) ==
  IF size > p.memory THEN Fail([p EXCEPT !.data = << >>, !.held.buffer = @ - 1])
  ELSE LET kept == IF p.realloc THEN Len(p.data) ELSE p.offset + 1
       IN  [p EXCEPT !.data = [k \in 1 .. size |-> IF k <= kept THEN @[k] ELSE Junk]]

(* Fault: the room is computed from the beginning of the buffer. *)
EnsureFromStart(p, asked) ==
  IF ~p.ok THEN p
  ELSE IF asked + 1 <= Len(p.data) THEN p
  ELSE IF p.noalloc THEN Fail(p) ELSE Grow(p, 2 * (asked + 1))

(* The bytes asked for and one more are at hand, or the print fails. *)
ensure(p, asked) ==
  LET needed == asked + p.offset + 1
  IN  IF ~p.ok \/ (Len(p.data) > 0 /\ p.offset >= Len(p.data)) \/ asked > INT_MAX THEN Fail(p)
      ELSE IF needed <= Len(p.data) THEN p
      ELSE IF p.noalloc \/ needed > INT_MAX THEN Fail(p)
      ELSE Grow(p, IF needed > INT_MAX \div 2 THEN INT_MAX ELSE needed * 2)

update_offset(p) ==
  IF ~p.ok THEN p
  ELSE LET n == strlen(p.data, p.offset)
       IN  [p EXCEPT !.offset = @ + n, !.over = @ \/ p.offset + n >= Len(p.data)]

(* Room is asked for, s is stored, and the offset moves on. *)
Emit(p, asked, s, advance) ==
  LET e == ensure(p, asked)
  IN  IF ~e.ok THEN e ELSE [Store(e, e.offset, s) EXCEPT !.offset = @ + advance]

Tabs(n) == [k \in 1 .. n |-> TAB]

RECURSIVE Decimal(_)
Decimal(n) ==
  IF n < 0 THEN <<MINUS>> \o Decimal(-n)
  ELSE IF n < 10 THEN <<ZERO + n>>
  ELSE Append(Decimal(n \div 10), ZERO + (n % 10))

print_number(n, p) ==
  LET s == IF n = NotFinite THEN Word("null") ELSE Decimal(n)
  IN  IF Len(s) > NumberBuffer - 1 THEN Fail(p)
      ELSE Emit(p, Len(s) + 1, Append(s, NUL), Len(s))

(* The letter of a one-character escape. *)
Letter == (QUOTE :> QUOTE) @@ (BACKSLASH :> BACKSLASH) @@ (8 :> 98) @@ (12 :> 102)
            @@ (NEWLINE :> 110) @@ (CR :> 114) @@ (TAB :> 116)

Hex(n) == IF n < 10 THEN ZERO + n ELSE 97 + n - 10

(* Fault: the u of a \u escape is not counted. *)
EscapeCharsFour(b) == IF b \in DOMAIN Letter THEN 1 ELSE IF b < 32 THEN 4 ELSE 0

EscapeChars(b) == IF b \in DOMAIN Letter THEN 1 ELSE IF b < 32 THEN 5 ELSE 0

Escaped(b) ==
  IF EscapeChars(b) = 0 THEN <<b>>
  ELSE IF b \in DOMAIN Letter THEN <<BACKSLASH, Letter[b]>>
  ELSE <<BACKSLASH, LETTER_u, ZERO, ZERO, Hex(b \div 16), Hex(b % 16)>>

output_length(s) == FoldSeq(LAMBDA b, n : n + 1 + EscapeChars(b), 0, s)

(* The closing quote goes where the length counted says. *)
print_string_ptr(s, p) ==
  LET n == output_length(s)
      e == ensure(p, n + 3)
      body == Store(e, e.offset, <<QUOTE>> \o FlattenSeq([k \in DOMAIN s |-> Escaped(s[k])]))
  IN  IF ~e.ok THEN e ELSE Store(body, e.offset + n + 1, <<QUOTE, NUL>>)

RECURSIVE print_value(_, _)
RECURSIVE PrintElements(_, _)
RECURSIVE PrintMembers(_, _)

(* What a formatted print adds. *)
Layout(p, s) == IF p.format THEN s ELSE << >>

PrintElements(kids, p) ==
  IF kids = << >> \/ ~p.ok THEN p
  ELSE LET value == update_offset(print_value(Head(kids), p))
           comma == <<COMMA>> \o Layout(p, <<BLANK>>)
       IN  PrintElements(Tail(kids),
             IF Len(kids) = 1 THEN value
             ELSE Emit(value, Len(comma) + 1, Append(comma, NUL), Len(comma)))

print_array(v, p) ==
  LET open == [Emit(p, 1, <<Open("array")>>, 1) EXCEPT !.depth = @ + 1]
  IN  [Emit(PrintElements(v.kids, open), 2, <<Close("array"), NUL>>, 0) EXCEPT !.depth = @ - 1]

PrintMembers(kids, p) ==
  IF kids = << >> \/ ~p.ok THEN p
  ELSE LET tabs == IF p.format THEN Emit(p, p.depth, Tabs(p.depth), p.depth) ELSE p
           key == IF tabs.ok THEN update_offset(print_string_ptr(Head(kids).key, tabs)) ELSE tabs
           colon == <<COLON>> \o Layout(p, <<TAB>>)
           named == Emit(key, Len(colon), colon, Len(colon))
           value == IF named.ok THEN update_offset(print_value(Head(kids), named)) ELSE named
           comma == (IF Len(kids) = 1 THEN << >> ELSE <<COMMA>>) \o Layout(p, <<NEWLINE>>)
       IN  PrintMembers(Tail(kids), Emit(value, Len(comma) + 1, Append(comma, NUL), Len(comma)))

print_object(v, p) ==
  LET brace == <<Open("object")>> \o Layout(p, <<NEWLINE>>)
      open == [Emit(p, Len(brace) + 1, brace, Len(brace)) EXCEPT !.depth = @ + 1]
      members == PrintMembers(v.kids, open)
      close == Layout(p, Tabs(p.depth)) \o <<Close("object"), NUL>>
  IN  [Emit(members, IF p.format THEN members.depth + 1 ELSE 2, close, 0) EXCEPT !.depth = @ - 1]

print_value(v, p) ==
  CASE v.type \in {"null", "true", "false"} ->
         Emit(p, Len(Word(v.type)) + 1, Append(Word(v.type), NUL), 0)
    [] v.type = "number" -> print_number(v.number, p)
    [] v.type = "raw" -> Emit(p, Len(v.text) + 1, Append(v.text, NUL), 0)
    [] v.type = "string" -> print_string_ptr(v.text, p)
    [] v.type = "array" -> print_array(v, p)
    [] v.type = "object" -> print_object(v, p)
    [] OTHER -> Fail(p)

(* The caller has no offset: the text ends at the first NUL. *)
AsString(p) == update_offset([p EXCEPT !.offset = 0])
Printed(p) == SubSeq(p.data, 1, p.offset)

(* A print that fails frees what ensure has not freed. *)
Released(p) ==
  IF ~p.ok /\ ~p.noalloc /\ Len(p.data) > 0 THEN [p EXCEPT !.held.buffer = @ - 1] ELSE p

(* Fault: the first block is forgotten when the text is in a second one. *)
TrimmedForgets(p, enough) ==
  LET size == p.offset + 1
  IN  IF ~p.ok \/ ~enough THEN Fail(p)
      ELSE [p EXCEPT !.data = [k \in 1 .. size |->
                                 IF k = size /\ ~p.realloc THEN NUL
                                 ELSE IF k <= Len(p.data) THEN p.data[k] ELSE Junk],
                     !.held.buffer = IF p.realloc THEN @ - 1 ELSE @,
                     !.held.printed = @ + 1]

(* The text gets a block of its own size: what the buffer's becomes by     *)
(* realloc, or a second one with a copy, after which the buffer is freed.  *)
(* enough says whether there is memory for it.                             *)
Trimmed(p, enough) ==
  LET size == p.offset + 1
  IN  IF ~p.ok \/ ~enough THEN Fail(p)
      ELSE [p EXCEPT !.data = [k \in 1 .. size |->
                                 IF k = size /\ ~p.realloc THEN NUL
                                 ELSE IF k <= Len(p.data) THEN p.data[k] ELSE Junk],
                     !.held.buffer = @ - 1,
                     !.held.printed = @ + 1]

(* cJSON_Print, cJSON_PrintUnformatted *)
print(v, format, realloc, memory, enough) ==
  LET first == Allocated(default_buffer_size, format, realloc, memory)
  IN  Released(Trimmed(update_offset(print_value(v, first)), enough))

cJSON_PrintBuffered(v, prebuffer, format, realloc, memory) ==
  Released(print_value(v, Allocated(prebuffer, format, realloc, memory)))

cJSON_PrintPreallocated(v, length, format) ==
  print_value(v, NewBuffer(length, TRUE, format, FALSE, 0))

-----------------------------------------------------------------------------
(* The buffer of a parse: the text with its NUL, the place in it, how deep *)
(* it is nested there, and the item built last.  over says that a string   *)
(* was written past its block.                                             *)
At(b, index) == b.text[b.offset + index + 1]
Step(b, n) == [b EXCEPT !.offset = @ + n]
CanAccess(b) == b.offset < Len(b.text)
IsAt(b, char) == CanAccess(b) /\ At(b, 0) = char
Sees(b, word) ==
  /\ b.offset + Len(word) <= Len(b.text)
  /\ SubSeq(b.text, b.offset + 1, b.offset + Len(word)) = word
Built(b, item, n) == [b EXCEPT !.item = item, !.offset = @ + n]

(* What is not above a blank is a blank, the NUL included: at the end the  *)
(* step back leads to the NUL again.                                       *)
buffer_skip_whitespace(b) ==
  LET rest == {k \in b.offset .. Len(b.text) - 1 : b.text[k + 1] > BLANK}
  IN  [b EXCEPT !.offset = IF rest = {} THEN Len(b.text) - 1 ELSE Min(rest)]

skip_utf8_bom(b) ==
  IF b.offset + 4 < Len(b.text) /\ Sees(b, BOM) THEN Step(b, 3) ELSE b

(* How many bytes of b.text from index on are in a set, at most most.      *)
RECURSIVE Run(_, _, _, _)
Run(b, index, set, most) ==
  IF index < most /\ b.offset + index < Len(b.text) /\ At(b, index) \in set
  THEN 1 + Run(b, index + 1, set, most) ELSE 0

(* The characters of a number are copied, and strtod reads a sign and the  *)
(* digits: what it leaves stays in the text.                               *)
parse_number(b) ==
  LET copied == Run(b, 0, Digit \cup {PLUS, MINUS}, NumberString - 1)
      sign == IF At(b, 0) = MINUS THEN 1 ELSE 0
      digits == Run(b, sign, Digit, copied)
      value == FoldLeft(LAMBDA v, c : 10 * v + c - ZERO, 0,
                        [k \in 1 .. digits |-> At(b, sign + k - 1)])
  IN  IF digits = 0 THEN Fail(b)
      ELSE Built(b, CreateNumber(IF sign = 1 THEN -value ELSE value), sign + digits)

HexValue(c) ==
  IF c \in Digit THEN c - ZERO
  ELSE IF c \in 65 .. 70 THEN c - 55
  ELSE IF c \in 97 .. 102 THEN c - 87
  ELSE -1

(* A digit that is none makes the whole 0. *)
parse_hex4(t, at) ==
  LET h == [k \in 1 .. 4 |-> HexValue(t[at + k])]
  IN  IF -1 \in ToSet(h) THEN 0 ELSE FoldLeft(LAMBDA v, d : 16 * v + d, 0, h)

(* n bytes: the last n - 1 hold six bits each, the first the mark and what *)
(* is left.                                                                *)
Utf8Bytes(codepoint) ==
  CASE codepoint < 128 -> <<codepoint>>
    [] codepoint \in 128 .. 2047 -> <<192 + (codepoint \div 64), 128 + (codepoint % 64)>>
    [] codepoint \in 2048 .. 65535 ->
         <<224 + (codepoint \div 4096), 128 + ((codepoint \div 64) % 64), 128 + (codepoint % 64)>>
    [] OTHER -> <<240 + (codepoint \div 262144), 128 + ((codepoint \div 4096) % 64),
                  128 + ((codepoint \div 64) % 64), 128 + (codepoint % 64)>>

HighHalf == 55296 .. 56319
LowHalf == 56320 .. 57343

(* The literal at offset at of t, which ends at end: how many characters   *)
(* it is, 0 when it is none, and its bytes.                                *)
utf16_literal_to_utf8(t, at, end) ==
  LET none == [length |-> 0, bytes |-> << >>]
      first == parse_hex4(t, at + 2)
      second == parse_hex4(t, at + 8)
      paired == /\ end - at >= 12
                /\ t[at + 7] = BACKSLASH /\ t[at + 8] = LETTER_u
                /\ second \in LowHalf
  IN  IF end - at < 6 \/ first \in LowHalf THEN none
      ELSE IF first \notin HighHalf THEN [length |-> 6, bytes |-> Utf8Bytes(first)]
      ELSE IF ~paired THEN none
      ELSE [length |-> 12,
            bytes |-> Utf8Bytes(65536 + (first - 55296) * 1024 + (second - 56320))]

(* Where the string that begins at offset at ends, and how many escapes    *)
(* are on the way: past the text when it does not end.                     *)
RECURSIVE Scan(_, _, _)
Scan(t, at, skipped) ==
  IF at >= Len(t) \/ t[at + 1] = QUOTE THEN [end |-> at, skipped |-> skipped]
  ELSE IF t[at + 1] = BACKSLASH THEN Scan(t, at + 2, skipped + 1)
  ELSE Scan(t, at + 1, skipped)

Allocation(open, scan) == scan.end - open - scan.skipped + 1

(* What an escape of one character stands for. *)
Meaning == [c \in {Letter[b] : b \in DOMAIN Letter} |-> CHOOSE b \in DOMAIN Letter : Letter[b] = c]
             @@ (SLASH :> SLASH)

(* The bytes of the string before end; at stays at an escape that is none. *)
RECURSIVE Unescape(_, _, _, _)
Unescape(t, at, end, out) ==
  IF at >= end THEN [ok |-> TRUE, at |-> at, out |-> out]
  ELSE IF t[at + 1] # BACKSLASH THEN Unescape(t, at + 1, end, Append(out, t[at + 1]))
  ELSE IF t[at + 2] \in DOMAIN Meaning THEN Unescape(t, at + 2, end, Append(out, Meaning[t[at + 2]]))
  ELSE LET literal == utf16_literal_to_utf8(t, at, end)
       IN  IF t[at + 2] = LETTER_u /\ literal.length > 0
           THEN Unescape(t, at + literal.length, end, out \o literal.bytes)
           ELSE [ok |-> FALSE, at |-> at, out |-> out]

(* The string read up to its end is the item, unless an escape was none. *)
Unescaped(b, scan, string) ==
  [b EXCEPT !.ok = string.ok,
            !.offset = IF string.ok THEN scan.end + 1 ELSE string.at,
            !.item = [Bare("string") EXCEPT !.text = CString(string.out)],
            !.over = @ \/ Len(string.out) + 1 > Allocation(b.offset, scan)]

Scanned(b, scan) ==
  IF ~IsAt(b, QUOTE) \/ scan.end >= Len(b.text) THEN Fail(Step(b, 1))
  ELSE Unescaped(b, scan, Unescape(b.text, b.offset + 1, scan.end, << >>))

parse_string(b) == Scanned(b, Scan(b.text, b.offset + 1, 0))

RECURSIVE parse_value(_)
RECURSIVE ParseMembers(_, _, _)

(* The name is parsed as a string, and the string becomes the name. *)
WithName(key, value) == [value EXCEPT !.item.key = key]

AfterName(name, colon) ==
  IF ~name.ok THEN name
  ELSE IF ~IsAt(colon, COLON) THEN Fail(colon)
  ELSE WithName(name.item.text, parse_value(buffer_skip_whitespace(Step(colon, 1))))

Colon(name) == AfterName(name, buffer_skip_whitespace(name))

ParseMember(type, b) == IF type = "array" THEN parse_value(b) ELSE Colon(parse_string(b))

(* Fault: the end of the text closes the list. *)
AfterMemberOrEnd(type, rest, kids) ==
  IF IsAt(rest, COMMA) THEN ParseMembers(type, rest, kids)
  ELSE IF ~IsAt(rest, Close(type)) /\ ~IsAt(rest, NUL) THEN Fail(rest)
  ELSE [Built(rest, [Bare(type) EXCEPT !.kids = kids], 0) EXCEPT !.depth = @ - 1]

(* Behind a member is the next one, or the end of the list. *)
AfterMember(type, rest, kids) ==
  IF IsAt(rest, COMMA) THEN ParseMembers(type, rest, kids)
  ELSE IF ~IsAt(rest, Close(type)) THEN Fail(rest)
  ELSE [Built(rest, [Bare(type) EXCEPT !.kids = kids], 1) EXCEPT !.depth = @ - 1]

AddMember(type, member, kids) ==
  IF ~member.ok THEN member
  ELSE AfterMember(type, buffer_skip_whitespace(member), Append(kids, member.item))

(* One round of the loop, from the character before the member on. *)
ParseMembers(type, b, kids) ==
  AddMember(type, ParseMember(type, buffer_skip_whitespace(Step(b, 1))), kids)

(* Fault: an empty list leaves the depth as it is inside. *)
EmptyListDeepens(type, inside) ==
  IF IsAt(inside, Close(type)) THEN Built(inside, Bare(type), 1)
  ELSE ParseMembers(type, Step(inside, -1), << >>)

Inside(type, inside) ==
  IF IsAt(inside, Close(type)) THEN [Built(inside, Bare(type), 1) EXCEPT !.depth = @ - 1]
  ELSE ParseMembers(type, Step(inside, -1), << >>)

(* parse_array and parse_object *)
parse_list(type, b) ==
  IF b.depth >= CJSON_NESTING_LIMIT THEN Fail(b)
  ELSE Inside(type, buffer_skip_whitespace(Step([b EXCEPT !.depth = @ + 1], 1)))

parse_value(b) ==
  IF Sees(b, Word("null")) THEN Built(b, Bare("null"), 4)
  ELSE IF Sees(b, Word("false")) THEN Built(b, Bare("false"), 5)
  ELSE IF Sees(b, Word("true")) THEN Built(b, [Bare("true") EXCEPT !.valueint = 1], 4)
  ELSE IF ~CanAccess(b) THEN Fail(b)
  ELSE IF At(b, 0) = QUOTE THEN parse_string(b)
  ELSE IF At(b, 0) \in Digit \cup {MINUS} THEN parse_number(b)
  ELSE IF At(b, 0) \in {Open("array"), Open("object")}
  THEN parse_list(IF At(b, 0) = Open("array") THEN "array" ELSE "object", b)
  ELSE Fail(b)

(* end is what return_parse_end gets, the place of the error when there is *)
(* one.                                                                    *)
Parsed(b, ok, length) ==
  [ok |-> ok, item |-> b.item, over |-> b.over,
   end |-> IF ok \/ CanAccess(b) THEN b.offset ELSE length]

NullTerminated(b, require, length) ==
  IF b.ok /\ require
  THEN LET after == buffer_skip_whitespace(b) IN Parsed(after, IsAt(after, NUL), length)
  ELSE Parsed(b, b.ok, length)

cJSON_ParseWithOpts(t, require_null_terminated) ==
  LET buffer == [text |-> Append(t, NUL), offset |-> 0, depth |-> 0, ok |-> TRUE,
                 item |-> Bare("invalid"), over |-> FALSE]
  IN  NullTerminated(parse_value(buffer_skip_whitespace(skip_utf8_bom(buffer))),
                     require_null_terminated, Len(t))

-----------------------------------------------------------------------------
Lower(s) == [k \in DOMAIN s |-> IF s[k] \in 65 .. 90 THEN s[k] + 32 ELSE s[k]]
SameKey(k1, k2, case_sensitive) == IF case_sensitive THEN k1 = k2 ELSE Lower(k1) = Lower(k2)

(* Fault: the case is never regarded. *)
ItemOfAnyCase(object, key, case_sensitive) ==
  LET found == SelectSeq(object.kids, LAMBDA kid : SameKey(kid.key, key, FALSE))
  IN  SubSeq(found, 1, IF found = << >> THEN 0 ELSE 1)

(* The first member of that name, as a sequence of one or none. *)
get_object_item(object, key, case_sensitive) ==
  LET found == SelectSeq(object.kids, LAMBDA kid : SameKey(kid.key, key, case_sensitive))
  IN  SubSeq(found, 1, IF found = << >> THEN 0 ELSE 1)

RECURSIVE cJSON_Compare(_, _, _)

(* Each member of a is equal to the first member of b with its name. *)
Within(a, b, case_sensitive) ==
  \A k \in DOMAIN a.kids :
    LET found == get_object_item(b, a.kids[k].key, case_sensitive)
    IN  found # << >> /\ cJSON_Compare(a.kids[k], found[1], case_sensitive)

cJSON_Compare(a, b, case_sensitive) ==
  /\ a.type = b.type /\ a.type # "invalid"
  /\ a.type = "number" => a.number = b.number
  /\ a.type \in {"string", "raw"} => a.text = b.text
  /\ a.type = "array" =>
       /\ Len(a.kids) = Len(b.kids)
       /\ \A k \in DOMAIN a.kids : cJSON_Compare(a.kids[k], b.kids[k], case_sensitive)
  /\ a.type = "object" => Within(a, b, case_sensitive) /\ Within(b, a, case_sensitive)

(* Fault: an escaped quote ends the string. *)
ToNextQuote(t) == Min({k \in 2 .. Len(t) : t[k] = QUOTE} \cup {Len(t)})

(* The length of the string t begins with. *)
StringLength(t) == Scan(t, 1, 0).end + 1

(* Blanks and comments are left out; a string is copied whole. *)
RECURSIVE cJSON_Minify(_)
cJSON_Minify(t) ==
  LET after(n) == SubSeq(t, n + 1, Len(t))
      ends(mark) == {k \in 2 .. Len(t) : IsPrefix(mark, after(k - 1))}
  IN  IF t = << >> THEN << >>
      ELSE IF Head(t) \in {BLANK, TAB, CR, NEWLINE} THEN cJSON_Minify(Tail(t))
      ELSE IF IsPrefix(<<SLASH, SLASH>>, t)
      THEN cJSON_Minify(after(Min(ends(<<NEWLINE>>) \cup {Len(t) + 1}) - 1))
      ELSE IF IsPrefix(<<SLASH, STAR>>, t)
      THEN cJSON_Minify(after(Min(ends(<<STAR, SLASH>>) \cup {Len(t)}) + 1))
      ELSE IF Head(t) = QUOTE THEN SubSeq(t, 1, StringLength(t)) \o cJSON_Minify(after(StringLength(t)))
      ELSE <<Head(t)>> \o cJSON_Minify(Tail(t))

-----------------------------------------------------------------------------
(* What the code is compared with: the text of an item, without a buffer.  *)
Joined(seqs, sep) == FlattenSeq([k \in DOMAIN seqs |-> IF k = 1 THEN seqs[k] ELSE sep \o seqs[k]])
Quoted(s) == <<QUOTE>> \o FlattenSeq([k \in DOMAIN s |-> Escaped(s[k])]) \o <<QUOTE>>

RECURSIVE Render(_, _, _)
Render(v, format, depth) ==
  LET layout(s) == IF format THEN s ELSE << >>
      inner == [k \in DOMAIN v.kids |-> Render(v.kids[k], format, depth + 1)]
      member(k) == layout(Tabs(depth + 1)) \o Quoted(v.kids[k].key) \o <<COLON>>
                     \o layout(<<TAB>>) \o inner[k]
      brackets(s) == <<Open(v.type)>> \o s \o <<Close(v.type)>>
  IN  CASE v.type \in {"null", "true", "false"} -> Word(v.type)
        [] v.type = "number" -> IF v.number = NotFinite THEN Word("null") ELSE Decimal(v.number)
        [] v.type = "raw" -> v.text
        [] v.type = "string" -> Quoted(v.text)
        [] v.type = "array" -> brackets(Joined(inner, <<COMMA>> \o layout(<<BLANK>>)))
        [] v.type = "object" ->
             brackets(layout(<<NEWLINE>>)
                        \o Joined([k \in DOMAIN v.kids |-> member(k)], <<COMMA>> \o layout(<<NEWLINE>>))
                        \o (IF v.kids = << >> THEN << >> ELSE layout(<<NEWLINE>>))
                        \o layout(Tabs(depth)))

(* The same item as another program writes it: characters spelled with \u, *)
(* blanks between the tokens.                                               *)
Spelled(s) == IF s \in DOMAIN Spelling THEN <<QUOTE>> \o Spelling[s] \o <<QUOTE>> ELSE Quoted(s)

RECURSIVE Foreign(_)
Foreign(v) ==
  LET inner == [k \in DOMAIN v.kids |->
                  (IF v.type = "object" THEN Spelled(v.kids[k].key) \o <<BLANK, COLON, CR>> ELSE << >>)
                    \o Foreign(v.kids[k])]
  IN  CASE v.type = "string" -> Spelled(v.text)
        [] v.type \in {"array", "object"} ->
             <<Open(v.type), BLANK>> \o Joined(inner, <<NEWLINE, COMMA, TAB>>) \o <<BLANK, Close(v.type)>>
        [] OTHER -> Render(v, FALSE, 0)

(* What a parse can bring back of an item. *)
RECURSIVE Image(_)
Image(v) ==
  LET value == CASE v.type = "true" -> [Bare("true") EXCEPT !.valueint = 1]
                 [] v.type = "raw" -> cJSON_ParseWithOpts(v.text, TRUE).item
                 [] v.type = "number" -> IF v.number = NotFinite THEN Bare("null") ELSE CreateNumber(v.number)
                 [] OTHER -> [v EXCEPT !.kids = [k \in DOMAIN @ |-> Image(@[k])]]
  IN  [value EXCEPT !.key = v.key]

RECURSIVE Depth(_)
Depth(v) == IF v.type \notin {"array", "object"} THEN 0
            ELSE 1 + Max({0} \cup {Depth(v.kids[k]) : k \in DOMAIN v.kids})

(* Two items are the same: objects as functions from names to values. *)
RECURSIVE Same(_, _, _)
Same(a, b, cs) ==
  /\ a.type = b.type
  /\ IF a.type # "object"
     THEN /\ a.number = b.number /\ a.text = b.text /\ Len(a.kids) = Len(b.kids)
          /\ \A k \in DOMAIN a.kids : Same(a.kids[k], b.kids[k], cs)
     ELSE /\ Len(a.kids) = Len(b.kids)
          /\ \A k \in DOMAIN a.kids : \E j \in DOMAIN b.kids :
               SameKey(a.kids[k].key, b.kids[j].key, cs) /\ Same(a.kids[k], b.kids[j], cs)

(* No object has two members of one name. *)
RECURSIVE Distinct(_, _)
Distinct(v, cs) ==
  \A k \in DOMAIN v.kids :
    /\ Distinct(v.kids[k], cs)
    /\ v.type = "object" => \A j \in DOMAIN v.kids : SameKey(v.kids[j].key, v.kids[k].key, cs) => j = k
-----------------------------------------------------------------------------
VARIABLES
  item,     \* the item that is printed
  out,      \* the last print: its buffer, who called, and with what
  form,     \* what became of the text since, "none" when there is none
  before, core, after,   \* the text, in three parts: the value is in core
  parsed    \* the last parse

vars == <<item, out, form, before, core, after, parsed>>

Nothing == [by |-> "nobody"]
text == before \o core \o after

Init ==
  /\ item \in Value
  /\ out = Nothing /\ form = "none"
  /\ before = << >> /\ core = << >> /\ after = << >>
  /\ parsed = Nothing

(* The caller looks at the result: it has a text, or none. *)
Returned(result, by, room, enough) ==
  LET p == AsString(result) IN
  /\ form = "none" /\ out = Nothing
  /\ out' = [by |-> by, room |-> room, enough |-> enough, format |-> p.format,
             memory |-> p.memory, ok |-> p.ok, over |-> p.over, held |-> p.held]
  /\ core' = IF p.ok THEN Printed(p) ELSE << >>
  /\ form' = IF p.ok THEN "printed" ELSE "none"
  /\ UNCHANGED <<item, before, after, parsed>>

(* The hooks are the allocator's own, with realloc, or others, without. *)
cJSON_Print == \E format, realloc, enough \in BOOLEAN, memory \in Memory :
  Returned(print(item, format, realloc, memory, enough), "print", default_buffer_size, enough)

PrintBuffered == \E format, realloc \in BOOLEAN, memory \in Memory, prebuffer \in Rooms :
  Returned(cJSON_PrintBuffered(item, prebuffer, format, realloc, memory), "buffered", prebuffer, TRUE)

PrintPreallocated == \E format \in BOOLEAN :
  \E length \in 0 .. Len(Render(item, format, 0)) + 1 + MaxSpare :
    Returned(cJSON_PrintPreallocated(item, length, format), "preallocated", length, TRUE)

(* The caller takes the text, or finds that there is none. *)
Take ==
  /\ out # Nothing
  /\ out' = Nothing
  /\ UNCHANGED <<item, form, before, core, after, parsed>>

(* Another program writes the item. *)
WrittenElsewhere ==
  /\ form = "none" /\ out = Nothing
  /\ core' = Foreign(item) /\ form' = "foreign"
  /\ UNCHANGED <<item, out, before, after, parsed>>

(* The text on its way: cut short, or with something around it. *)
Cut ==
  /\ form \in {"printed", "foreign"} /\ out = Nothing /\ parsed = Nothing
  /\ \E n \in 0 .. Len(core) - 1 : core' = SubSeq(core, 1, n)
  /\ form' = "cut"
  /\ UNCHANGED <<item, out, before, after, parsed>>

Surround(around, as) ==
  /\ form = "printed" /\ out = Nothing /\ parsed = Nothing
  /\ \E pair \in around : before' = pair[1] /\ after' = pair[2]
  /\ form' = as
  /\ UNCHANGED <<item, out, core, parsed>>

Pad == Surround(Pads, "padded")
Comment == Surround(Comments, "commented")

Minify ==
  /\ form \in {"printed", "commented"} /\ out = Nothing /\ parsed = Nothing
  /\ core' = cJSON_Minify(text) /\ before' = << >> /\ after' = << >>
  /\ form' = "minified"
  /\ UNCHANGED <<item, out, parsed>>

Parse == \E require \in BOOLEAN :
  /\ form \notin {"none", "commented"} /\ out = Nothing /\ parsed = Nothing
  /\ parsed' = [by |-> "parse", require |-> require] @@ cJSON_ParseWithOpts(text, require)
  /\ UNCHANGED <<item, out, form, before, core, after>>

(* The text is freed, and what was parsed is the item from then on. *)
Adopt ==
  /\ parsed # Nothing
  /\ item' = IF parsed.ok THEN parsed.item ELSE item
  /\ form' = "none" /\ before' = << >> /\ core' = << >> /\ after' = << >>
  /\ parsed' = Nothing
  /\ UNCHANGED out

Next ==
  \/ cJSON_Print \/ PrintBuffered \/ PrintPreallocated \/ Take \/ WrittenElsewhere
  \/ Cut \/ Pad \/ Comment \/ Minify
  \/ Parse \/ Adopt

Spec == Init /\ [][Next]_vars

-----------------------------------------------------------------------------
(* A print writes the item's text and nothing else, however often the      *)
(* buffer grew, by whichever hooks, and whatever was in it before; and it  *)
(* fails for want of room only: a given buffer is enough when it has the   *)
(* five bytes more that cJSON.h asks for, an own one when there is memory  *)
(* for the first block and the last, and memory and an int hold twice the  *)
(* text (ensure, update_offset, print_number, print).                      *)
PrintExact ==
  out # Nothing =>
    LET expected == Render(item, out.format, 0)
    IN  IF out.ok THEN core = expected
        ELSE IF out.by = "preallocated" THEN out.room < Len(expected) + 1 + 5
        ELSE \/ out.room > out.memory \/ ~out.enough
             \/ 2 * (Len(expected) + 2) > Min({out.memory, INT_MAX})

(* No print touches a byte behind its buffer, and no string that is parsed *)
(* is longer than the block parse_string computed for it.                  *)
InBounds ==
  /\ out # Nothing => ~out.over
  /\ parsed # Nothing => ~parsed.over

(* No block of a print is freed twice or lost, whichever allocation fails  *)
(* (the first, one that grows the buffer, the last): print returns one     *)
(* block and has freed the other, cJSON_PrintBuffered returns its buffer,  *)
(* a print that fails has freed all it had, and a given buffer is never    *)
(* freed (ensure, print, cJSON_PrintBuffered).                             *)
FreedOnce ==
  out # Nothing =>
    /\ out.held.buffer =
         IF out.by = "preallocated" \/ (out.by = "buffered" /\ out.ok) THEN 1 ELSE 0
    /\ out.held.printed = IF out.by = "print" /\ out.ok THEN 1 ELSE 0

(* Nothing but blanks stands behind the value, where that is required. *)
NothingBehind == parsed.require => \A k \in DOMAIN after : after[k] <= BLANK

(* What was printed, written by another program with escapes and blanks,   *)
(* minified, or put between a byte order mark or blanks and other bytes,   *)
(* is parsed to the item again, up to what a text cannot say.  It is       *)
(* refused when it is nested deeper than CJSON_NESTING_LIMIT, or when      *)
(* require_null_terminated is asked for and more than blanks follow it,    *)
(* and then only.                                                          *)
RoundTrip ==
  parsed # Nothing /\ form \in {"printed", "foreign", "minified", "padded"} =>
    /\ parsed.ok <=> Depth(Image(item)) <= CJSON_NESTING_LIMIT /\ NothingBehind
    /\ parsed.ok => parsed.item = Image(item)

(* A text that lost its end is refused, whatever it was but a number.  The *)
(* end a parse returns is in the text or at its NUL, and is the first byte *)
(* after the value unless require_null_terminated leads on to the NUL (the *)
(* parse functions, cJSON_ParseWithOpts).                                  *)
EndFound ==
  parsed # Nothing =>
    /\ form = "cut" /\ parsed.ok => item.type \in {"number", "raw"}
    /\ parsed.end <= Len(text)
    /\ form = "padded" /\ parsed.ok =>
         parsed.end = IF parsed.require THEN Len(text) ELSE Len(before \o core)

(* Minifying a formatted or a commented text gives the unformatted one: no *)
(* blank in a string is lost and no string is taken for a comment.         *)
MinifySame == form = "minified" => core = Render(item, FALSE, 0)

(* cJSON_Compare holds exactly of the same items, whatever the order of    *)
(* members, when no object has two members of one name.                    *)
CompareMeansSame ==
  parsed # Nothing /\ parsed.ok /\ form = "printed" =>
    \A v \in Value, cs \in BOOLEAN :
      Distinct(v, cs) /\ Distinct(parsed.item, cs) =>
        (cJSON_Compare(parsed.item, v, cs) <=> Same(parsed.item, v, cs))
=============================================================================

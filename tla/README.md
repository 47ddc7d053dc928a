# VANTIQ Micro Edition: TLA+ models

This directory holds TLA+ models of the VANTIQ Micro Edition SDK, a C library
that gives small devices HTTPS access to a VANTIQ server, with what TLC checks
and what TLAPS proves of them. Paths are relative to the root of the project,
so `src/src/vme/buf.c` is the library's `buf.c`.

    tlc -workers 2 -config MCVantiqClient.cfg MCVantiqClient
    tlapm VantiqClientProofs.tla

## 1. The system

### 1.1 Components, their state and their operations

| Component | State | Operations |
|---|---|---|
| **vmebuf** `src/src/vme/buf.c` | `len`, `limit`, `data` of a growing byte buffer | ensure_size, ensure_incr_size, push, concat, truncate, tostr, dealloc |
| **vantiq client** `src/src/vme/vantiq_client.c` | one `vantiq_client_t` per connection: magic byte, server URL, header list, CURL handle, receive buffer, application callback and its state, send state, pending count | vc_init, vc_get, vc_delete, vc_put, vc_post, vc_patch, vc_aggregate, vc_execute, vc_query, vc_teardown; the callbacks read_callback, write_callback, header_callback; prepare_result |
| **VME API** `src/src/vme/vme.c` | none of its own; results are given to the application, which frees them | vme_init, vme_teardown, 14 request entry points, vme_callback_state, vme_free_result, the resource path builders |
| **resource paths** `src/src/vme/utils.c` | none | build_rsuri, vme_mapto_rsname, is_sys_type |
| **configuration** `src/src/vme/config.c` | a `vmeconfig_t` | vme_parse_config, parseKeysVals, set_config_param |
| **logging** `src/src/vme/log.c` | one global record: a level, a file, a lock, quiet or not | log_set_level, log_set_lock, log_set_fp, log_set_quiet, vme_set_log_level, log_log |
| **vipo** `src/src/vipo` | a socket to a DPI process, one message | connect (unix or inet socket), fetch_discovery_msg, publish it |
| **cJSON** `src/src/vme/cjson.c` | items, linked into lists and owned by arrays and objects; the buffers of a print and of a parse | cJSON_Create..., Add..., Detach..., Insert..., Replace..., Delete..., Duplicate, Print..., Parse..., Compare, Minify |
| **libcurl, the server** | outside the repository | the environment |

### 1.2 How they interact

The application opens a handle with `vme_init`, which makes an authentication
request. A request entry point of `vme.c` validates the handle, copies the
document into a `vmebuf_t` (the *message*), and calls the client. The client
resets the CURL handle, sets every option again, and enters
`curl_easy_perform`. libcurl then calls back, on the same thread: it takes the
document from `read_callback` in pieces of the size of its own buffer, reports
each header to `header_callback`, and hands each piece of the body to
`write_callback`, which appends it to the handle's receive buffer or passes it
to the callback of the application. After `curl_easy_perform` the client turns
the receive buffer, the status and the error into a `vme_result_t` of fresh
memory, resets the CURL handle, and the entry point frees the message.

`vipo` is an application of the library: it reads its configuration, opens a
handle, connects to a local DPI process, waits for one message, acknowledges
it, and publishes it.

The configuration file gives the level of the log and the URL of the server;
`vc_init` keeps the URL, and every request puts a resource path and its
parameters behind it. Every part of the library logs, from whatever thread it
is called on. cJSON is compiled into the library for its applications, which
parse results and print documents with it; the library itself does not call it.

### 1.3 What is hard

* The handle's receive buffer, pending count, send state, callback pointer and
  CURL options are **shared by all calls** of a handle. Each call must put all
  of them into a known state, and whatever a call leaves behind is a stale
  pointer or the data of another call.
* libcurl decides **how a transfer is cut up**: sizes of the reads, pieces of
  the body, a status before the document is all sent, a redirection that sends
  it again or drops it, a failure at any point, a stall.
* The receive buffer **moves, grows and shrinks** between two pieces, with
  integer thresholds.
* An outcome is **several values at once** (a libcurl code, a status, a body),
  of which some combinations are easily forgotten.
* Results, handles and messages have **owners** in different layers, and a
  handle may be used after its tear-down.
* vipo has **no framing** on its socket: a message is what a `recv` returns.
* cJSON's items are **linked by hand**: two list pointers, a child pointer, a
  parent that knows only the first child, references that share what they do
  not own, and keys that are copies or constants. A mistake shows calls later.
* cJSON's buffers are **counted before they are written**: the size of a string
  from its escapes, the room of a token before the token, and the growth of a
  print at the limit of an int or of memory.
* The **log is one record for all threads**; a line is several writes and its
  time stands in a structure that `localtime` shares between all of them.
* A line, a path and a URL are **cut at limits and separators** that their
  parts may contain.

Nothing is persisted, and the library has no thread of its own.

### 1.4 What correct means

* *vmebuf*: no byte in use lies outside the allocation or is unassigned; the
  contents are exactly what was appended; memory of an outlier comes back.
* *client*: a result describes the answer to its own call; the server gets a
  prefix of the document, and all of it before a success; a callback of the
  application gets its own answer whole; between calls no option, message,
  callback or count of a call is left; a call does not hang on a silent server.
* *VME API*: a call with an invalid handle is refused; what a call allocates and
  does not return is freed; results stay good whatever happens to the handle.
* *resource paths, configuration*: the text built or read is the one its comment
  describes for every combination of present, absent and empty parts.
* *logging*: with a lock set a line is whole and shows its own time; every call
  returns.
* *cJSON*: every item, string and block has one owner and is freed once; lists
  stay linked in both directions and in order; an item that is printed and
  parsed comes back; nothing is touched behind a buffer, nor lost for want of
  memory.
* *vipo*: every message sent by the DPI is published once, as one message; the
  end of transmission is seen when, and only when, it is sent.

## 2. Modules

| Module | Models |
|---|---|
| `VmeBufOps` | the operations of `buf.c` as operators on buffer values |
| `ByteString` | what a buffer promises: a byte string, no capacity |
| `VmeBuf` | one buffer, its calls in any order; refines `ByteString` |
| `RestCall` | what a handle promises: calls, documents, answers, results |
| `VantiqClient` | one handle: the client, the callbacks, libcurl and the server around them; uses `VmeBufOps` for its buffers; refines `RestCall` |
| `Vme` | the entry points of `vme.c`: what each allocates, uses and frees, for several handles and results |
| `Dpi` | vipo: one discovery message from the DPI's socket to `vme_publish`; uses `VmeBufOps` for its buffer |
| `CjsonTree` | the items of `cjson.c` as cells with pointers: every call that changes them, and who frees what |
| `Forest` | what the items promise: ordered trees, no pointers; refined by `CjsonTree` |
| `CjsonText` | the texts of `cjson.c`: print, parse, compare, minify |
| `ConfigFile` | the texts of `config.c` and `utils.c`, and the URL of a request |
| `Log` | `log.c`: the settings, and threads in `log_log` |
| `Startup` | a program from its configuration file to its requests and its threads that log; composes `ConfigFile` and `Log` |
| `VmeBufOpsProofs` | lemmas about the buffer operators |
| `CjsonTreeOpsProofs` | lemmas about lists and trees of cells: what linking, unlinking and deleting do to them, what a walk finds and in which order, and that each operator keeps a heap whole |
| `VmeBufProofs`, `VantiqClientProofs`, `VmeProofs`, `DpiProofs`, `CjsonTreeProofs`, `StartupProofs` | the theorems |
| `MCVmeBuf`, `MCVantiqClient`, `MCVme`, `MCDpi`, `MCCjsonTree`, `MCCjsonText`, `MCStartup` | small instances for TLC |

### 2.1 VmeBufOps and VmeBuf

A buffer is the record of a `vmebuf_t`; `data` has one cell for each allocated
byte, and a cell that was never assigned holds `Junk`, so that a read of memory
that `realloc` left unassigned, or a write beyond the allocation, shows.
`vmebuf_ensure_size` keeps the two-way test of the code (`MustRealloc`).
`VmeBuf` lets the library's users make any call. They reach the shrinking
branch only through appends and `ensure_incr_size`, which ask for at least the
length in use. `vme.h` also exports `vmebuf_ensure_size`: a program that calls
it on a large buffer with a size below the length in use cuts its contents off,
against line 144-145 of `vme.h`. The library never does, and the model does not.

### 2.2 VantiqClient

The variables are the fields of the `vantiq_client_t` that change
(`result_count`, `recv_buf`, `recv_callback`, `send_state`, `http_hdrs`), the
options on the CURL handle (`opts`), the message (`msg`), the result, and `net`,
which is libcurl's transfer and the server's answer. A call is cut where other
actors act: from the entry to `curl_easy_perform` is one action (`vc_get`,
`vc_post`, ...), each callback is one, and from the return of
`curl_easy_perform` to the return of the call is one (`CallReturns`). Nothing
else can run in between, because the code is sequential.

The kinds of call stand for the entry points: `get` for vme_select,
vme_select_one, vme_select_count and vme_aggregate; `get_callback` for
vme_select_callback; `delete`; `put` for vme_update; `post` for vme_insert,
vme_upsert, vme_publish, vme_execute and vme_query_source; `patch` for
vme_patch. `authenticate` is the request of vc_init.

`header_callback` is installed for every request, the authentication included,
and looks at no more than the header's name, so the model lets X-Total-Count
come at any moment of any transfer, more than once, and with any status.
`vc_init` returns without clearing what the authentication's answer gave, and
the first call on the handle starts with it (`CountLeft`). The code copies the
value into 32 characters (`countBuf`, `vantiq_client.c:93-96`) without a test
of its length; a longer value is not modelled.

The environment is libcurl and the server, taken from how the code uses them:
a POST is complete when CURLOPT_POSTFIELDSIZE bytes were read, a PUT when
read_callback returns 0; an answer that refuses a request may come early; a
redirection is followed either with a GET and no document or with the same
request, in which case libcurl has no way to rewind what read_callback gave and
fails; the number of redirections is not bounded, since the code sets no
CURLOPT_MAXREDIRS; a transfer may fail at any time; it may stall (`Stall`), may
move again with any byte that passes (`Moves`), and libcurl gives up on a
stalled one only if the low-speed limit is set (`StallTimeout`).

Assumed of the environment: the application makes one call at a time on a
handle, and none on a handle from inside its callback; memory does not run out.

### 2.3 Vme

`Vme` is about memory. An entry point is a sequence of statements: allocate
blocks, use them, free them, look at the handle (`vc_from_vme`), make a result
(`prepare_result`, `vme_error_result`). The statements of the functions an entry
point calls stand in their place, so that `vme_upsert` in the model reads as the
code does down to `_putorpost`. What the code only computes is left out, as are
allocations that a single C function makes and frees (the buffer in create_url,
the escaped values), and the parts of a block that are freed together are one
block (a `vmebuf_t` and its data, a list of parameters). `heap` is the set of
blocks that are allocated, each named by what it belongs to. `StepResult` does
not ask what the exchange was: whether the transfer failed, whether there is a
body and whether the server refused are all open, because VantiqClient shows
that each of these combinations occurs.

`malloc` may give a new handle the address of one that was torn down. The
application does not use a handle after its tear-down, as `vme.h:84-85` asks,
but it may use the NULL of a failed `vme_init`. The assumption matters: the
magic byte that `vc_is_valid` reads lies in the block that `vc_teardown` frees,
so it cannot tell a stale handle, as the comment at `vantiq_client.c:233-236`
has it, and at a reused address it takes it for the new one.

### 2.4 Dpi

`Dpi` follows `main` of `vipo.c` through `fetch_discovery_msg`. `sent` has all bytes
the DPI wrote, and `socket` those of them that are not read yet; a `Recv` takes any beginning of it
that fits, since a stream socket promises no more. Its two tests, on the
number of bytes and on their text, are operators (`Full`, `NothingCame`,
`IsEot`). The test for the end of transmission compares one cell more than was
received; that cell was never assigned (`Junk`) unless an earlier receive
filled it, so its outcome is open. `Aborts` is log_syserr, which does not
return. The DPI is assumed to write whole messages of bytes other than NUL, and
not to wait for acknowledgements, of which the repository says nothing.

What is acknowledged is published afterwards (`Acknowledge`, `Publish`): a
message whose publication fails is not sent again.

### 2.5 CjsonTree and Forest

An item is a cell of `heap`: `next`, `prev`, `child`, the two flags
(`isRef`, `isConst`), its key, and whose copy of a text it holds. Strings are
counted (`blocks`), not kept. The operators carry the code's names and assign
in its order, so that what a call leaves in an item it has detached, or reads
from one it has changed, is the same. `cJSON_Delete` is the set of items its
loop comes to, and `misused` records that it came to one twice or to one that
is not live. Memory is the set `Item`: when all are in use an allocation
fails, and the clean-up of `cJSON_Duplicate`, of the Create...Array calls and
of the cJSON_Add...ToObject calls is taken as it stands. Which free cell an
allocation returns makes no difference, so `Fresh` picks one. The copy of a key
may fail too, whether or not an item is free. Where the code does not look the
model does as it does: `cJSON_AddItemReferenceToObject` (`cjson.c:1957`) loses
the reference it has just made, which the model keeps in `lost`, and
`replace_item_in_object` (`cjson.c:2224`) links an item whose name is NULL,
which is `NoCopy` in the model, other than the `NoName` of an item that was
never given a name.

The application is held to what `cJSON.h` asks of it, or what follows from it:
it gives an item away once, makes no item part of itself, changes no list
through a reference or one that a reference shows, and deletes nothing that a
remaining reference refers to. It uses the array calls on arrays and the object
calls on objects. It makes no search where case matters that would hand the
NULL of a failed copy to strcmp (`Survives`): the code would crash there.

`Forest` has only `live`, the sequences `kids`, and names. Its steps are about
one place in one sequence: put, take, exchange, remove with all that is below,
drop a root, grow new trees. `ImplementsForest` says that every call, through
all its pointers, is such a step or changes nothing.

### 2.6 CjsonText

A text is a sequence of bytes and an item is a record. The buffer of a print
has its allocated bytes, its offset and the flags of a `printbuffer`; `ensure`
grows it by `realloc` or by the copy of what the offset has reached, under a
limit of an int and a limit of memory, and frees it when it fails. The first
block may not be had (`Allocated`), and `print` ends with a `realloc`, or with a
second block, a copy and a free, each of which may fail (`Trimmed`); `held`
counts the buffer and the block to be returned apart. Each
function of the printer asks for the room the code asks for, which is not
always the room it uses. The buffer of a parse is the text with its NUL and a
place in it; the functions of the parser move the place. The state machine
around them prints an item, sends the text on its way (whole, cut, padded, with
comments, or as another program would have written it), parses it, and goes on
with the item it got.

`Render`, `Image`, `Same` and `Foreign` are the reference definitions: the text
of an item without a buffer, what a text can bring back, equality, and another
way to write the same. The properties compare the code with them.

Left out: fractions and exponents, whose conversion is the C library's; memory
that runs out in the parser; the global error pointer. Assumed: a buffer of at
least one byte for `cJSON_PrintBuffered`, comments that end, and `\u` escapes of
four hexadecimal digits other than 0000. `cJSON_Parse` keeps both of two
members with one name, and CompareMeansSame is about objects without such.

### 2.7 ConfigFile, Log and Startup

A text of `ConfigFile` is a sequence of tokens: the characters the code looks
at (`=`, `#`, `/`, the blanks, a line's end) and words it does not look into.
`parseLine` is one turn of the loop of parseKeysVals with `fgets` before it;
`build_rsuri` computes a size and a text, of which `snprintf` keeps what has
room; `create_url` puts the escaped parameters behind the path, and `Pairs` is
what a server reads in it.

`Log` cuts `log_log` where another thread can act: taking the lock, asking for
the time, the three writes of a line to each stream, giving the lock back. One
write is atomic, as stdio makes it, and the time of a line is read from the
shared structure when its first write is made. Lines that are complete leave
the state. The lock is the application's, given with log_set_lock; the library
sets none, and without one nothing is promised.

`Startup` reads a file line by line, sets the level, and then starts threads
or opens a handle and makes the URLs of its requests.

## 3. Runs

| Run | Expected | What it shows |
|---|---|---|
| `vmebuf` | pass | in bounds, outliers released, refinement of `ByteString` |
| `vantiq_client` | pass | the properties of section 3.1 |
| `vc_errors` | violation | a refused request without a body reports no error |
| `vc_cstring` | violation | the body of a result is not a C string |
| `vc_auth` | violation | an authentication answered with 401 gives a handle |
| `vme` | pass | the properties of section 3.2 |
| `vme_free` | violation | an error text is overwritten and lost when a transfer fails inside an error answer |
| `dpi` | pass | the properties of section 3.3 |
| `dpi_receipt` | violation | a message that fills the buffer exactly is not returned |
| `cjson_tree` | pass | the properties of section 3.4 |
| `cjson_text` | pass | the properties of section 3.5 |
| `startup` | pass | the properties of section 3.6 |

### 3.1 The properties of `vantiq_client`

* `ResultFaithful`: size, body and error of a result are those of this
  exchange, whatever came before and however the transfer ended. So is the
  count, except that the first result of a handle has the count of the
  authentication's answer when its own answer brings none.
* `UploadFaithful`: what the server has is a prefix of the document; all of it
  once a call that kept its verb succeeds.
* `ReadsLiveMessage`: while libcurl may read, the message is allocated and the
  rest to read lies within it.
* `QuiescentBetweenCalls`: between calls the CURL handle has its default
  options, no message is allocated, no callback is set, and no count is pending
  but the authentication's until the first call. (`send_state` still points into
  the freed message; `ReadsLiveMessage` says that it is set before it is read.)
* `CallbackGetsBody`: the application's callback gets its own answer, whole.
* `StalledCallReturns`: a call comes back from a server that says nothing or
  only trickles. It says no more because the code gives no more: a server that
  redirects without end, or that sends without end above the limit, keeps the
  call, which is the second half of the formula.
* `ImplementsRestCall`: the refinement; it adds to the above that, but for the
  count of the opening, nothing of a handle's past can influence a call.

### 3.2 The properties of `vme`

* `UsesLive`: no statement uses or frees a block that is not allocated at that
  moment, whatever was called before, and every pointer in a result of the
  application is to allocated memory.
* `OwnedApart`: a result points to blocks of its own only, and a call or a
  tear-down on one handle leaves every other handle whole.
* `TemporariesFreed`: a call with a valid handle, or a `vme_init` that fails,
  leaves no message, parameters, path or URL behind.

The violation `vme_free` says where the code keeps more than its comment
promises. It does not touch these three: nothing is used too late or freed
twice by an application that does not use a handle after its tear-down.
`TemporariesFreed` leaves out refused calls, because vme_publish makes its
message before it looks at the handle (`vme.c:397`) and does not free it, and it
leaves out `server_url`, which a tear-down does not free (section 3.9).

### 3.3 The properties of `dpi`

* `StreamKept`: over several receives and reallocations, no byte the DPI wrote
  is lost, doubled or moved.
* `RoomForTerminator`: the loop leaves a cell for the terminator.
* `OnlyWhatWasSent`: what is acknowledged and published is a beginning of the
  stream and never empty.
* `CloseEndsWait`: when the DPI closes its end the wait ends.

### 3.4 The properties of `cjson_tree`

* `TypeOK`: besides the types, that a freed item stays as it was freed: no call
  assigns to one.
* `Linked`: the two directions of every list agree, and a list starts at its
  owner's child.
* `OwnedOnce`: every live item is owned from exactly one place and can be
  reached from what the application holds: none has two owners, and none is
  leaked but the references that `cJSON_AddItemReferenceToObject` could not give
  a key, which are owned from nowhere.
* `StringsBalanced`: nothing is freed twice, and as many strings are allocated
  as items own.
* `MembersNamed`: every member of an object has been given a key, which
  get_object_item gives to strcmp untested. The key is NULL only where
  replace_item_in_object had no memory for it.
* `ImplementsForest`: the refinement of section 2.5.
* `DuplicateIdentical`: a deep copy is a root of its own, each of its items a
  picture of an item the original shows (`Pictures`): type, name, a text of its
  own, the pictures of the same members in the same order, references followed.
  The original is as it was, and when memory runs out everything is.

### 3.5 The properties of `cjson_text`

* `PrintExact`: a print gives exactly the text of the item, and fails only for
  want of room, of which five bytes more than the text are enough, as
  `cjson.h` promises.
* `InBounds`: no print touches a byte behind its buffer, and no parsed string
  is longer than the block that was counted for it.
* `FreedOnce`: the blocks of a print that fails are freed once, in `ensure`, in
  the tail of `print` or at its end; of one that succeeds the caller has one
  block and nothing else is left.
* `RoundTrip`: an item that is printed, minified, written by another program, or
  put between a byte order mark or blanks and other bytes is parsed to itself;
  it is refused when it is nested too deeply, or when nothing may follow it and
  something does, and only then.
* `EndFound`: a text that lost its end is refused, unless it is a number; the
  end that is returned is the first byte after the value.
* `MinifySame`: minifying a formatted or commented text gives the unformatted
  one.
* `CompareMeansSame`: cJSON_Compare is equality of items whose objects have no
  two members of one name.

### 3.6 The properties of `startup`

* `ConfigRead`: after the file, each key has the value of the last line that
  names it, the number returned counts those lines, and the level is the one
  named.
* `UrlFaithful`: a URL has the host of the file (`HostKept`), the whole path of
  its names (`PathWhole`), and parameters in which a server reads what the call
  was given (`OptionsRead`); no slash is doubled and none is at the end, unless
  a name is empty or has such a slash itself (`NoEmptyName`). `OptionsRead`
  needs a host and names without separators, which nothing escapes, options
  that libcurl escapes or that need no escape, and texts that do not hold the
  model's tokens for escaped characters.
* `LinesWhole`, `TimeOfMessage`: with a lock set, a line is in one piece and
  shows the time of its own message.
* `CallsReturn`: every call of log_log returns.

### 3.7 Bounds, and why they are enough

`vmebuf`: the thresholds 2 / 6 / 8 keep the order 64 < 1024 < 1 MB, with
contents of up to 5 bytes, so that a buffer is small, is an outlier, and is
between the two; the pieces of 0, 2 and 3 bytes of two values show a byte lost
or moved. `vantiq_client`: documents of 0 and 2 bytes read by buffers of 1 and 2
give all cases of the comparison in read_callback; bodies of up to 2 bytes come
in one or two pieces; any number of redirections; two counts, so that the last
is told from the first and from the authentication's; a status that succeeds
and one that does not; thresholds 1 / 4 / 6. The state space is finite without
a bound on the number of calls, so every sequence of calls is explored.
`MaxBody` bounds the bytes of an answer and not its time: headers may come
without end.

`vme`: two addresses and two results, interchangeable (symmetry): a handle and
another one, a handle and its successor at the same address, a result and one
that comes later. A call is refused to begin when no result is free, which only
keeps the application from collecting more than two.

`dpi`: a first buffer of 4 cells, an end of transmission of 2 bytes, and
messages of 1, 4 and 5 bytes, so that a message is shorter than the buffer,
fills it, or makes it grow; three writes (`MaxSent`), so that a receive may cut
a message, join several, or end in the middle of the next. vipo itself fetches one message and ends.

`cjson_tree`: four items, and at most five of items, keys and references
together (`MaxRoom`), of three kinds, with two keys that differ in case; the
items are interchangeable (symmetry). That is a list of three members below a
root, a tree of three levels, a reference next to what it refers to, an object
whose members change their keys, a copy of two items that fits or does not, and
a lost reference or a key that is NULL next to other items.
The number of calls is not bounded.

`cjson_text`: first buffers of 1, 6 and 8 bytes, an int of at most 40, memory
for 5, 30 or 40 bytes, and given buffers of every size from none to six more than
the text needs; so prints grow once, twice and three times, by either way, and
meet both limits. Nesting up to 3 with items of depth 4; texts with every kind
of escape and characters of up to four bytes; arrays and objects of up to three
members with every pair of a few kinds.

`startup`: files of no, one or two of sixteen lines, one of which does not fit
into the buffer; names that are missing, empty, one word or with a slash in
them; two threads that log twice with a lock and once without (`MaxMessages`),
which is enough for a line of one to come between the writes of another and
for a thread to meet the lock taken, given back, and taken again.

### 3.8 Fairness

`InitReturns` and `CallReturns` are weakly fair: the code returns once libcurl
does. `Stall` is weakly fair, since a transfer on which nothing passes for a
minute has stalled, and so is `StallTimeout`, a failing transfer under
CURLOPT_LOW_SPEED_TIME: libcurl enforces the limit it was given on a transfer
that stays stalled. Nothing is assumed of the server or of the application. In `Dpi` the steps of vipo are weakly fair, except for
the time-out and the failures; a step is enabled only when select or recv would
return. Nothing is assumed of the DPI. In `Startup` a thread that is inside
log_log goes on, and the reader of the file does, each weakly fair: the
scheduler runs every thread. The lock need not be fair, since each thread logs
finitely often.

### 3.9 Where the code and its comments part

Five runs end in a violation, each of what a comment or a document says; they
are described with the line quoted in `PROJECT.json`. Some more were met that
have no run of their own:

* `vc_teardown` does not free `server_url` (`vantiq_client.c:569`), although
  the function "deallocates all resources associated with" the connection
  (`vme.c:40-41`); the failing paths of `vc_init` free nothing.
* A count in the authentication's answer is not cleared by `vc_init`
  (`vantiq_client.c:309-325`) and is the `vme_count` of the first result, if its
  own answer brings none, whatever was asked for (section 2.2).
* "sometimes things will hang. don't let that hang the app"
  (`vantiq_client.c:228`): the limit does not reach a server that redirects or
  sends without end (section 3.1).
* `cJSON_AddItemReferenceToObject` leaks the reference when its key cannot be
  copied, and `replace_item_in_object` links an item whose name is NULL
  (section 2.5).
* `fetch_discovery_msg` "will block until message receipt" (`vipo.c:56`), but
  returns NULL after 300 seconds, when select fails, and at the end of the
  transmission; main measures it with strlen.
* vipo "delivers device discovery data" (`vipo.c:4-5`), but what one `recv`
  returns is acknowledged and published, a part of a message included.
* The level "FATAL" is one that `vme.h:170` lists; `vme_set_log_level` stops
  looking before it (`log.c:80`) and leaves the level as it is.
* A user's `vmebuf_ensure_size` with a size below the length in use cuts a large
  buffer's contents off, against `vme.h:144-145` (section 2.1).
* `vme_patch` alone returns NULL for an invalid handle (`vme.c:446`), which a
  caller that looks at `vme_error_msg` follows.
* The paging loop of `src/README.md:102` ends on a result of at most two bytes;
  an error answer is longer.
* An empty name of a resource gives the slash at the end of a path that the
  comment of build_rsuri wants to avoid (`utils.c:99`).
* A line that is longer than the buffer of parseKeysVals is read as two: the
  rest of a comment is taken for a line of its own (`config.c:54`).
* A file without VANTIQ_BASEURL leaves the URL NULL, and vc_init measures it
  (`vantiq_client.c:268`); it trims one slash, not several.
* `replace_item_in_object` renames the replacement before it knows whether there
  is an item to replace, and does not say whether it took it.

## 4. Proofs

All theorems hold for every value of the constants under the assumptions
declared with them: the thresholds are ordered as in the code, `Junk` and `NUL`
are no bytes, documents and pieces are sequences of bytes, statuses and counts
are numbers, `INITBUFSIZE` is longer than the end of transmission
(`DpiAssumption`), `Nobody` is no thread (`LogAssumption`), an address is no
result and NULL neither (`VmeAssumption`), the items of cJSON are finitely
many (`TreeAssumption`), files, names and options are texts, NULL is not the
name of a level and a version is digits below 1000, as `utils.c:85` asserts
(`TextAssumption`), and the buffer of a line has room for one byte and its end
(`LineAssumption`). There may be any number of bytes, handles, results,
items, names and threads.

* `VmeBufOpsProofs` proves what each operation does to the contents of a
  well-formed buffer (`ResizeKeeps`, `StoreAppends`, `ConcatAppends`, ...).
  The heart is that a reallocation to at least the length in use keeps the
  contents, whichever of the two tests asked for it.
* `VmeBufProofs`: `InBounds` is inductive with the fact that a destroyed buffer
  is empty. `OutliersReleased` follows because an append of n bytes asks for at
  most 2 * len + MIN_BUF_SIZE. `Refinement` maps each call to a step of
  `ByteString` or a stutter.
* `VantiqClientProofs`: the safety properties are not inductive. `Inv` adds to
  them what holds during a call: the receive buffer holds the body so far and
  the pending count is the one it started with or the exchange brought
  (`ReceiveInv`); the message holds the
  document and the read position is where the server's prefix ends
  (`MessageInv`); an accepted document is whole (`DocumentInv`); no failure
  before the end and no status before the answer (`PhaseInv`). One lemma for
  each action shows that it keeps `Inv`; the theorems follow. `Refinement`
  shows that each action is a step of `RestCall`: the calls are `Ask`, what
  libcurl takes of a document is `Deliver`, what it makes of an answer is
  `Hear`, and `ReturnRefines` shows that prepare_result computes the result
  of `RestCall` from the receive buffer.
* `DpiProofs`: `TypeOK`, `StreamKept`, `RoomForTerminator` and
  `OnlyWhatWasSent`, for every first size, every message and every way the
  stream is cut. They are inductive together with `Progress`: before the
  connection nothing was sent, before a message is there none is acknowledged or
  published, and one that is there has a byte. A receive keeps `StreamKept`
  because a stream is what is read of it and the rest (`ReadAndRest`),
  concatenation is associative, and `Store` and `Resize` do to the contents
  what `VmeBufOpsProofs` says. `OnlyWhatWasSent` holds because a beginning of
  the stream stays one when the DPI writes on (`PrefixOfConcat`).
* `StartupProofs`: `LinesWhole` and `TimeOfMessage`, for any number of threads
  and messages, `ConfigRead`, for any file, and `UrlFaithful`, for any names,
  versions, options and URL. `LogInv` says that with a lock set only its holder is inside a
  line, that every stream is empty or holds what the holder has written of the
  line it is in (`Piece`), and that the shared time is the holder's while it
  writes. `ReadInv` says that reading stands behind a line and that the
  configuration is what the lines before it ask for (`ReadTo`): a line that fits
  into the buffer is read whole (`FgetsIs`), its key and value are what stands on
  both sides of the first "=" (`LineParts`, `WordIs`), and reading it brings the
  configuration up to its end (`LineRead`). `NothingCut` is the sum of
  `build_rsuri`: with an empty name, an empty id and a version of three digits
  the size it computes is reached exactly. `UrlInv` adds that the URL in the
  configuration ends in the slash that vc_init takes off, also after lines that
  were too long, and that a query is a text (`FlattenIn`, `QueryIn`).
  `OptionsRead` is an induction on the parameters: behind a text whose pairs are
  the first of them, a separator, a key, "=" and a text without separators add
  one pair and leave the others as they are (`OneMorePair`, `PairsKept`,
  `OneMoreHeld`); what is escaped has no separator and is read again as it was
  (`SentIs`), because no two characters have one escape. Texts without a slash
  at the end and without two in a row can be joined (`SmoothJoined`), and the
  path is made of such (`SmoothPath`).
* `VmeProofs`: `TypeOK`, `UsesLive`, `OwnedApart` and `TemporariesFreed`, by the
  argument of a proof outline. `Takes(A, p, B)` says that there is a trace: sets
  of blocks, one between each two statements of the program p, from A to B, in
  which every statement finds what it uses. Programs are put together from parts
  that have traces (`BothTake`, `PairTakes`, `AroundTakes`), so there is one
  lemma for each entry point. `AtRest` is what a handle has between calls:
  either all its parts and no temporary, or, torn down, server_url alone. A
  second argument is needed for refused calls: with NULL a program
  may make and free temporaries, but must look at the handle before it uses a
  part of it (`NullGoes`). `Inv` says that the rest of the running program has a
  trace from what its handle has now, that every other handle is at rest, and
  that every result has its blocks.
* `CjsonTreeProofs`, on the lemmas of `CjsonTreeOpsProofs`: `TypeOK`, `Linked`,
  `OwnedOnce`, `StringsBalanced` and `MembersNamed`, for any number of items.
  The pointers alone do not say who owns a later sibling, so the invariant adds
  a function `up` from items to owners. `Graph(L, N, P, K, R, up)` says that
  next and prev agree, that siblings have one owner, that a list starts at its
  owner's child or at an item of R, and that there is no circle: in any set of
  items one is entered from outside (`Rooted`), which is what makes a deletion
  a tree and reaches every item. `Whole` adds the count of strings, the names,
  and that a reference shows a list of a live owner of its type; `Inv` is that
  some `up` makes the heap whole, that its roots, which are what the application
  holds and what is lost, have no sibling, and that what is lost is a reference,
  so that nothing hangs from it (`AllReached`). Each operator on pointers has a lemma that it keeps `Whole` and what
  becomes of `up` (`AppendWhole`, `InsertWhole`, `DetachWhole`, `SwapWhole`,
  `DeleteWhole`, `NewWhole`, `KeyWhole`), each call one that it keeps `Inv`. The
  recursive functions are in reach because their arguments are natural numbers, or
  the number of free items: `CopyAt` shows that `copy` is what its body says,
  and `CopyStep`, that a call of it leaves all that was there as it was
  (`Grown`) and either makes a new tree or, when memory runs out at any depth,
  takes all of it back.
* `CjsonTreeProofs` proves `ImplementsForest` from the same invariant. A sequence
  of items is `Strung` when next leads from each to the one behind it; the
  members of an item are the only such sequence from its child to an end
  (`StrungOnly`, `ChainIs`), and they are the items whose owner it is, each once
  (`KidsAre`, `WholeKids`). A sequence that is strung stays so, with one item
  more, less or another in its place, under the assignments of a link
  (`StrungInsert`, `StrungRemove`, `StrungReplace`), and every other one is not
  touched (`OthersSame`). So each pointer operator changes the members of one
  item at one place (`AddKids`, `InsertKids`, `DetachKids`, `SwapKids`), new items
  and copies add sequences and change none (`GrewStep`), and what a deletion
  comes to is the tree of `Forest` below the item (`TreeIs`), since every
  sub-tree has a root (`Rooted`). One lemma for each call names the step of
  `Forest` it is; `NextForest` and `Refinement` put them together.
* `DuplicateIdentical` (`CopiesIdentical`) is an induction on the free items, as
  the recursion of `copy` is. A map takes each new item to the one it stands for,
  pointer by pointer: child to child, next to next (`Paints`). `copy` of an item
  extends such a map (`PaintStep`): the item it allocates stands for the item, the
  calls for the members extend the map one by one (`SiblingsPaint`), and attaching
  a member to the list keeps it a map (`AttachedPaints`). A map that agrees on
  pointers agrees on the sequences they spell (`WalkMaps`), which makes the
  pictures (`PicturesMade`); and when a call below fails, deleting what was made
  gives back the very heap there was (`GrownBack`).

Only model-checked: `StalledCallReturns`, `CallsReturn` and `CloseEndsWait`, since
liveness under fairness is beyond the prover; the violations; and the seven
properties of `cjson_text`. `CjsonText` computes with recursive operators, as the
parser and the printer recurse on items and texts without a bound, so there is
nothing in it for the prover; TLC evaluates it on the items of its run.

## 5. Plan

What is left, the most important first.

1. The publication of vipo composed with `RestCall`: a message that was
   acknowledged and whose publication fails.
2. The documented loop over pages on `RestCall`.
3. The printer of `CjsonText` as a function of an item's depth, so that
   `InBounds` and `FreedOnce` could be proved of every item.

## 6. Not modelled

The text of the authorization header, of error messages and of log lines; TLS;
a value of X-Total-Count that is longer than the buffer it is copied to;
the numbers of cJSON that are not integers, its error pointer, and memory that
runs out in its parser; the parameters of entry points other than select;
`vme_callback_state`; the allocations of a size that overflows; the sockets of
vipo before a connection stands; `src/src/vipo/log.c`, which prints. Allocation
failures outside cJSON are left out because the code asserts them away or
ignores them. The tests and the examples use the library against a live server
and are no part of the models.

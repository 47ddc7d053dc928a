------------------------------ MODULE Startup ------------------------------
(***************************************************************************)
(* A program that uses libvme from its start: it reads the configuration   *)
(* file (src/vme/config.c), which sets the level of the log, and then runs *)
(* threads that log (Log), or opens a handle with the URL it read and      *)
(* makes the URLs of its requests (ConfigFile).                            *)
(***************************************************************************)
EXTENDS ConfigFile, Log

CONSTANTS
  File,           \* configuration files
  Name,           \* names and ids of resources, NULL and the empty one among them
  Version,        \* API versions, as digits
  Select          \* what a select may be given: a text or NULL for each option

(* A text is a sequence of tokens, and NULL is none; a version is digits,  *)
(* below 1000 as build_rsuri asserts.                                      *)
ASSUME TextAssumption ==
  /\ File \subseteq Seq(STRING)
  /\ \A i \in 0 .. LOG_ERROR : NULL # <<level_names[i + 1]>>
  /\ \A v \in Version : v \in Seq(STRING) /\ Len(v) <= 3 /\ "/" \notin ToSet(v)
  /\ \A n \in Name : n = NULL \/ n \in Seq(STRING)
  /\ \A q \in Select, o \in Option : q[o] = NULL \/ q[o] \in Seq(STRING)

VARIABLES
  phase,          \* "start", "reading", "configured", "logging" or "open"
  file, at,       \* the configuration file, and how much of it was read
  buffer,         \* the line read last
  read,           \* the configuration so far, and how many lines were taken
  result,         \* what vme_parse_config returned
  base,           \* server_url of the handle
  request         \* the last request: what was asked for and the URL made of it

vars == <<logvars, phase, file, at, buffer, read, result, base, request>>

NoRequest == [made |-> FALSE]

Init ==
  /\ LogInit
  /\ phase = "start" /\ file \in File /\ at = 0 /\ buffer = << >>
  /\ read = [config |-> NoConfig, lines |-> 0] /\ result = NULL
  /\ base = NULL /\ request = NoRequest

quietvars == <<mutex, tm, pc, part, said, output>>

(* vme_parse_config: without a file nothing is set. *)
Open == \E found \in BOOLEAN :
  /\ phase = "start"
  /\ read' = [config |-> NoConfig, lines |-> 0]
  /\ result' = IF found THEN NULL ELSE -1
  /\ phase' = IF found THEN "reading" ELSE "configured"
  /\ UNCHANGED <<logvars, file, at, buffer, base, request>>

ReadLine ==
  /\ phase = "reading" /\ at < Len(file)
  /\ buffer' = fgets(file, at)
  /\ at' = at + Len(buffer')
  /\ read' = parseLine(read, buffer')
  /\ UNCHANGED <<logvars, phase, file, result, base, request>>

(* At the end of the file the level is set: the one named, or LOG_WARN.    *)
ReadEnd ==
  /\ phase = "reading" /\ at = Len(file)
  /\ L' = IF read.config["log_level"] = NULL THEN [L EXCEPT !.level = LOG_WARN]
          ELSE WithLevel(L, read.config["log_level"])
  /\ result' = read.lines
  /\ phase' = "configured"
  /\ UNCHANGED <<quietvars, file, at, buffer, read, base, request>>

(* What the program sets before its threads start. *)
Configure ==
  /\ phase = "configured"
  /\ log_set_lock \/ log_set_fp \/ log_set_quiet
  /\ UNCHANGED <<quietvars, phase, file, at, buffer, read, result, base, request>>

(* From here on nothing but the level and the URL matters of the file.     *)
Forget ==
  /\ file' = << >> /\ at' = 0 /\ buffer' = << >> /\ result' = NULL

StartThreads ==
  /\ phase = "configured" /\ phase' = "logging"
  /\ Forget /\ read' = [config |-> NoConfig, lines |-> 0]
  /\ UNCHANGED <<logvars, base, request>>

Run ==
  /\ phase = "logging" /\ LogNext
  /\ UNCHANGED <<phase, file, at, buffer, read, result, base, request>>

(* vc_init: the program gives it a URL only if the file had one. *)
OpenHandle ==
  /\ phase = "configured" /\ read.config["vantiq_url"] # NULL
  /\ base' = server_url(read.config["vantiq_url"])
  /\ phase' = "open" /\ Forget
  /\ UNCHANGED <<logvars, read, request>>

(* A path from vme_build_system_rsuri or vme_build_custom_rsuri, and the   *)
(* URL vme_select makes of it.                                             *)
Request == \E version \in Version, rsName, rsID \in Name, q \in Select, escaped \in BOOLEAN :
  /\ phase = "open" /\ request = NoRequest
  /\ rsName # NULL \/ rsID # NULL
  /\ LET path == build_rsuri(version, <<"ns">>, rsName, rsID)
     IN  request' = [made |-> TRUE, version |-> version, name |-> rsName, id |-> rsID, q |-> q,
                     escaped |-> escaped, path |-> path,
                     url |-> create_url(base, path, build_select_params(q), escaped)]
  /\ UNCHANGED <<logvars, phase, file, at, buffer, read, result, base>>

RequestDone ==
  /\ request # NoRequest /\ request' = NoRequest
  /\ UNCHANGED <<logvars, phase, file, at, buffer, read, result, base>>

Next ==
  \/ Open \/ ReadLine \/ ReadEnd
  \/ Configure \/ StartThreads \/ Run
  \/ OpenHandle \/ Request \/ RequestDone

(* A thread inside log_log goes on, and so does the one that reads. *)
Fairness == WF_vars(ReadLine \/ ReadEnd) /\ \A t \in Thread : WF_vars(Run /\ InCall(t))

Spec == Init /\ [][Next]_vars /\ Fairness

-----------------------------------------------------------------------------
(* The lines of a text, and what stands before and after the first "=".    *)
LineEnds(f) == {k \in DOMAIN f : f[k] = "\n" \/ k = Len(f)}
Line(f, end) == SubSeq(f, Max({k \in LineEnds(f) : k < end} \cup {0}) + 1, end)
FirstWord(s) ==
  LET in == {k \in DOMAIN s : s[k] \notin Space
                /\ \A i, j \in 1 .. k : i < j /\ s[i] \notin Space => s[j] \notin Space}
  IN  IF in = {} THEN << >> ELSE SubSeq(s, Min(in), Max(in))
Equals(s) == {k \in DOMAIN s : s[k] = "="}
Left(s) == FirstWord(SubSeq(s, 1, Min(Equals(s)) - 1))
Right(s) == FirstWord(SubSeq(s, Min(Equals(s)) + 1, Len(s)))

(* The ends of the lines that say something of a key. *)
Says(f, key) ==
  {end \in LineEnds(f) :
     LET s == Line(f, end)
     IN  s[1] # "#" /\ Equals(s) # {} /\ Right(s) # << >> /\ cmp_strings(Left(s), KeyName(key))}

Asked(f, key) ==
  IF Says(f, key) = {} THEN NULL
  ELSE LET value == Right(Line(f, Max(Says(f, key))))
       IN  IF key = "vantiq_url" /\ Last(value) # "/" THEN Append(value, "/") ELSE value

(* When the file has been read, every key has the value of the last line   *)
(* that names it, comments, blank lines and unknown keys aside, the number *)
(* returned is the number of such lines, and the level is the one named:   *)
(* for files whose lines fit into the buffer, and a level that             *)
(* vme_set_log_level looks for.                                            *)
ConfigRead ==
  phase = "configured" /\ result # NULL /\ result # -1
  /\ (\A end \in LineEnds(file) : Len(Line(file, end)) < MAXLINELENGTH) =>
    /\ \A key \in Key : read.config[key] = Asked(file, key)
    /\ result = Cardinality(UNION {Says(file, key) : key \in Key})
    /\ Asked(file, "log_level") = NULL => L.level = LOG_WARN
    /\ \A i \in 0 .. LOG_ERROR : Asked(file, "log_level") = <<level_names[i + 1]>> => L.level = i

(* The slash that set_config_param adds to the URL of the file and the one *)
(* that vc_init takes off go together.                                     *)
HostKept ==
  request.made =>
    LET given == read.config["vantiq_url"]
    IN  Len(given) > 1 /\ given[Len(given) - 1] # "/" =>
          request.url = Front(given) \o Ahead(request.url, Len(given) - 1)

(* The size that build_rsuri computes cuts no path. *)
PathWhole ==
  request.made =>
    SubSeq(request.url, Len(base) + 1, Len(base) + Len(request.path)) =
      PathText(request.version, <<"ns">>, request.name, request.id)

(* Names that are not empty, and have no slash at an end and no two in a   *)
(* row themselves, give a path of which the same is true.                  *)
Smooth(s) == \A k \in DOMAIN s : s[k] = "/" => k < Len(s) /\ s[k + 1] # "/"
Clean(name) == name = NULL \/ (name # << >> /\ Head(name) # "/" /\ Smooth(name))

NoEmptyName == request.made /\ Clean(request.name) /\ Clean(request.id) => Smooth(request.path)

(* No option is lost and no character of one taken for a separator, as     *)
(* long as libcurl escapes them (build_select_params, create_url).  The    *)
(* host and the names are not escaped, so they must have no mark of their  *)
(* own; and that a character is escaped is a token that no text has.       *)
OptionsRead ==
  request.made =>
    LET asked == {o \in Option : request.q[o] # NULL}
        Free(set) == \A o \in asked : ToSet(request.q[o]) \cap set = {}
        marks == (ToSet(base) \cup ToSet(request.path)) \cap {"?", ";"}
    IN  /\ marks = {} /\ Free({Escape[c] : c \in DOMAIN Escape})
        /\ request.escaped \/ Free(DOMAIN Escape)
        => Pairs(request.url) = {[key |-> o, value |-> request.q[o]] : o \in asked}

(* The URL of a request is the host of the file, one slash, the path of    *)
(* the names, and options in which the server reads exactly what the       *)
(* select was given.                                                       *)
UrlFaithful == HostKept /\ PathWhole /\ NoEmptyName /\ OptionsRead
=============================================================================

----------------------------- MODULE ConfigFile -----------------------------
(***************************************************************************)
(* The texts of src/vme/config.c, src/vme/utils.c and of create_url in     *)
(* src/vme/vantiq_client.c: a line of the configuration file, the paths of *)
(* resources and the URL of a request.  A text is a sequence of tokens: a  *)
(* character the code looks at, or a word it does not look into.           *)
(***************************************************************************)
EXTENDS Integers, FiniteSetsExt, SequencesExt

CONSTANTS
  NULL,
  MAXLINELENGTH,  \* how many characters the line's buffer has, 1024 in the code
  Fold            \* words in lower case: a function

ASSUME LineAssumption == MAXLINELENGTH \in Nat \ {0, 1}

Space == {" ", "\t", "\n"}

-----------------------------------------------------------------------------
(* Reading: f is the file, at how much of it has been read. *)
Ahead(f, at) == SubSeq(f, at + 1, Len(f))

(* How many characters of s come before the first of a set, all without.   *)
Before(s, set) == Min({k - 1 : k \in {j \in DOMAIN s : s[j] \in set}} \cup {Len(s)})

(* fgets: up to the end of the line, the buffer or the file. *)
fgets(f, at) ==
  SubSeq(Ahead(f, at), 1, Min({Before(Ahead(f, at), {"\n"}) + 1, MAXLINELENGTH - 1, Len(f) - at}))

(* Fault: what is behind the word stays. *)
RemoveLeadingSpaces(s) ==
  LET start == Min({k \in DOMAIN s : s[k] \notin Space} \cup {Len(s) + 1})
  IN  SubSeq(s, start, Len(s))

(* The first word: without the spaces before it, up to the one after it. *)
remove_spaces(s) ==
  LET start == Min({k \in DOMAIN s : s[k] \notin Space} \cup {Len(s) + 1})
      rest == SubSeq(s, start, Len(s))
  IN  SubSeq(rest, 1, Before(rest, Space))

Lower(word) == IF word \in DOMAIN Fold THEN Fold[word] ELSE word
cmp_strings(s, t) == [k \in DOMAIN s |-> Lower(s[k])] = [k \in DOMAIN t |-> Lower(t[k])]

Key == {"dpi_port", "dpi_socket_path", "vantiq_url", "vantiq_token", "log_level"}
KeyName(key) ==
  CASE key = "dpi_port" -> <<"DPIPORT">>
    [] key = "dpi_socket_path" -> <<"DPISOCKETPATH">>
    [] key = "vantiq_url" -> <<"VANTIQ_BASEURL">>
    [] key = "vantiq_token" -> <<"VANTIQTOKEN">>
    [] key = "log_level" -> <<"LOG_LEVEL">>

(* The configuration before a file is read; lines counts what was taken.   *)
NoConfig == [key \in Key |-> NULL]

set_config_param(config, key, value) ==
  [k \in Key |-> IF ~cmp_strings(key, KeyName(k)) THEN config[k]
                 ELSE IF k = "vantiq_url" /\ Last(value) # "/" THEN Append(value, "/")
                 ELSE value]

IsKey(key) == \E k \in Key : cmp_strings(key, KeyName(k))

(* What parseKeysVals makes of a line: a key and a value, or none.         *)
KeyOf(line) == remove_spaces(SubSeq(line, 1, Before(line, {"="})))
ValueOf(line) == remove_spaces(SubSeq(line, Before(line, {"="}) + 2, Len(line)))
Taken(line) ==
  /\ line[1] # "#" /\ Contains(line, "=")
  /\ ValueOf(line) # << >> /\ IsKey(KeyOf(line))

parseLine(c, line) ==
  IF ~Taken(line) THEN c
  ELSE [config |-> set_config_param(c.config, KeyOf(line), ValueOf(line)), lines |-> c.lines + 1]

-----------------------------------------------------------------------------
(* vc_init takes one slash off the URL. *)
server_url(url) == IF Last(url) = "/" THEN Front(url) ELSE url

Given(s) == s # NULL /\ s # << >>

(* sizeof LONGEST_PREFIX, whose version has three digits. *)
PrefixSize == Len(<<"/", "api", "/", "v", "x", "x", "x", "/", "resources", "/">>) + 1

(* Fault: an id takes no room. *)
PathSizeNoId(ns, rsName, rsID) ==
  PrefixSize + (Len(ns) + 1) + (IF Given(rsName) THEN Len(rsName) + 1 ELSE 0) + 1

(* The size build_rsuri allocates. *)
PathSize(ns, rsName, rsID) ==
  PrefixSize + (Len(ns) + 1) + (IF Given(rsName) THEN Len(rsName) + 1 ELSE 0)
    + (IF Given(rsID) THEN Len(rsID) ELSE 0) + 1

(* /api/v<version>/resources/<ns>/... , where the version is digits.       *)
PathText(version, ns, rsName, rsID) ==
  <<"/", "api", "/", "v">> \o version \o <<"/", "resources", "/">> \o ns
    \o (IF rsName # NULL THEN <<"/">> \o rsName ELSE << >>)
    \o (IF rsID # NULL THEN <<"/">> \o rsID ELSE << >>)

(* snprintf cuts what has no room. *)
build_rsuri(version, ns, rsName, rsID) ==
  LET path == PathText(version, ns, rsName, rsID)
  IN  SubSeq(path, 1, Min({Len(path), PathSize(ns, rsName, rsID) - 1}))

-----------------------------------------------------------------------------
(* The parameters of a request: the last one built is the first. *)
build_param(head, key, value) == <<[key |-> key, value |-> value]>> \o head

(* q has a text or NULL for each option; a page or limit that is not above *)
(* 0 is NULL.                                                              *)
Option == {"props", "where", "sort", "page", "limit"}
build_select_params(q) ==
  LET add(params, key) == IF q[key] = NULL THEN params ELSE build_param(params, key, q[key])
  IN  add(add(add(add(add(<< >>, "props"), "where"), "sort"), "page"), "limit")

(* What curl_easy_escape makes of the characters that mean something in a  *)
(* URL.                                                                    *)
Escape == [c \in {"?", "=", ";", "/", " "} |->
  CASE c = "?" -> "%3F" [] c = "=" -> "%3D" [] c = ";" -> "%3B" [] c = "/" -> "%2F" [] c = " " -> "%20"]
curl_easy_escape(s) == [k \in DOMAIN s |-> IF s[k] \in DOMAIN Escape THEN Escape[s[k]] ELSE s[k]]

(* escaped says that curl_easy_escape returned a text, not NULL. *)
Query(params, escaped) ==
  FlattenSeq([k \in DOMAIN params |->
    (IF k = 1 THEN <<"?">> ELSE <<";">>) \o <<params[k].key, "=">>
      \o (IF escaped THEN curl_easy_escape(params[k].value) ELSE params[k].value)])

create_url(base, rsURI, params, escaped) == base \o rsURI \o Query(params, escaped)

(* What the server reads in a URL: the pairs between the separators. *)
Unescape(s) ==
  [k \in DOMAIN s |-> IF \E c \in DOMAIN Escape : Escape[c] = s[k]
                      THEN CHOOSE c \in DOMAIN Escape : Escape[c] = s[k] ELSE s[k]]
Pairs(url) ==
  {[key |-> url[k + 1],
    value |-> Unescape(LET rest == Ahead(url, k + 2) IN SubSeq(rest, 1, Before(rest, {";"})))] :
   k \in {j \in DOMAIN url : url[j] \in {"?", ";"}}}
=============================================================================

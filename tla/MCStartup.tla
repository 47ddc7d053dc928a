----------------------------- MODULE MCStartup -----------------------------
(* Files of one or two lines, a line of up to six characters or words; a   *)
(* line's buffer that one of them does not fit into.                       *)
EXTENDS Startup

MCFold == [w \in {"vantiqtoken", "VANTIQTOKEN"} |-> "vantiqtoken"]

EOL == <<"\n">>
Lines == {
  EOL, <<"#", "LOG_LEVEL", "=", "INFO">> \o EOL, <<"X", "=", "y">> \o EOL, <<"LOG_LEVEL">> \o EOL,
  <<"LOG_LEVEL", "=", " ">> \o EOL, <<"LOG_LEVEL", "=", "ERROR">>, <<"LOG_LEVEL", "=", "WARN">> \o EOL,
  <<"LOG_LEVEL", "=", "FATAL">> \o EOL,
  <<" ", "vantiqtoken", " ", "=", " ", "secret", "\t">> \o EOL, <<"VANTIQTOKEN", "=", "a", "=", "b">> \o EOL,
  <<"VANTIQ_BASEURL", "=", "host">> \o EOL, <<"VANTIQ_BASEURL", "=", " ", "host", "/">> \o EOL,
  <<"VANTIQ_BASEURL", "=", "host", "/", "/">> \o EOL, <<"VANTIQ_BASEURL", "=", "h", " ", "t">> \o EOL,
  <<"#", " ", " ", " ", " ", " ", " ", " ", "DPIPORT", "=", "1">> \o EOL, <<"DPISOCKETPATH", "=", "/", "s">> \o EOL}
MCFile == {<< >>} \cup Lines \cup {a \o b : a \in {s \in Lines : Last(s) = "\n"}, b \in Lines}

MCName == {NULL, << >>, <<"Type">>, <<"a", "/", "b">>, <<"i", "d">>}
MCVersion == {<<"1">>, <<"2", "5", "5">>}
Q(props, where, page) ==
  [props |-> props, where |-> where, sort |-> NULL, page |-> page, limit |-> NULL]
MCSelect == {Q(NULL, NULL, NULL), Q(<<"p">>, NULL, <<"2">>), Q(NULL, <<"a", "=", "b", ";", "c">>, NULL),
             [Q(<<"p", "?">>, <<"w">>, <<"1">>) EXCEPT !["sort"] = <<"s">>, !["limit"] = <<"5", "0">>]}
=============================================================================

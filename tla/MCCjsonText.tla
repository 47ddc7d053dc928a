---------------------------- MODULE MCCjsonText ----------------------------
(* Small buffers, short numbers and shallow nesting; items of every type,  *)
(* texts with every kind of escape, names that differ in case only.        *)
EXTENDS CjsonText

Text(s) == [Bare("string") EXCEPT !.text = s]
Raw(s) == [Bare("raw") EXCEPT !.text = s]
Named(name, v) == [v EXCEPT !.key = name]
ArrayOf(kids) == [Bare("array") EXCEPT !.kids = kids]
ObjectOf(kids) == [Bare("object") EXCEPT !.kids = kids]

(* a quote, a line feed, a control character, a slash, two and more bytes *)
Texts == {<< >>, <<34, 32>>, <<10, 92>>, <<1>>, <<47, 42>>,
          <<195, 169>>, <<226, 130, 172, 34>>, <<240, 159, 152, 128>>}
Numbers == {0, -12, 75, -62, NotFinite}
Leaves == {Bare("null"), Bare("true"), Bare("false")}
            \cup {CreateNumber(n) : n \in Numbers} \cup {Text(s) : s \in Texts}
Few == {Bare("true"), CreateNumber(7), Text(<<34, 32>>), Text(<<226, 130, 172, 34>>), Bare("array"), Bare("object")}
k == <<107>>
K == <<75>>
Pairs == {ArrayOf(<<a, b>>) : a, b \in Few}
           \cup {ObjectOf(<<Named(n, a), Named(m, b)>>) : 
                     n, m \in {k, K}, a, b \in {Bare("true"), CreateNumber(7), Bare("object")}}
Nested == {ArrayOf(<<ObjectOf(<<Named(k, ArrayOf(<<v>>))>>)>>) : v \in {Bare("null"), Bare("array")}}
            \cup {ObjectOf(<<Named(k, ObjectOf(<<Named(<<34>>, ArrayOf(<<v>>))>>))>>) :
                    v \in {Bare("false"), Bare("object")}}

MCValue == Leaves \cup Pairs \cup Nested \cup {ArrayOf(<<v>>) : v \in Few}
             \cup {ObjectOf(<<Named(<<195, 169>>, v)>>) : v \in Few}
             \cup {Bare("array"), Bare("object"), ArrayOf(<<Raw(<<91, 49, 93>>)>>),
                       ArrayOf(<<Bare("object"), Bare("array"), Bare("array")>>)}

u(a, b, c, d) == <<92, 117, a, b, c, d>>
MCSpelling == (<<195, 169>> :> u(48, 48, 69, 57)) @@ (<<226, 130, 172, 34>> :> u(50, 48, 97, 99) \o <<92, 34>>)
  @@ (<<240, 159, 152, 128>> :> u(68, 56, 51, 68) \o u(68, 69, 48, 48)) @@ (<<47, 42>> :> <<92, 47, 42>>)

MCPads == {<<BOM, << >>>>, <<<<32, 13>>, <<10, 9>>>>, <<<<9>>, <<32, 44>>>>}
MCComments == {<<<<47, 42, 34, 42, 47>>, <<32, 47, 47, 34, 10>>>>, <<<<47, 47, 10>>, <<47, 42, 42, 47>>>>}
=============================================================================

--------------------------- MODULE MCLexicalCast ---------------------------
(* Values of every type of up to three containers for LexicalCast. *)
EXTENDS LexicalCast

Text(s) == [quotes |-> 0, plain |-> s]
Quotable == LayoutText(MapNode("a" :> Scalar(Text("b"))))      \* the string "a: b"
Stdout(f) == [type |-> 2, level |-> UNKNOW, formatter |-> f, file |-> ""]
File == [type |-> 1, level |-> UNKNOW, formatter |-> "", file |-> "a.txt"]
Define(name, f, list) == [name |-> name, level |-> 2, formatter |-> f, appenders |-> list]

MCDefines ==
  {Define("a", "", <<>>), Define("a", "%m", <<Stdout("%m")>>),
   Define("b", "", <<Stdout("%m"), Stdout("")>>), Define("b", "", <<File, Stdout("")>>)}

MCInts == {Text("1"), Text("2")}

MCTypes ==
  LET Ending(leaves, k) == {c \o <<leaf>> : c \in [1 .. k -> Containers], leaf \in leaves}
  IN  UNION {Ending({"int", "string"}, k) : k \in 0 .. 2}
        \cup {<<"map">> \o T : T \in Ending({"int"}, 2)}
        \cup Ending({"LogDefine"}, 0) \cup Ending({"LogDefine"}, 1)
        \cup {<<"map">> \o T : T \in Ending({"LogDefine"}, 1)}

\* Up to two elements, and one in the outermost of three containers.
RECURSIVE Values(_, _)
Values(T, size) ==
  CASE Head(T) = "int" -> MCInts
    [] Head(T) = "string" -> {Text("1"), Quotable}
    [] Head(T) = "LogDefine" -> MCDefines
    [] Head(T) = "list" -> UNION {[1 .. k -> Values(Tail(T), 2)] : k \in 0 .. size}
    [] Head(T) = "set" ->
         {s \in kSubset(0, Values(Tail(T), 2)) \cup kSubset(1, Values(Tail(T), 2))
                  \cup kSubset(size, Values(Tail(T), 2)) :
            Tail(T) = <<"LogDefine">> => \A d, e \in s : d.name = e.name => d = e}
    [] Head(T) = "map" ->
         UNION {[keys -> Values(Tail(T), 2)] : keys \in SUBSET (IF size = 1 THEN {"k"} ELSE {"k", "l"})}

MCFiles ==
  UNION {{[type |-> T, value |-> v] : v \in Values(T, IF Len(T) > 3 THEN 1 ELSE 2)} : T \in MCTypes}
=============================================================================

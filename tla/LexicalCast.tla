---------------------------- MODULE LexicalCast ----------------------------
(***************************************************************************)
(* LexicalCast between strings and containers, nnysl/config.h, used as     *)
(* ConfigVar uses it: a file is read, then the value is turned into a      *)
(* string and back, any number of times.                                   *)
(*                                                                         *)
(* A type is a sequence of containers from outside in, "list" (also        *)
(* vector), "set" and "map" (also unordered), ending in "int", "string" or *)
(* "LogDefine".  All casts go through YAML::Load and YAML's emitter: maps  *)
(* put what Load makes of an element's string into their node, the others  *)
(* put the string itself, which makes it a scalar.                         *)
(***************************************************************************)
EXTENDS LogDefine, SequencesExt

CONSTANTS
  Files,         \* what files describe: a type and a value of it
  Ints,          \* the plain texts that are integers
  MaxTrips       \* bound: how often the value is read

VARIABLES
  type,
  file,          \* the value the file describes (observer)
  m_val,         \* ConfigVar::m_val
  text,          \* what fromString is called with next
  turn,          \* "read" or "write"
  trips          \* how often the value was read (observer)

vars == <<type, file, m_val, text, turn, trips>>

-----------------------------------------------------------------------------
(* YAML.  A text is plain or the layout of a node, in so many quotes; the   *)
(* string "a: b" is the layout of a mapping.                                *)

Null == [kind |-> "null"]
Scalar(t) == [kind |-> "scalar", text |-> t]
SeqNode(items) == IF items = <<>> THEN Null ELSE [kind |-> "seq", items |-> items]
MapNode(entries) == IF DOMAIN entries = {} THEN Null ELSE [kind |-> "map", entries |-> entries]

LayoutText(node) == [quotes |-> 0, yaml |-> node]

IsPlain(t) == t.quotes = 0 /\ "plain" \in DOMAIN t

\* stream << node: a scalar that cannot stand plain is quoted.
Emit(node) ==
  IF node.kind # "scalar" THEN LayoutText(node)
  ELSE IF IsPlain(node.text) THEN node.text
  ELSE [node.text EXCEPT !.quotes = @ + 1]

\* YAML::Load
Load(t) ==
  IF IsPlain(t) THEN Scalar(t)
  ELSE IF t.quotes > 0 THEN Scalar([t EXCEPT !.quotes = @ - 1])
  ELSE t.yaml

-----------------------------------------------------------------------------
(* To strings: each cast of a container has the strings of its elements.    *)

\* Fault variant: as for the other containers, an element is put in as it is.
EntryAsScalar(t) == Scalar(t)

\* What a map's node gets for an element's string.
Entry(t) == Load(t)

\* What the node of any other container gets.
Item(t) == Scalar(t)

ToStrWith(T, v, str) ==
  IF Head(T) = "list" THEN Emit(SeqNode([k \in DOMAIN v |-> Item(str[v[k]])]))
  ELSE IF Head(T) = "set" THEN Emit(SeqNode(SetToSeq({Item(str[e]) : e \in v})))
  ELSE IF Head(T) = "map" THEN Emit(MapNode([k \in DOMAIN v |-> Entry(str[v[k]])]))
  ELSE IF Head(T) = "LogDefine" THEN LayoutText(MapNode(ToYaml(v)))
  ELSE v

-----------------------------------------------------------------------------
(* From strings *)

\* Fault variants of the loops over a node: one short, and twice.
ItemsShort(t) == IF Load(t).kind = "seq" THEN Front(Load(t).items) ELSE <<>>
ItemsTwice(t) == IF Load(t).kind = "seq" THEN Load(t).items \o Load(t).items ELSE <<>>

\* The elements between 0 and size(), and between begin() and end(): a scalar
\* has neither.
Items(t) == IF Load(t).kind = "seq" THEN Load(t).items ELSE <<>>

Entries(t) == IF Load(t).kind = "map" THEN Load(t).entries ELSE <<>>

\* Does the cast return?  A definition must be a mapping with a name.
CastsWith(T, t, casts) ==
  IF Head(T) \in {"list", "set"} THEN \A k \in DOMAIN Items(t) : casts[Emit(Items(t)[k])]
  ELSE IF Head(T) = "map" THEN \A k \in DOMAIN Entries(t) : casts[Emit(Entries(t)[k])]
  ELSE IF Head(T) = "LogDefine" THEN Load(t).kind = "map" /\ Readable(Load(t).entries)
  ELSE Head(T) = "int" => t \in Ints

\* What it returns.
FromStrWith(T, t, val) ==
  LET elements == [k \in DOMAIN Items(t) |-> val[Emit(Items(t)[k])]]
  IN
  IF Head(T) = "list" THEN elements
  ELSE IF Head(T) = "set"
    THEN IF Tail(T) = <<"LogDefine">> THEN FirstOfEachName(elements) ELSE ToSet(elements)
  ELSE IF Head(T) = "map"
    THEN [k \in DOMAIN Entries(t) |-> val[Emit(Entries(t)[k])]]
  ELSE IF Head(T) = "LogDefine" THEN FromYaml(Load(t).entries)
  ELSE t

-----------------------------------------------------------------------------
(* What is asked of values, and of files, below *)

\* The node by which a file says v.
LayoutOfAppender(a) ==
  LET node == [type |-> IF a.type = 1 THEN "FileLogAppender" ELSE "StdoutLogAppender",
               file |-> a.file, formatter |-> a.formatter]
      keys == {key \in DOMAIN node : /\ key = "file" => a.type = 1
                                     /\ key = "formatter" => a.formatter # ""}
  IN  [key \in keys |-> node[key]]

LayoutOfDefine(d) ==
  [name |-> d.name, level |-> LevelText(d.level), formatter |-> d.formatter,
   appenders |-> [k \in DOMAIN d.appenders |-> LayoutOfAppender(d.appenders[k])]]

LayoutWith(T, v, node) ==
  IF Head(T) = "list" THEN SeqNode([k \in DOMAIN v |-> node[v[k]]])
  ELSE IF Head(T) = "set" THEN SeqNode(SetToSeq({node[e] : e \in v}))
  ELSE IF Head(T) = "map" THEN MapNode([k \in DOMAIN v |-> node[v[k]]])
  ELSE IF Head(T) = "LogDefine" THEN MapNode(LayoutOfDefine(v))
  ELSE Scalar(v)

\* The elements of a container.
Elements(T, v) == IF Head(T) = "set" THEN v ELSE {v[k] : k \in DOMAIN v}

\* Is there a string somewhere in v that cannot stand plain?
HoldsQuotableWith(T, v, holds) ==
  IF Len(T) > 1 THEN \E e \in Elements(T, v) : holds[e]
  ELSE Head(T) = "string" /\ ~IsPlain(v)

Empty(T) ==
  IF Head(T) \in {"int", "string"} THEN [quotes |-> 0, plain |-> "0"]
  ELSE IF Head(T) = "LogDefine"
    THEN [name |-> "", level |-> UNKNOW, formatter |-> "", appenders |-> <<>>]
  ELSE IF Head(T) = "set" THEN {}
  ELSE <<>>

\* Which values come back from their own string?  In a list or a set only what
\* has a plain string, and containers that are empty.  Elements of a map come
\* back if they do on their own, and a LogDefine if it has no formatter and no
\* file appender.
SurvivesWith(T, v, survives) ==
  IF Head(T) = "map" THEN \A e \in Elements(T, v) : survives[e]
  ELSE IF Head(T) \in {"list", "set"} THEN
    \A e \in Elements(T, v) :
      IF Len(T) > 2 THEN e = Empty(Tail(T))
      ELSE Tail(T) # <<"LogDefine">> /\ (Tail(T) = <<"string">> => IsPlain(e))
  ELSE Head(T) = "LogDefine" =>
         v.formatter = "" /\ \A k \in DOMAIN v.appenders : v.appenders[k].type = 2

\* Which strings does fromString refuse?  A definition in a list or a set is
\* written as text, and is no mapping any more.
RefusedWith(T, v, refused) ==
  IF Head(T) = "map" THEN \E e \in Elements(T, v) : refused[e]
  ELSE Tail(T) = <<"LogDefine">> /\ Elements(T, v) # {}

-----------------------------------------------------------------------------
(* Types and their values *)

Leaves == {"int", "string", "LogDefine"}
Containers == {"list", "set", "map"}

IsType(T) ==
  /\ T \in Seq(Leaves \cup Containers) /\ T # <<>>
  /\ \A i \in 1 .. Len(T) : T[i] \in Leaves <=> i = Len(T)

\* LogDefine and LogAppenderDefine as the reader makes them.
IsAppenderDefine(a) ==
  /\ a = [type |-> a.type, level |-> UNKNOW, formatter |-> a.formatter, file |-> a.file]
  /\ a.type \in {1, 2} /\ (a.type = 2 => a.file = "")

IsDefine(d) ==
  /\ d = [name |-> d.name, level |-> d.level, formatter |-> d.formatter,
          appenders |-> d.appenders]
  /\ d.level \in 0 .. 5
  /\ d.appenders \in Seq(ToSet(d.appenders))
  /\ \A a \in ToSet(d.appenders) : IsAppenderDefine(a)

\* A value a file can describe: its strings hold no quotes of their own, and a
\* set has one definition of each name.
IsValueWith(T, v, is) ==
  /\ Len(T) > 1 => \A e \in Elements(T, v) : is[e]
  /\ Head(T) = "list" => v \in Seq(Elements(T, v))
  /\ Head(T) = "map" => v \in [DOMAIN v -> Elements(T, v)]
  /\ Head(T) = "set" =>
       /\ IsFiniteSet(v)
       /\ Tail(T) = <<"LogDefine">> => \A d, e \in v : d.name = e.name => d = e
  /\ Head(T) = "LogDefine" => IsDefine(v)
  /\ Head(T) = "string" =>
       v.quotes = 0 /\ DOMAIN v \in {{"quotes", "plain"}, {"quotes", "yaml"}}
  /\ Head(T) = "int" => v \in Ints

-----------------------------------------------------------------------------
(* From a container to what it contains *)

\* What a cast of one level is called for on the next: the elements of a value,
\* or what the emitter makes of the elements of a text.
Parts(what, T, x) ==
  IF Len(T) = 1 THEN {}
  ELSE IF what \notin {"FromStr", "Casts"} THEN Elements(T, x)
  ELSE IF Head(T) = "map" THEN {Emit(Entries(x)[k]) : k \in DOMAIN Entries(x)}
  ELSE {Emit(Items(x)[k]) : k \in DOMAIN Items(x)}

\* One level, given what the next one says of the parts.
OneLevel(what, T, x, of) ==
  IF what = "ToStr" THEN ToStrWith(T, x, of)
  ELSE IF what = "FromStr" THEN FromStrWith(T, x, of)
  ELSE IF what = "Casts" THEN CastsWith(T, x, of)
  ELSE IF what = "Layout" THEN LayoutWith(T, x, of)
  ELSE IF what = "HoldsQuotable" THEN HoldsQuotableWith(T, x, of)
  ELSE IF what = "Survives" THEN SurvivesWith(T, x, of)
  ELSE IF what = "Refused" THEN RefusedWith(T, x, of)
  ELSE IsValueWith(T, x, of)

\* The type that is left n levels down.
From(T, n) == SubSeq(T, n + 1, Len(T))

\* The parts of some values of one type.
PartsOf(what, T, xs) == UNION {Parts(what, T, x) : x \in xs}

\* What one level says of each of them.
OnEach(what, T, xs, of) ==
  [x \in xs |-> OneLevel(what, T, x, [p \in Parts(what, T, x) |-> of[p]])]

\* The parts n levels down.
Inner(what, T, x) ==
  LET inner[n \in 0 .. Len(T)] ==
        IF n = 0 THEN {x} ELSE PartsOf(what, From(T, n - 1), inner[n - 1])
  IN  inner

\* All levels, from the innermost out; n of them are left.
Levels(what, T, x) ==
  LET levels[n \in 0 .. Len(T)] ==
        IF n = 0 THEN <<>>
        ELSE OnEach(what, From(T, Len(T) - n), Inner(what, T, x)[Len(T) - n], levels[n - 1])
  IN  levels

AllLevels(what, T, x) == Levels(what, T, x)[Len(T)][x]

ToStr(T, v) == AllLevels("ToStr", T, v)
FromStr(T, t) == AllLevels("FromStr", T, t)
Casts(T, t) == AllLevels("Casts", T, t)
Layout(T, v) == AllLevels("Layout", T, v)
HoldsQuotable(T, v) == AllLevels("HoldsQuotable", T, v)
Survives(T, v) == AllLevels("Survives", T, v)
Refused(T, v) == AllLevels("Refused", T, v)
IsValue(T, v) == AllLevels("IsValue", T, v)

ASSUME LexicalCastAssumption ==
  /\ \A t \in Ints : t.quotes = 0 /\ IsPlain(t)
  /\ \A f \in Files : IsType(f.type) /\ IsValue(f.type, f.value)
  /\ MaxTrips \in Nat

-----------------------------------------------------------------------------
(* A variable, its file and its strings *)

\* LoadFromYaml hands on the content of a scalar, and else the emitted node.
Init ==
  \E f \in Files :
    /\ type = f.type
    /\ file = f.value
    /\ m_val = Empty(f.type)
    /\ LET node == Layout(f.type, f.value) IN
         text = IF node.kind = "scalar" THEN node.text ELSE Emit(node)
    /\ turn = "read"
    /\ trips = 0

\* If the cast throws, the value stays.
fromString ==
  /\ turn = "read" /\ trips < MaxTrips
  /\ m_val' = IF Casts(type, text) THEN FromStr(type, text) ELSE m_val
  /\ turn' = "write"
  /\ trips' = trips + 1
  /\ UNCHANGED <<type, file, text>>

toString ==
  /\ turn = "write"
  /\ text' = ToStr(type, m_val)
  /\ turn' = "read"
  /\ UNCHANGED <<type, file, m_val, trips>>

Next == fromString \/ toString

Spec == Init /\ [][Next]_vars

-----------------------------------------------------------------------------
(* Properties *)

\* A file is read as it is written, at any depth, but for strings inside a
\* container that need quotes: those keep them.
FilesAreRead ==
  trips = 1 => (m_val = file <=> Len(type) = 1 \/ ~HoldsQuotable(type, file))

\* toString, then fromString: the variable keeps exactly the values that survive
\* and those whose string is refused; the rest is lost without an error.
RoundTrip ==
  turn = "write" /\ trips = 2 /\ ~HoldsQuotable(type, file) =>
    (m_val = file <=> Survives(type, file) \/ Refused(type, file))

\* What is lost is lost in the first trip: after it the value stays, unless it
\* holds strings that gain quotes with every trip.
Settles ==
  [][trips >= 2 /\ ~HoldsQuotable(type, file) => m_val' = m_val]_vars
=============================================================================

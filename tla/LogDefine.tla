----------------------------- MODULE LogDefine -----------------------------
(***************************************************************************)
(* LogDefine, what the variable "logs" says of one logger, and its way     *)
(* from and to YAML, nnysl/log.cpp.                                        *)
(*                                                                         *)
(* A YAML mapping is a function whose domain are the keys it has, so that  *)
(* IsDefined is a question about the domain.  Level names are upper case:  *)
(* fromString folds them.                                                  *)
(***************************************************************************)
EXTENDS Naturals, Sequences, TLC

UNKNOW == 0
LevelNames == <<"DEBUG", "INFO", "WARN", "ERROR", "FATAL">>

\* LogLevel::toString
LevelText(level) == IF level \in 1 .. 5 THEN LevelNames[level] ELSE "UNKNOW"

\* LogLevel::fromString: any other text is UNKNOW.
LevelOf(text) ==
  LET named == {level \in 1 .. 5 : LevelNames[level] = text} IN
    IF named = {} THEN UNKNOW ELSE CHOOSE level \in named : TRUE

Get(node, key) == IF key \in DOMAIN node THEN node[key] ELSE ""

-----------------------------------------------------------------------------
(* From YAML *)

\* An entry of "appenders" the reader does not skip.
Usable(na) ==
  /\ "type" \in DOMAIN na
  /\ \/ na["type"] = "FileLogAppender" /\ "file" \in DOMAIN na
     \/ na["type"] = "StdoutLogAppender"

\* LogAppenderDefine; its level is never read.
ReadAppender(na) ==
  [type |-> IF na["type"] = "FileLogAppender" THEN 1 ELSE 2,
   level |-> UNKNOW,
   formatter |-> Get(na, "formatter"),
   file |-> IF na["type"] = "FileLogAppender" THEN na["file"] ELSE ""]

\* The loop over "appenders": what it has read after so many entries.
Reading(list) ==
  LET read[n \in 0 .. Len(list)] ==
        IF n = 0 THEN <<>>
        ELSE IF Usable(list[n]) THEN Append(read[n - 1], ReadAppender(list[n]))
        ELSE read[n - 1]
  IN  read

ReadAppenders(node) ==
  LET list == IF "appenders" \in DOMAIN node THEN node["appenders"] ELSE <<>>
  IN  Reading(list)[Len(list)]

\* Without a name, as<std::string> throws.
Readable(node) == "name" \in DOMAIN node

FromYaml(node) ==
  [name |-> node["name"],
   level |-> LevelOf(Get(node, "level")),
   formatter |-> Get(node, "formatter"),
   appenders |-> ReadAppenders(node)]

-----------------------------------------------------------------------------
(* To YAML *)

\* The file is not written, and a file appender under a name the reader does
\* not know.
WriteAppender(a) ==
  LET node == [level |-> LevelText(a.level),
               type |-> IF a.type = 1 THEN "FileAppender" ELSE "StdoutLogAppender",
               formatter |-> a.formatter]
      keys == {key \in DOMAIN node : /\ key = "type" => a.type \in {1, 2}
                                     /\ key = "formatter" => a.formatter # ""}
  IN  [key \in keys |-> node[key]]

\* The formatter is written only if there is none.
ToYaml(d) ==
  LET node == [name |-> d.name, level |-> LevelText(d.level), formatter |-> "",
               appenders |-> [k \in DOMAIN d.appenders |-> WriteAppender(d.appenders[k])]]
      keys == {key \in DOMAIN node : /\ key = "formatter" => d.formatter = ""
                                     /\ key = "appenders" => d.appenders # <<>>}
  IN  [key \in keys |-> node[key]]

-----------------------------------------------------------------------------
\* std::set<LogDefine> compares names: of definitions with one name the first
\* that is inserted stays.
FirstOfEachName(ds) ==
  {ds[k] : k \in {m \in DOMAIN ds : \A j \in 1 .. m - 1 : ds[j].name # ds[m].name}}

\* find in a set<LogDefine>, by name.
Named(ds, name) == {d \in ds : d.name = name}
=============================================================================

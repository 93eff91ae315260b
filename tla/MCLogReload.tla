----------------------------- MODULE MCLogReload -----------------------------
(* An instance of LogReload for TLC. *)
EXTENDS LogReload

\* As bin/conf/log.yaml: two loggers, an appender with a formatter of its own.
First ==
  <<"name" :> "root" @@ "level" :> "INFO" @@ "formatter" :> "f1" @@
      "appenders" :> << "type" :> "StdoutLogAppender" @@ "formatter" :> "f2" >>,
    "name" :> "net" @@ "level" :> "DEBUG">>

\* As bin/conf/log2.yaml: only the root logger, without a formatter; and one
\* for an appender that does not parse.
Second ==
  <<"name" :> "root" @@ "level" :> "INFO" @@
      "appenders" :> << "type" :> "FileLogAppender" @@ "file" :> "m",
                        "type" :> "StdoutLogAppender" @@ "formatter" :> "bad" >> >>

\* A name twice, no level, an appender that cannot be used.
Third ==
  <<"name" :> "net" @@ "formatter" :> "f1" @@
      "appenders" :> << "type" :> "FileLogAppender",
                        "type" :> "StdoutLogAppender" >>,
    "name" :> "net" @@ "level" :> "ERROR",
    First[1]>>

\* No name: refused.
Fourth == <<"level" :> "INFO">>

MCDocuments == {First, Second, Third, Fourth}
=============================================================================

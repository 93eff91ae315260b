----------------------------- MODULE LogReload -----------------------------
(***************************************************************************)
(* The loggers while they are reconfigured, nnysl/log.cpp: LogIniter's     *)
(* listener on the variable "logs" and LoggerManager, beside threads that  *)
(* log.  Every step on a logger or an appender is one of module Logger's.  *)
(*                                                                         *)
(* The variable is used as ConfigVar has it: the listener runs under the   *)
(* read lock, the new value is stored under the write lock after that, and *)
(* rounds of several setters may overlap.                                  *)
(***************************************************************************)
EXTENDS Logger, LogDefine

CONSTANTS
  Setters,       \* the threads that load configurations
  Main,          \* the one of them that constructs the LoggerManager
  Documents,     \* what they load: sequences of YAML mappings
  Texts,         \* what they hold under "formatter" and "file"
  INFO,
  Events,        \* the levels other threads log at
  MaxLoads       \* bound: how often a configuration is loaded

OFF == 100       \* the level of a logger that is no longer configured

ASSUME LogReloadAssumption ==
  /\ Setters \subseteq Threads /\ Main \in Setters
  /\ {UNKNOW, INFO, OFF} \cup Events \cup 1 .. 5 \subseteq Levels
  /\ "" \in Texts /\ NoFormatter \notin Texts
  /\ Careful = Appenders
  /\ MaxLoads \in Nat

AppenderDefines == [type : {1, 2}, level : Levels, formatter : Texts, file : Texts]

Defines ==
  [name : Loggers, level : Levels, formatter : Texts, appenders : Seq(AppenderDefines)]

\* A mapping of the instance: a logger under "name", Texts where the reader takes
\* a string, and entries under "appenders".
IsLoggerNode(node) ==
  /\ "name" \in DOMAIN node => node["name"] \in Loggers
  /\ Get(node, "formatter") \in Texts
  /\ LET list == IF "appenders" \in DOMAIN node THEN node["appenders"] ELSE <<>> IN
       /\ Len(list) \in Nat
       /\ \A n \in 1 .. Len(list) :
            Get(list[n], "formatter") \in Texts /\ Get(list[n], "file") \in Texts

ASSUME DocumentsAssumption ==
  \A document \in Documents :
    /\ Len(document) \in Nat /\ DOMAIN document = 1 .. Len(document)
    /\ \A k \in DOMAIN document : IsLoggerNode(document[k])

VARIABLES
  logs,          \* the value of the variable "logs"
  arg,           \* new_value of the round each setter is in
  stage,         \* where the setter stands in it
  todo,          \* the definitions its loop has still to visit, in any order
  cur,           \* the definition it has reached
  more,          \* those of its appenders that do not exist yet
  made,          \* the appender it sets up
  kind,          \* which appenders exist, and of which type they are
  known,         \* LoggerManager::m_loggers
  loads,         \* how many loads there were
  mixed          \* did two rounds ever overlap? (observer)

round  == <<arg, stage, todo, cur, more, made>>
reload == <<logs, round, kind, known, loads, mixed>>
all    == <<vars, reload>>

Stages == {"idle", "log", "apply", "format", "clear", "make", "own",
           "add", "remove", "drop", "store"}

\* Before main: the root logger exists and its one appender is on the way.
NoDefine == [name |-> Root, level |-> DEBUG, formatter |-> "", appenders |-> <<>>]
StdoutDefine == [type |-> 2, level |-> DEBUG, formatter |-> "", file |-> ""]

ReloadInit ==
  /\ Init
  /\ logs = {}
  /\ arg = [t \in Setters |-> {}]
  /\ stage = [t \in Setters |-> IF t = Main THEN "make" ELSE "idle"]
  /\ todo = [t \in Setters |-> {}]
  /\ cur = [t \in Setters |-> NoDefine]
  /\ more = [t \in Setters |-> IF t = Main THEN <<StdoutDefine>> ELSE <<>>]
  /\ made = [t \in Setters |-> NoAppender]
  /\ kind = [a \in Appenders |-> 0]
  /\ known = {}
  /\ loads = 0
  /\ mixed = FALSE

Booted == Root \in known

\* Fault variant: setValue's read lock outlives the block it belongs to.
InRoundStill(t) == stage[t] # "idle"

\* t holds the read lock of "logs".
InRound(t) == stage[t] \notin {"idle", "store"}

-----------------------------------------------------------------------------
(* The variable *)

\* A step of t's own, between calls to loggers.
Between(t, s) ==
  /\ ~crashed
  /\ pc[t] = "idle"
  /\ stage[t] = s

\* NNYSL_LOG_INFO(NNYSL_LOG_ROOT())
InformRoot(t) ==
  \/ LogStatement(t, Root, INFO)
  \/ m_level[Root] > INFO /\ UNCHANGED vars

\* fromString of a document with a nameless entry: the cast throws, and the
\* exception is logged.
Refuse(t, document) ==
  /\ Between(t, "idle") /\ Booted
  /\ loads < MaxLoads
  /\ \E k \in DOMAIN document : ~Readable(document[k])
  /\ InformRoot(t)
  /\ loads' = loads + 1
  /\ UNCHANGED <<logs, round, kind, known, mixed>>

\* fromString, and setValue up to its first listener.  A document that changes
\* nothing returns.
Load(t, document) ==
  /\ Between(t, "idle") /\ Booted
  /\ loads < MaxLoads
  /\ \A k \in DOMAIN document : Readable(document[k])
  /\ LET new == FirstOfEachName([k \in DOMAIN document |-> FromYaml(document[k])]) IN
       /\ new # logs
       /\ arg' = [arg EXCEPT ![t] = new]
       /\ todo' = [todo EXCEPT ![t] = new]
  /\ stage' = [stage EXCEPT ![t] = "log"]
  /\ loads' = loads + 1
  /\ mixed' = (mixed \/ \E u \in Setters : stage[u] # "idle")
  /\ UNCHANGED <<vars, logs, cur, more, made, kind, known>>

\* setValue after the listeners: the write lock waits for the rounds of others.
Store(t) ==
  /\ Between(t, "store")
  /\ \A u \in Setters : ~InRound(u)
  /\ logs' = arg[t]
  /\ stage' = [stage EXCEPT ![t] = "idle"]
  /\ UNCHANGED <<vars, arg, todo, cur, more, made, kind, known, loads, mixed>>
-----------------------------------------------------------------------------
(* The listener *)

Goto(t, s) == stage' = [stage EXCEPT ![t] = s]

\* "on_logger_conf_changed"
Announce(t) ==
  /\ Between(t, "log")
  /\ InformRoot(t)
  /\ Goto(t, "apply")
  /\ UNCHANGED <<logs, arg, todo, cur, more, made, kind, known, loads, mixed>>

\* Fault variant: operator== is forgotten, every definition counts as new.
SameNever(d) == FALSE

\* The old value has an equal definition.
Same(d) == d \in logs

\* The first loop passes over a definition that did not change.
Skip(t) ==
  /\ Between(t, "apply")
  /\ \E d \in todo[t] : Same(d) /\ todo' = [todo EXCEPT ![t] = @ \ {d}]
  /\ UNCHANGED <<vars, logs, arg, stage, cur, more, made, kind, known, loads, mixed>>

\* LoggerManager::getLogger creates the logger if there is none; then setLevel.
Apply(t) ==
  /\ Between(t, "apply")
  /\ \E d \in todo[t] :
       /\ ~Same(d)
       /\ SetLevel(t, d.name, d.level)
       /\ known' = known \cup {d.name}
       /\ cur' = [cur EXCEPT ![t] = d]
       /\ more' = [more EXCEPT ![t] = d.appenders]
       /\ todo' = [todo EXCEPT ![t] = @ \ {d}]
  /\ Goto(t, "format")
  /\ UNCHANGED <<logs, arg, made, kind, loads, mixed>>

\* An empty formatter leaves the logger the one it has, and so does a wrong one.
SetFormat(t) ==
  /\ Between(t, "format")
  /\ \/ \E f \in Formatters : f = cur[t].formatter /\ FormatLock(t, cur[t].name, f)
     \/ cur[t].formatter \notin Formatters /\ UNCHANGED vars
  /\ Goto(t, "clear")
  /\ UNCHANGED <<logs, arg, todo, cur, more, made, kind, known, loads, mixed>>

\* Fault variant: the old appenders stay.
ClearForgets(t) ==
  /\ Between(t, "clear")
  /\ Goto(t, "make")
  /\ UNCHANGED <<vars, logs, arg, todo, cur, more, made, kind, known, loads, mixed>>

Clear(t) ==
  /\ Between(t, "clear")
  /\ ClearAppenders(t, cur[t].name)
  /\ Goto(t, "make")
  /\ UNCHANGED <<logs, arg, todo, cur, more, made, kind, known, loads, mixed>>

\* A new appender, of which no other thread knows, gets its level.
Make(t) ==
  /\ Between(t, "make")
  /\ more[t] # <<>>
  /\ LET unused == {b \in Appenders : kind[b] = 0}
         a      == CHOOSE b \in unused : TRUE
     IN  /\ unused # {}
         /\ AppenderSetLevel(t, a, Head(more[t]).level)
         /\ kind' = [kind EXCEPT ![a] = Head(more[t]).type]
         /\ made' = [made EXCEPT ![t] = a]
  /\ Goto(t, "own")
  /\ UNCHANGED <<logs, arg, todo, cur, more, known, loads, mixed>>

\* Its own formatter, if the definition has one that parses.
SetOwn(t) ==
  /\ Between(t, "own")
  /\ \/ \E f \in Formatters :
          f = Head(more[t]).formatter /\ AppenderSetFormatter(t, made[t], f)
     \/ Head(more[t]).formatter \notin Formatters /\ UNCHANGED vars
  /\ Goto(t, "add")
  /\ UNCHANGED <<logs, arg, todo, cur, more, made, kind, known, loads, mixed>>

\* Fault variant: the loop goes on without addAppender.
AddForgets(t) ==
  /\ Between(t, "add")
  /\ more' = [more EXCEPT ![t] = Tail(@)]
  /\ Goto(t, "make")
  /\ UNCHANGED <<vars, logs, arg, todo, cur, made, kind, known, loads, mixed>>

Add(t) ==
  /\ Between(t, "add")
  /\ AddLock(t, cur[t].name, made[t])
  /\ more' = [more EXCEPT ![t] = Tail(@)]
  /\ made' = [made EXCEPT ![t] = NoAppender]
  /\ Goto(t, "make")
  /\ UNCHANGED <<logs, arg, todo, cur, kind, known, loads, mixed>>

\* The definition is applied.  The constructor of the LoggerManager, whose one
\* appender is added in the same way, then has the root logger in its map.
Applied(t) ==
  /\ Between(t, "make")
  /\ more[t] = <<>>
  /\ known' = known \cup {Root}
  /\ Goto(t, IF Booted THEN "apply" ELSE "idle")
  /\ UNCHANGED <<vars, logs, arg, todo, cur, more, made, kind, loads, mixed>>

\* The first loop is over; the second goes through the old value.
ToRemove(t) ==
  /\ Between(t, "apply")
  /\ todo[t] = {}
  /\ todo' = [todo EXCEPT ![t] = logs]
  /\ Goto(t, "remove")
  /\ UNCHANGED <<vars, logs, arg, cur, more, made, kind, known, loads, mixed>>

SkipKept(t) ==
  /\ Between(t, "remove")
  /\ \E d \in todo[t] :
       Named(arg[t], d.name) # {} /\ todo' = [todo EXCEPT ![t] = @ \ {d}]
  /\ UNCHANGED <<vars, logs, arg, stage, cur, more, made, kind, known, loads, mixed>>

\* A logger that is no longer configured gets a level nothing reaches, then
\* loses its appenders.
TurnOff(t) ==
  /\ Between(t, "remove")
  /\ \E d \in todo[t] :
       /\ Named(arg[t], d.name) = {}
       /\ SetLevel(t, d.name, OFF)
       /\ known' = known \cup {d.name}
       /\ cur' = [cur EXCEPT ![t] = d]
       /\ todo' = [todo EXCEPT ![t] = @ \ {d}]
  /\ Goto(t, "drop")
  /\ UNCHANGED <<logs, arg, more, made, kind, loads, mixed>>

Drop(t) ==
  /\ Between(t, "drop")
  /\ ClearAppenders(t, cur[t].name)
  /\ Goto(t, "remove")
  /\ UNCHANGED <<logs, arg, todo, cur, more, made, kind, known, loads, mixed>>

EndListener(t) ==
  /\ Between(t, "remove")
  /\ todo[t] = {}
  /\ Goto(t, "store")
  /\ UNCHANGED <<vars, logs, arg, todo, cur, more, made, kind, known, loads, mixed>>

Listener(t) ==
  \/ Announce(t) \/ Skip(t) \/ Apply(t) \/ SetFormat(t) \/ Clear(t)
  \/ Make(t) \/ SetOwn(t) \/ Add(t) \/ Applied(t)
  \/ ToRemove(t) \/ SkipKept(t) \/ TurnOff(t) \/ Drop(t) \/ EndListener(t)

-----------------------------------------------------------------------------
\* NNYSL_LOG_LEVEL(NNYSL_LOG_NAME(l), e) in a thread that loads nothing.
Statement(t, l, e) ==
  /\ Booted
  /\ LogStatement(t, l, e)
  /\ known' = known \cup {l}
  /\ UNCHANGED <<logs, round, kind, loads, mixed>>

\* A call to a logger goes on.
Continue(t) ==
  /\ \/ LogCall(t) \/ Enter(t) \/ Fallback(t) \/ Output(t) \/ Leave(t)
     \/ AddFinish(t) \/ FormatOne(t) \/ FormatDone(t)
  /\ UNCHANGED reload

\* Two overlapping loads clear the appenders of one logger at the same time.
BothClear(t, u) ==
  /\ {stage[t], stage[u]} \subseteq {"clear", "drop"}
  /\ cur[t].name = cur[u].name
  /\ ClearTogether(t, u, cur[t].name)
  /\ UNCHANGED reload

ReloadNext ==
  \/ \E t \in Setters, document \in Documents : Load(t, document) \/ Refuse(t, document)
  \/ \E t \in Setters : Listener(t)
  \/ \E t \in Setters : Store(t)
  \/ \E t, u \in Setters : BothClear(t, u)
  \/ \E t \in Threads \ Setters, l \in Loggers, e \in Events : Statement(t, l, e)
  \/ \E t \in Threads : Continue(t)
  \/ \E t \in Threads : Stray(t) /\ UNCHANGED reload

ReloadSpec == ReloadInit /\ [][ReloadNext]_all

\* A thread inside a call or a reload keeps running, and takes a lock that
\* stays free.  Nothing is assumed of threads that have not begun one.
ReloadFairSpec ==
  /\ ReloadSpec
  /\ \A t \in Threads : WF_all(Continue(t))
  /\ \A t \in Setters : WF_all(Listener(t)) /\ WF_all(Store(t))

-----------------------------------------------------------------------------
(* Properties *)

\* Types; and an appender that is set up is handed on before anything else is.
RoundTypeOK ==
  /\ logs \subseteq Defines
  /\ arg \in [Setters -> SUBSET Defines]
  /\ stage \in [Setters -> Stages]
  /\ todo \in [Setters -> SUBSET Defines]
  /\ cur \in [Setters -> Defines]
  /\ more \in [Setters -> Seq(AppenderDefines)]
  /\ made \in [Setters -> Appenders \cup {NoAppender}]
  /\ kind \in [Appenders -> 0 .. 2]
  /\ known \subseteq Loggers
  /\ \A t \in Setters : made[t] # NoAppender <=> stage[t] \in {"own", "add"}
  /\ \A t \in Setters : stage[t] \in {"own", "add"} => more[t] # <<>>

ReloadTypeOK == TypeOK /\ RoundTypeOK

\* Appender a is what definition b asks for, in logger l.
Matches(a, b, l) ==
  /\ kind[a] = b.type
  /\ a_level[a] = b.level
  /\ a_formatter[a] = IF b.formatter \in Formatters THEN b.formatter ELSE m_formatter[l]

\* Logger l is what definition d asks for.  Without a formatter that parses it
\* asks for none.
AsDefined(l, d) ==
  /\ m_level[l] = d.level
  /\ d.formatter \in Formatters => m_formatter[l] = d.formatter
  /\ Len(m_appenders[l]) = Len(d.appenders)
  /\ \A k \in DOMAIN d.appenders : Matches(m_appenders[l][k], d.appenders[k], l)

\* Logger l was never configured.
AsBuilt(l) ==
  /\ m_level[l] = DEBUG /\ m_formatter[l] = DefFormatter
  /\ Len(m_appenders[l]) = IF l = Root THEN 1 ELSE 0

\* Logger l is what the definitions ds ask for.
As(l, ds) ==
  \/ \E d \in Named(ds, l) : AsDefined(l, d)
  \/ /\ Named(ds, l) = {}
     /\ AsBuilt(l) \/ (m_level[l] = OFF /\ m_appenders[l] = <<>>)

\* t has begun to change logger l and has not finished.
Changing(t, l) ==
  stage[t] \in {"format", "clear", "make", "own", "add", "drop"} /\ cur[t].name = l

\* While one configuration replaces another, every logger is what the old one
\* says or what the new one says, but for the one logger the listener is busy
\* with; and it is what the value of "logs" says once no load is in progress.
\* (Unless two rounds overlapped, or the process was brought down.)
OldOrNew ==
  Booted /\ ~mixed /\ ~crashed =>
    \A l \in Loggers :
      \/ As(l, logs)
      \/ \E t \in Setters : stage[t] # "idle" /\ (As(l, arg[t]) \/ Changing(t, l))

\* A logger whose definition is the same before and after a load keeps its level,
\* its list and its formatter: its appenders, and the files they have open, are
\* not thrown away, even while loads overlap.
UnchangedUntouched ==
  [][\A l \in Loggers :
       \/ UNCHANGED <<m_level[l], m_appenders[l], m_formatter[l]>>
       \/ ~Booted
       \/ \E t \in Setters : InRound(t) /\ Named(logs, l) # Named(arg[t], l)]_all

\* t's next step takes the lock of logger l.
Wants(t, l) ==
  \/ pc[t] = "enter" /\ at[t] = l
  \/ /\ t \in Setters /\ pc[t] = "idle" /\ cur[t].name = l
     /\ stage[t] = "add" \/ (stage[t] = "format" /\ cur[t].formatter \in Formatters)

\* u holds a lock t cannot go on without: that of a logger, or the read lock of
\* "logs" while t asks for the write lock.
WaitsFor(t, u) ==
  \/ \E l \in Loggers : Wants(t, l) /\ owner[l] = u
  \/ /\ t \in Setters /\ pc[t] = "idle" /\ stage[t] = "store"
     /\ u \in Setters /\ InRound(u)

\* Nobody waits for itself, directly or through others, however many threads and
\* loggers there are: the locks are asked for in the order "logs", a logger, the
\* root logger, so that whoever is waited for is further on in it.
NoCircle ==
  \E rank \in [Threads -> 0 .. 3] :
    \A t, u \in Threads : WaitsFor(t, u) => rank[u] < rank[t]

\* Another thread starts to log.
NewStatement == \E t \in Threads \ Setters : pc[t] = "idle" /\ pc'[t] # "idle"

\* Once the other threads log no more, every load ends, overlapping ones too:
\* the listener logs, and takes the locks of loggers one at a time, under the
\* read lock, and the writers among the setters wait for nothing else.
\* (Unless the process was brought down.)
ReloadEnds ==
  <>[][~NewStatement]_all => <>[](crashed \/ \A t \in Setters : stage[t] = "idle")
=============================================================================

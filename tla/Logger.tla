------------------------------- MODULE Logger -------------------------------
(***************************************************************************)
(* Loggers and their appenders, nnysl/log.h and log.cpp, used by several   *)
(* threads at once.                                                        *)
(*                                                                         *)
(* Logger::log tests the level outside any lock, then takes the logger's   *)
(* spin lock and walks m_appenders under it.  A logger that has no         *)
(* appender hands the event to the root logger while KEEPING its own lock, *)
(* so locks are taken in the order logger, root, appender.  Every other    *)
(* operation on the list takes the logger's lock, except clearAppenders,   *)
(* which takes none.                                                       *)
(*                                                                         *)
(* An appender's lock is always the last one taken and protects one read   *)
(* or one write, so what happens under it is a single step here.  What an  *)
(* appender does with an event is FileAppender's subject.                  *)
(***************************************************************************)
EXTENDS Naturals, SequencesExt

CONSTANTS
  Threads, Loggers, Appenders,
  Root,          \* the root logger: every other logger's m_root
  Levels,        \* event levels and the thresholds setLevel is given
  DEBUG,         \* the level everything starts with
  Formatters,    \* what setFormatter is given
  DefFormatter,  \* the formatter a Logger is constructed with
  NoFormatter,   \* a null LogFormatter::ptr
  Ops,           \* the operations threads call in this instance
  Careful,       \* the appenders used the way LogIniter uses them: created,
                 \* given their own formatter, then attached, once
  MaxList,       \* bound: appenders in one list
  NoThread, NoLogger, NoAppender

AllOps == {"log", "add", "del", "clear", "format", "format appender",
           "level", "level appender"}

ASSUME LoggerAssumption ==
  /\ Root \in Loggers
  /\ Levels \subseteq Nat
  /\ DEBUG \in Levels
  /\ DefFormatter # NoFormatter
  /\ Ops \subseteq AllOps
  /\ Careful \subseteq Appenders
  /\ MaxList \in Nat
  /\ NoThread \notin Threads
  /\ NoLogger \notin Loggers
  /\ NoAppender \notin Appenders

AnyFormatter == Formatters \cup {DefFormatter, NoFormatter}

VARIABLES
  m_level,           \* Logger::m_level
  m_appenders,       \* Logger::m_appenders, a list
  m_formatter,       \* Logger::m_formatter
  owner,             \* the thread that holds Logger::m_mutex
  a_level,           \* LogAppender::m_level
  a_formatter,       \* LogAppender::m_formatter
  m_have_formatter,  \* LogAppender::m_have_formatter
  own,               \* the formatter last given to the appender itself (observer)
  raced,             \* appenders given it while an addAppender that had found them
                     \* without one was under way (observer)
  home,              \* the logger each careful appender was handed to (observer)
  pc,                \* where each thread stands in its call
  at,                \* the logger whose member function the thread is in
  from,              \* the logger that handed its event to the root, still locked
  ev,                \* the level of the event being logged
  obj,               \* the appender argument of addAppender or delAppender
  rest,              \* what the thread's walk over the list has still to visit
  seen,              \* the appenders its walk has handed the event to (observer)
  torn,              \* threads under whose feet clearAppenders emptied the list
  crashed            \* has the process dereferenced a null or freed pointer?

levels  == <<m_level, a_level>>
formats == <<m_formatter, a_formatter, m_have_formatter, own, raced>>
shared  == <<levels, formats, m_appenders, home>>
frames  == <<pc, at, from, ev, obj, rest, seen, torn>>
vars    == <<shared, owner, frames, crashed>>

\* Inside m_appenders, under the lock: "list", "add", "del", "format".
\* Holding a lock but outside the list: "fallback", and "enter" with a from.
PCs == {"idle", "event", "enter", "list", "fallback", "add", "del", "format"}

TypeOK ==
  /\ m_level \in [Loggers -> Levels]
  /\ m_appenders \in [Loggers -> Seq(Appenders)]
  /\ m_formatter \in [Loggers -> AnyFormatter]
  /\ owner \in [Loggers -> Threads \cup {NoThread}]
  /\ a_level \in [Appenders -> Levels]
  /\ a_formatter \in [Appenders -> AnyFormatter]
  /\ m_have_formatter \in [Appenders -> BOOLEAN]
  /\ own \in [Appenders -> AnyFormatter]
  /\ raced \subseteq Appenders
  /\ home \in [Appenders -> Loggers \cup {NoLogger}]
  /\ pc \in [Threads -> PCs]
  /\ at \in [Threads -> Loggers \cup {NoLogger}]
  /\ from \in [Threads -> Loggers \cup {NoLogger}]
  /\ ev \in [Threads -> Levels]
  /\ obj \in [Threads -> Appenders \cup {NoAppender}]
  /\ rest \in [Threads -> Seq(Appenders)]
  /\ seen \in [Threads -> Seq(Appenders)]
  /\ torn \subseteq Threads
  /\ crashed \in BOOLEAN

Init ==
  /\ m_level = [l \in Loggers |-> DEBUG]
  /\ m_appenders = [l \in Loggers |-> <<>>]
  /\ m_formatter = [l \in Loggers |-> DefFormatter]
  /\ owner = [l \in Loggers |-> NoThread]
  /\ a_level = [a \in Appenders |-> DEBUG]
  /\ a_formatter = [a \in Appenders |-> NoFormatter]
  /\ m_have_formatter = [a \in Appenders |-> FALSE]
  /\ own = [a \in Appenders |-> NoFormatter]
  /\ raced = {}
  /\ home = [a \in Appenders |-> NoLogger]
  /\ pc = [t \in Threads |-> "idle"]
  /\ at = [t \in Threads |-> NoLogger]
  /\ from = [t \in Threads |-> NoLogger]
  /\ ev = [t \in Threads |-> DEBUG]
  /\ obj = [t \in Threads |-> NoAppender]
  /\ rest = [t \in Threads |-> <<>>]
  /\ seen = [t \in Threads |-> <<>>]
  /\ torn = {}
  /\ crashed = FALSE

-----------------------------------------------------------------------------
(* The spin lock of a logger, thread.h CASLock: not reentrant.  A step that *)
(* takes it also reads what the call reads first under it.                  *)

\* Fault variant: the flag is set without looking at what it was.
LockBarges(t, l) ==
  owner' = [owner EXCEPT ![l] = t]

Lock(t, l) ==
  /\ owner[l] = NoThread
  /\ owner' = [owner EXCEPT ![l] = t]

Unlock(l) == owner' = [owner EXCEPT ![l] = NoThread]

\* A call of op on l begins.
Start(t, op) ==
  /\ ~crashed
  /\ op \in Ops
  /\ pc[t] = "idle"

\* A call that holds the lock of at[t] is at step p.
Under(t, p) ==
  /\ ~crashed
  /\ pc[t] = p

\* The call returns.
Return(t) ==
  /\ pc' = [pc EXCEPT ![t] = "idle"]
  /\ at' = [at EXCEPT ![t] = NoLogger]
  /\ torn' = torn \ {t}
  /\ UNCHANGED <<from, ev>>

-----------------------------------------------------------------------------
(* Logging *)

\* NNYSL_LOG_LEVEL: the level is tested and the event built; it is handed to
\* Logger::log only when the statement ends and its LogEventWrap is destroyed.
LogStatement(t, l, e) ==
  /\ Start(t, "log")
  /\ m_level[l] <= e
  /\ pc' = [pc EXCEPT ![t] = "event"]
  /\ at' = [at EXCEPT ![t] = l]
  /\ ev' = [ev EXCEPT ![t] = e]
  /\ UNCHANGED <<shared, owner, from, obj, rest, seen, torn, crashed>>

\* Logger::log, up to the lock: the level is tested again.
LogCall(t) ==
  /\ Under(t, "event")
  /\ \/ /\ ev[t] >= m_level[at[t]]
        /\ pc' = [pc EXCEPT ![t] = "enter"]
        /\ UNCHANGED at
     \/ /\ ev[t] < m_level[at[t]]
        /\ pc' = [pc EXCEPT ![t] = "idle"]
        /\ at' = [at EXCEPT ![t] = NoLogger]
  /\ UNCHANGED <<shared, owner, from, ev, obj, rest, seen, torn, crashed>>

\* The lock is taken; an empty list means the root logger, if there is one.
Enter(t) ==
  /\ Under(t, "enter")
  /\ Lock(t, at[t])
  /\ \/ /\ m_appenders[at[t]] # <<>> \/ at[t] = Root
        /\ pc' = [pc EXCEPT ![t] = "list"]
     \/ /\ m_appenders[at[t]] = <<>> /\ at[t] # Root
        /\ pc' = [pc EXCEPT ![t] = "fallback"]
  /\ rest' = [rest EXCEPT ![t] = m_appenders[at[t]]]
  /\ seen' = [seen EXCEPT ![t] = <<>>]
  /\ UNCHANGED <<shared, at, from, ev, obj, torn, crashed>>

\* Fault variant: the logger's own lock is released before m_root->log.
FallbackUnlocks(t) ==
  /\ Under(t, "fallback")
  /\ Unlock(at[t])
  /\ pc' = [pc EXCEPT ![t] = "enter"]
  /\ from' = [from EXCEPT ![t] = at[t]]
  /\ at' = [at EXCEPT ![t] = Root]
  /\ UNCHANGED <<shared, ev, obj, rest, seen, torn, crashed>>

\* m_root->log(level, event), up to the root's lock; the logger's own lock is
\* still held.  A root that does not want the event returns at once.
Fallback(t) ==
  /\ Under(t, "fallback")
  /\ \/ /\ ev[t] >= m_level[Root]
        /\ pc' = [pc EXCEPT ![t] = "enter"]
        /\ from' = [from EXCEPT ![t] = at[t]]
        /\ at' = [at EXCEPT ![t] = Root]
     \/ /\ ev[t] < m_level[Root]
        /\ pc' = [pc EXCEPT ![t] = "list"]
        /\ UNCHANGED <<at, from>>
  /\ UNCHANGED <<shared, owner, ev, obj, rest, seen, torn, crashed>>

\* i->log(self, level, event) for the next appender, which formats with
\* m_formatter unless its own level keeps the event out.
Output(t) ==
  /\ Under(t, "list")
  /\ rest[t] # <<>>
  /\ LET a == Head(rest[t]) IN
       /\ seen' = [seen EXCEPT ![t] = Append(@, a)]
       /\ crashed' = (ev[t] >= a_level[a] /\ a_formatter[a] = NoFormatter)
  /\ rest' = [rest EXCEPT ![t] = Tail(@)]
  /\ UNCHANGED <<shared, owner, pc, at, from, ev, obj, torn>>

\* Fault variant: log returns with its lock held.
LeaveKeepsLock(t) ==
  /\ Under(t, "list")
  /\ rest[t] = <<>>
  /\ from[t] = NoLogger
  /\ Return(t)
  /\ UNCHANGED <<shared, owner, obj, rest, seen, crashed>>

\* log returns and its lock is released; the root's returns into the log of
\* the logger that called it, which returns in turn.
Leave(t) ==
  /\ Under(t, "list")
  /\ rest[t] = <<>>
  /\ Unlock(at[t])
  /\ \/ /\ from[t] = NoLogger
        /\ Return(t)
     \/ /\ from[t] # NoLogger
        /\ at' = [at EXCEPT ![t] = from[t]]
        /\ from' = [from EXCEPT ![t] = NoLogger]
        /\ torn' = torn \ {t}
        /\ UNCHANGED <<pc, ev>>
  /\ seen' = [seen EXCEPT ![t] = <<>>]
  /\ UNCHANGED <<shared, obj, rest, crashed>>

-----------------------------------------------------------------------------
(* The list of appenders *)

\* An operation on the list of l takes the lock.
Take(t, l, op) ==
  /\ Start(t, op)
  /\ Lock(t, l)
  /\ pc' = [pc EXCEPT ![t] = op]
  /\ at' = [at EXCEPT ![t] = l]
  /\ UNCHANGED <<from, ev, seen, torn, crashed>>

\* addAppender, up to the test of appender->getFormatter().  rest remembers
\* that it found none.
AddLock(t, l, a) ==
  /\ a \in Careful => home[a] = NoLogger
  /\ Len(m_appenders[l]) < MaxList
  /\ Take(t, l, "add")
  /\ obj' = [obj EXCEPT ![t] = a]
  /\ rest' = [rest EXCEPT ![t] = IF a_formatter[a] = NoFormatter THEN <<a>> ELSE <<>>]
  /\ home' = [home EXCEPT ![a] = IF a \in Careful THEN l ELSE @]
  /\ UNCHANGED <<levels, formats, m_appenders>>

\* Fault variant: the logger's formatter is not passed on.
AddFinishBare(t) ==
  /\ Under(t, "add")
  /\ Unlock(at[t])
  /\ m_appenders' = [m_appenders EXCEPT ![at[t]] = Append(@, obj[t])]
  /\ rest' = [rest EXCEPT ![t] = <<>>]
  /\ obj' = [obj EXCEPT ![t] = NoAppender]
  /\ Return(t)
  /\ UNCHANGED <<levels, formats, home, seen, crashed>>

\* The rest of addAppender.  The formatter is copied without a second look at
\* the appender: one it was given in the meantime is overwritten.  A push_back
\* into a list that is being cleared may get lost.
AddFinish(t) ==
  /\ Under(t, "add")
  /\ Unlock(at[t])
  /\ a_formatter' = [a \in Appenders |-> IF rest[t] = <<a>> THEN m_formatter[at[t]]
                                                            ELSE a_formatter[a]]
  /\ \/ m_appenders' = [m_appenders EXCEPT ![at[t]] = Append(@, obj[t])]
     \/ t \in torn /\ UNCHANGED m_appenders
  /\ rest' = [rest EXCEPT ![t] = <<>>]
  /\ obj' = [obj EXCEPT ![t] = NoAppender]
  /\ Return(t)
  /\ UNCHANGED <<levels, m_formatter, m_have_formatter, own, raced, home, seen,
                 crashed>>

DelLock(t, l, a) ==
  /\ Take(t, l, "del")
  /\ obj' = [obj EXCEPT ![t] = a]
  /\ UNCHANGED <<shared, rest>>

\* The first entry equal to the appender is erased, if there is one.
DelFinish(t) ==
  /\ Under(t, "del")
  /\ Unlock(at[t])
  /\ LET list == m_appenders[at[t]] IN
       \/ \E i \in 1 .. Len(list) :
            /\ list[i] = obj[t]
            /\ \A j \in 1 .. i - 1 : list[j] # obj[t]
            /\ m_appenders' = [m_appenders EXCEPT ![at[t]] = RemoveAt(list, i)]
       \/ /\ ~ Contains(list, obj[t])
          /\ UNCHANGED m_appenders
  /\ obj' = [obj EXCEPT ![t] = NoAppender]
  /\ Return(t)
  /\ UNCHANGED <<levels, formats, home, rest, seen, crashed>>

\* t is walking over the list of l, or about to change it.
Inside(t, l) == pc[t] \in {"list", "add", "del", "format"} /\ at[t] = l

\* Takes no lock: it may strike while another thread is inside the list.
ClearAppenders(t, l) ==
  /\ Start(t, "clear")
  /\ m_appenders' = [m_appenders EXCEPT ![l] = <<>>]
  /\ torn' = torn \cup {u \in Threads : Inside(u, l)}
  /\ UNCHANGED <<levels, formats, home, owner, pc, at, from, ev, obj, rest, seen, crashed>>

\* Two threads clear one list at the same time and both free its nodes.  If the
\* process survives that, it is as if one had come after the other.
ClearTogether(t, u, l) ==
  /\ Start(t, "clear") /\ Start(u, "clear") /\ t # u
  /\ m_appenders[l] # <<>>
  /\ crashed' = TRUE
  /\ UNCHANGED <<shared, owner, frames>>

\* The walk of a torn thread goes through freed nodes.  It may still find its
\* way (the other actions); it may stop early, or bring the process down.
Stray(t) ==
  /\ ~crashed
  /\ t \in torn
  /\ \/ /\ crashed' = TRUE
        /\ UNCHANGED rest
     \/ /\ pc[t] \in {"list", "format"}
        /\ rest[t] # <<>>
        /\ rest' = [rest EXCEPT ![t] = <<>>]
        /\ UNCHANGED crashed
  /\ UNCHANGED <<shared, owner, pc, at, from, ev, obj, seen, torn>>

-----------------------------------------------------------------------------
(* Formatters and levels *)

\* Logger::setFormatter, up to the first appender.  (A pattern that does not
\* parse returns before anything changes.)
FormatLock(t, l, f) ==
  /\ Take(t, l, "format")
  /\ m_formatter' = [m_formatter EXCEPT ![l] = f]
  /\ rest' = [rest EXCEPT ![t] = m_appenders[l]]
  /\ UNCHANGED <<levels, m_appenders, a_formatter, m_have_formatter, own, raced, home, obj>>

\* Fault variant: appenders with a formatter of their own are overwritten too.
FormatOneForces(t) ==
  /\ Under(t, "format")
  /\ rest[t] # <<>>
  /\ a_formatter' = [a_formatter EXCEPT ![Head(rest[t])] = m_formatter[at[t]]]
  /\ rest' = [rest EXCEPT ![t] = Tail(@)]
  /\ UNCHANGED <<levels, m_appenders, m_formatter, m_have_formatter, own, raced, home, owner,
                 pc, at, from, ev, obj, seen, torn, crashed>>

\* The next appender gets the logger's formatter unless it has its own.
FormatOne(t) ==
  /\ Under(t, "format")
  /\ rest[t] # <<>>
  /\ LET a == Head(rest[t]) IN
       a_formatter' = [a_formatter EXCEPT
                         ![a] = IF m_have_formatter[a] THEN @ ELSE m_formatter[at[t]]]
  /\ rest' = [rest EXCEPT ![t] = Tail(@)]
  /\ UNCHANGED <<levels, m_appenders, m_formatter, m_have_formatter, own, raced, home, owner,
                 pc, at, from, ev, obj, seen, torn, crashed>>

FormatDone(t) ==
  /\ Under(t, "format")
  /\ rest[t] = <<>>
  /\ Unlock(at[t])
  /\ Return(t)
  /\ UNCHANGED <<shared, obj, rest, seen, crashed>>

\* An addAppender found a without a formatter and is about to give it one.
Overtaken(a) == \E u \in Threads : pc[u] = "add" /\ obj[u] = a /\ rest[u] # <<>>

\* LogAppender::setFormatter, under the appender's lock.
AppenderSetFormatter(t, a, f) ==
  /\ Start(t, "format appender")
  /\ a \in Careful => home[a] = NoLogger
  /\ a_formatter' = [a_formatter EXCEPT ![a] = f]
  /\ m_have_formatter' = [m_have_formatter EXCEPT ![a] = f # NoFormatter]
  /\ own' = [own EXCEPT ![a] = f]
  /\ raced' = IF Overtaken(a) THEN raced \cup {a} ELSE raced \ {a}
  /\ UNCHANGED <<levels, m_appenders, m_formatter, home, owner, frames, crashed>>

\* Logger::setLevel and LogAppender::setLevel store a word, without a lock.
SetLevel(t, l, v) ==
  /\ Start(t, "level")
  /\ m_level' = [m_level EXCEPT ![l] = v]
  /\ UNCHANGED <<m_appenders, formats, a_level, home, owner, frames, crashed>>

AppenderSetLevel(t, a, v) ==
  /\ Start(t, "level appender")
  /\ a_level' = [a_level EXCEPT ![a] = v]
  /\ UNCHANGED <<m_appenders, formats, m_level, home, owner, frames, crashed>>

-----------------------------------------------------------------------------
\* What a thread does once it is inside a call.
InCall(t) ==
  \/ LogCall(t) \/ Enter(t) \/ Fallback(t) \/ Output(t) \/ Leave(t)
  \/ AddFinish(t) \/ DelFinish(t) \/ FormatOne(t) \/ FormatDone(t)

Next ==
  \/ \E t \in Threads, l \in Loggers, e \in Levels : LogStatement(t, l, e)
  \/ \E t \in Threads : LogCall(t)
  \/ \E t \in Threads : Enter(t)
  \/ \E t \in Threads : Fallback(t)
  \/ \E t \in Threads : Output(t)
  \/ \E t \in Threads : Leave(t)
  \/ \E t \in Threads, l \in Loggers, a \in Appenders : AddLock(t, l, a)
  \/ \E t \in Threads : AddFinish(t)
  \/ \E t \in Threads, l \in Loggers, a \in Appenders : DelLock(t, l, a)
  \/ \E t \in Threads : DelFinish(t)
  \/ \E t \in Threads, l \in Loggers : ClearAppenders(t, l)
  \/ \E t, u \in Threads, l \in Loggers : ClearTogether(t, u, l)
  \/ \E t \in Threads : Stray(t)
  \/ \E t \in Threads, l \in Loggers, f \in Formatters : FormatLock(t, l, f)
  \/ \E t \in Threads : FormatOne(t)
  \/ \E t \in Threads : FormatDone(t)
  \/ \E t \in Threads, a \in Appenders, f \in Formatters : AppenderSetFormatter(t, a, f)
  \/ \E t \in Threads, l \in Loggers, v \in Levels : SetLevel(t, l, v)
  \/ \E t \in Threads, a \in Appenders, v \in Levels : AppenderSetLevel(t, a, v)

Spec == Init /\ [][Next]_vars

\* Each thread inside a call keeps running, and a lock that stays free is
\* taken.  Nothing is assumed of idle threads.
FairSpec == Spec /\ \A t \in Threads : WF_vars(InCall(t))

-----------------------------------------------------------------------------
(* Properties *)

\* Which locks a thread holds, by where it stands.
Holds(t, l) ==
  \/ at[t] = l /\ pc[t] \in {"list", "fallback", "add", "del", "format"}
  \/ from[t] = l

LockInv ==
  /\ \A l \in Loggers, t \in Threads : owner[l] = t <=> Holds(t, l)
  /\ \A t \in Threads :
       /\ at[t] = NoLogger <=> pc[t] = "idle"
       /\ from[t] # NoLogger =>
            from[t] # Root /\ at[t] = Root /\ pc[t] \in {"enter", "list"}
       /\ pc[t] = "fallback" => at[t] # Root
       /\ pc[t] = "add" => obj[t] # NoAppender
       /\ pc[t] \in {"idle", "event", "del"} => rest[t] = <<>>
       /\ t \in torn => pc[t] \in {"list", "add", "del", "format"}

\* The inductive invariant of the locks.
IInv == TypeOK /\ LockInv

\* A log call hands its event to every appender of the list, in order, once
\* each: the list does not change while it is walked, by whatever other
\* threads do to it.  (Unless clearAppenders was called meanwhile.)
WalkIsWhole ==
  \A t \in Threads :
    pc[t] = "list" /\ t \notin torn => seen[t] \o rest[t] = m_appenders[at[t]]

\* The root logger gets an event on behalf of another logger only while that
\* logger has no appender: adding one waits until the root is done, so no
\* event comes out both at the root and at an appender that was added.
RootStandsIn ==
  \A t \in Threads : from[t] # NoLogger => m_appenders[from[t]] = <<>>

\* With no null passed to setFormatter, an attached appender has a formatter,
\* so logging never dereferences a null one, whoever sets formatters when.
FormattersPresent ==
  NoFormatter \notin Formatters =>
    \A l \in Loggers : \A a \in ToSet(m_appenders[l]) : a_formatter[a] # NoFormatter

\* A careful appender that is attached and has no formatter of its own formats
\* with its logger's, unless a setFormatter in progress has yet to reach it.
FormatterInherited ==
  \A l \in Loggers : \A a \in ToSet(m_appenders[l]) :
    \/ a \notin Careful
    \/ m_have_formatter[a]
    \/ a_formatter[a] = m_formatter[l]
    \/ \E t \in Threads : pc[t] = "format" /\ at[t] = l /\ a \in ToSet(rest[t])

\* An appender keeps the formatter it was given itself, however many loggers
\* share it and whatever is done to them: the one way to lose it is to be given
\* it while an addAppender is between its test and its copy.
OwnFormatterKept ==
  \A a \in Appenders \ raced : m_have_formatter[a] => a_formatter[a] = own[a]

\* A thread starts a call that takes a lock.
NewCall == \E t \in Threads : pc[t] = "idle" /\ pc'[t] # "idle"

\* Once no new calls arrive, every call in progress returns: logger before root
\* is an order, so nobody spins for ever on a lock that is never released.
\* (Unless the process was brought down.)
QuietThenDone ==
  <>[][~NewCall]_vars => <>[](crashed \/ \A t \in Threads : pc[t] = "idle")

-----------------------------------------------------------------------------
(* Logger implements EventDelivery.                                         *)

\* l is busy with an event of its lock's owner: walking over its own list, or
\* waiting for the root.
Busy(l) == owner[l] # NoThread /\ pc[owner[l]] \in {"list", "fallback", "enter"}

\* It is at its own list, not at the root's.
AtOwnList(l) == Busy(l) /\ at[owner[l]] = l

Who == [l \in Loggers |-> IF Busy(l) THEN owner[l] ELSE NoThread]
Got == [l \in Loggers |-> IF AtOwnList(l) THEN seen[owner[l]] ELSE <<>>]
Struck == {l \in Loggers : AtOwnList(l) /\ owner[l] \in torn}

Delivery == INSTANCE EventDelivery WITH
  list <- m_appenders, who <- Who, got <- Got, struck <- Struck

\* Every behaviour of the code, with its spin locks, its walks and its root, is one
\* of EventDelivery: each logger delivers one event at a time, so all its appenders
\* get the events of all threads in the same order.
DeliverySpec == Delivery!Spec
=============================================================================

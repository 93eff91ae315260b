# nnysl: configuration, logging and threads, in TLA+

`src/nnysl` is a small C++ server library: configuration variables that tell
listeners when they change, a logger that is itself configured through one of
those variables, and a thread wrapper that everything else is meant to run on.
Its code is short; what is hard about it is that every piece is shared between
threads. Locks are dropped half-way through a call, taken twice, or not taken
at all; callbacks run under them; a stream and a thread outlive what they
belong to. The tests under `src/test` run each piece once, mostly in one thread.

This directory models those pieces, checks them with TLC on small instances,
and proves the properties that matter for all values of the parameters.

1. [The system](#1-the-system)
2. [The modules](#2-the-modules-and-the-code)
3. [The runs](#3-the-runs)
4. [Bounds and symmetry](#4-bounds-and-symmetry)
5. [Fairness](#5-fairness)
6. [What is proved](#6-what-is-proved)
7. [What the code does not do](#7-what-the-code-does-not-do)
8. [Abstractions, and what is not modelled](#8-abstractions-and-what-is-not-modelled)
9. [Plan](#9-plan)

## 1. The system

| component | where | state | operations |
|---|---|---|---|
| `ConfigVar<T>` | `config.h` 269–373 | `m_val`, `m_cbs`, a static `s_fun_id`, an `RWMutex` | `setValue`/`fromString`, `getValue`/`toString`, `addListener`, `delListener`, `clearListener`, `getListener` |
| `Config` registry | `config.h` 385–440, `config.cpp` | one map name → variable, an `RWMutex` | `Lookup` (with or without a default), `LookupBase`, `LoadFromYaml`, `Visit` |
| `Logger`, `LogAppender` | `log.cpp` 83–255, `log.h` | level, list of appenders, formatter, spin lock; per appender: level, formatter, `m_have_formatter`, spin lock | `log`, `addAppender`, `delAppender`, `clearAppenders`, `setFormatter`, `setLevel` |
| `FileLogAppender` | `log.cpp` 258–329 | file name, `std::ofstream` | `log`, `reopen`, `exists` |
| `LoggerManager` | `log.cpp` 530–550 | map name → logger, root logger, spin lock | `getLogger`, constructor |
| `LogIniter` | `log.cpp` 782–838 | none: a listener on the variable `logs` | applies the difference of two sets of `LogDefine` |
| `LogFormatter` | `log.cpp` 337–462 | pattern, list of items | `init`, `format` |
| `LogDefine` and its casts | `log.cpp` 552–680 | none | YAML ↔ `LogDefine` |
| `Thread`, `Semaphore` | `thread.h`, `thread.cpp` | handle, id, name, callback, semaphore; thread-local `t_thread`, `t_thread_name` | constructor, `run`, `join`, `SetName`, `GetThis`, destructor |
| locks | `thread.h` | | `RWMutex`, `CASLock`, `Mutex`, `SpinLock`, scoped guards |
| `LexicalCast` | `config.h` 53–266 | none | strings ↔ numbers, vectors, lists, sets, maps, nested |
| util, `Singleton`, macros, `Fiber` | `util.*`, `singleton.h`, `macro.h`, `fiber.*` | none (`Fiber` is empty) | wrappers of system calls |

How they meet:

* `Config::LoadFromYaml` → `LookupBase` → `ConfigVar::fromString` → `setValue`
  → listeners. The one listener in the library is `LogIniter`'s, which calls
  `LoggerManager::getLogger`, `Logger::clearAppenders`, `addAppender`,
  `setFormatter`.
* `NNYSL_LOG_*` builds a `LogEventWrap`; its destructor calls `Logger::log`,
  which calls each appender under the logger's spin lock, or the root logger's
  `log`, still under its own lock.
* `Thread::run` logs its own start, and the callback reaches its `Thread`
  through a thread-local raw pointer.
* Locks are ordered: manager, logger, root logger, appender; and registry,
  variable. `CASLock` is not reentrant; `RWMutex` has the default attributes
  of `pthread_rwlock_t` and so lets readers pass a waiting writer.

What is hard in it, and what must be right, component by component (the full
list, by line, is under "hazards" in `PROJECT.json`):

* **ConfigVar.** `setValue` calls the listeners under the read lock, drops it,
  and stores under the write lock. Between the two anything may happen. The
  iteration over the listeners must survive concurrent changes of the table; a
  removed listener must stay silent; what listeners heard and what the variable
  holds must agree as far as the code can promise it.
* **Registry.** `Lookup` inserts under the write lock, `LookupBase` searches
  without one. A name must never be bound twice, `Visit` must see one moment,
  a load must leave every variable with the last text that converts.
* **Logger.** Lists change while they are walked, and `clearAppenders` takes no
  lock. Each event must reach each appender once, the root must stand in only
  for a logger without appenders, an attached appender must have a formatter,
  the inherited one or its own, and nobody may spin for ever.
* **FileLogAppender.** The file can be deleted, replaced, forbidden or starved
  of room between any two steps. Errors must come to an end, and an event must
  not silently vanish for reasons of the appender's own making.
* **Reconfiguration.** A listener changes loggers call by call, under the read
  lock of the variable, while others log and other loads run. A logger must go
  from the old configuration to the new one and through nothing else, one whose
  definition stays must be left alone, and no order of locks may stop a load.
* **LogFormatter.** One pass with a nested loop, a look-ahead and a fall-back.
  `substr` must stay in range, the pass must end, what is accepted must have been
  read completely and right, and only what cannot be read may be refused.
* **LexicalCast.** Every cast goes through text. What a file says must arrive
  at any depth of nesting, and `toString` and `fromString` should be inverse.
* **Thread.** The constructor and the new thread meet at a semaphore that a
  signal may interrupt; the object is destroyed by the last holder, while the
  thread may still reach it. No use of freed memory in `run`, no blocked
  constructor, no pthread reaped twice or never.

## 2. The modules and the code

Each module keeps the names of the code. The observers (variables that no guard
of the code depends on) are marked "(observer)" where they are declared. An
operator called "Fault variant" is not part of the model: it is a plausible bug
of the operator below it, put in its place to see that a property notices.

| module | what it is | proofs |
|---|---|---|
| `ConfigVar` | one variable, used by setters, readers and those who manage listeners | `ConfigVarProofs` |
| `ChangeFeed` | what `ConfigVar` promises, without locks: a change is opened, told to every subscriber of that moment, then published or dropped | in `ConfigVarProofs` |
| `ConfigRegistry` | the registry: lookups that register, visits, and a load of a YAML document | `ConfigRegistryProofs` |
| `Logger` | loggers and appenders as lists under spin locks | `LoggerProofs` |
| `EventDelivery` | what `Logger` promises those who log, without locks and levels: one event at a time, to the whole list | in `LoggerProofs` |
| `FileAppender` | one file appender, its stream and the world | `FileAppenderProofs` |
| `ThreadStart` | one `Thread` object, its pthread, and the holders of its pointer | `ThreadStartProofs` |
| `LogReload` | extends `Logger` with `LogIniter`'s listener, `LoggerManager` and the rounds of `logs` | `LogReloadProofs` |
| `LogDefine` | one logger's definition, to and from YAML: operators, no state | in `LexicalCastProofs`, `LogReloadProofs` |
| `LogFormatter` | the scanner of patterns | `LogFormatterProofs` |
| `LexicalCast` | a variable of any container type, its file and its strings | `LexicalCastProofs` |
| `MC...` | the values and symmetries of the instances | |

**ConfigVar.** `rd`, `wr` are the reader–writer lock. `setValue` is five kinds
of step: `SetValue` (lock, compare, return at once if equal), `CallListener`
once per listener in key order, `EndRound` (unlock), `SetLock`, `SetStore`
(store, unlock). `ListenerThrows` is the exception `fromString` swallows.
`GetLock`/`GetDone` are `getValue`, `toString` and `getListener`;
`AdminLock` with `AddListener`, `DelListener`, `ClearListener` the table. A
listener is identified with its key and remembered by the value it heard last.

**ChangeFeed.** Five variables, no lock, no program counter. `ConfigVar`
implements it with `arg` as the change a thread has open, `todo` as what its
round still owes, `heard` as what subscribers were told. The point of the
refinement is what it forbids: a publication or a change of subscriptions inside
anybody's round.

**ConfigRegistry.** `Lookup` with a default is call, lock, find, insert,
inserted: the insertion into the `unordered_map` is two steps, because
`LookupBase` may look while it happens and then finds the variable, misses it, or
brings the process down. `LoadFromYaml` first takes the nodes of the document
(`ListAllMember`, which leaves out a node with a bad prefix and all below it),
then looks up and sets one after the other. A document is a sequence of nodes,
each with its name in lower case, its parent, whether the characters it adds are
legal, and its text; `Fits` says which texts convert to which types.

**Logger.** A log call is `LogStatement` (macro: test of the level),
`LogCall` (second test), `Enter` (lock, pick the list or the root), `Fallback`
(into the root, own lock held), `Output` per appender, `Leave`. `addAppender`
and `delAppender` are lock and finish, with the appender's own lock taken twice
in the first, as in the code; `setFormatter` walks the list a step at a
time. `ClearAppenders` takes no lock: whoever is inside the list at that moment
is `torn`, and a torn thread may go on as if nothing happened, stop early, lose
its `push_back`, or crash the process (`Stray`). Two threads that clear one list at the
same time free its nodes twice (`ClearTogether`). `Careful` is the set of appenders that
callers use as `LogIniter` does: created, given their own formatter, attached to one
logger, once. The others are shared and given formatters at any moment; `raced` (observer)
are those given one while an `addAppender` that found none is about to copy its own
(`Overtaken`).

**EventDelivery.** Four variables: the lists, the thread whose event a logger is
busy with (`Who`: the owner of its lock, if that is in a log call), the appenders that have the
event (`seen`), and the loggers whose list was cleared meanwhile. It forbids what
`Logger` has locks for: a second event of the same logger in between, a change of the
list under a delivery or while the root stands in, an end before every appender has
the event. `Clear` is its one exception, as in the code.

**FileAppender.** `LogCall` (open a stream in an error state), `Exists`,
`Reopen`, `Write` are the four steps of `log`; `Delete`, `Create`, `Forbid` and
`Fill` are what others do to the file in between. The stream is libstdc++'s:
default-constructed it is good and connected to nothing, `open` on a connected
one fails, a successful `open` clears the error.

**ThreadStart.** `Construct`, `Wait`, `Interrupt` are the constructor; `Start`,
`Ident`, `Take`, `Post`, `LogStart`, then `SetName`/`SetOwnName` and `Finish`
are `run` and the callback; `Share`, `JoinCall`, `PthreadJoin`, `Joined`, `Drop`
are the holders. The last `Drop` is the destructor.

**LogReload.** A setter's reload is a program of calls. `Load` is `fromString`
and `setValue` up to the listener (`Refuse` when the cast throws); the listener
is `Announce`, then per new or changed definition `Apply` (get or create the
logger, `setLevel`), `SetFormat`, `Clear`, and per appender `Make`, `SetOwn`,
`Add`; then `ToRemove` and per removed definition `TurnOff`, `Drop`;
`Skip` and `SkipKept` pass over the others. `Store` is the write lock of
`setValue`, which waits for everybody's rounds. Each call to a logger or an
appender *is* the action of `Logger` of that name, so the module adds no second
account of the loggers. It starts in `LoggerManager`'s constructor, whose one
`addAppender` is the same code. In which order a set is visited is left open;
`find` is by name, `==` by content (`Named`, `Same`). Loads that overlap may clear one
logger at the same time (`BothClear`).

**LogDefine, LexicalCast.** A YAML mapping is a function on the keys it has, so
that every `IsDefined` of the casts is a question about its domain; `Reading` is the
reader's loop over `appenders`. A type is a sequence of containers that ends in `int`,
`string` or `LogDefine`. A cast of a container calls the cast of its elements, so it is
given as one level of the recursion: `ToStrWith` takes the strings of the elements,
`FromStrWith` and `CastsWith` what is read from the elements' texts. `AllLevels` puts the levels
together, with recursive functions over the length of the type instead of a
recursive operator, and `ToStr`, `FromStr`, `Casts` are the result; so are `Layout`,
`Survives`, `Refused`, `HoldsQuotable` and `IsValue`, in which the properties
speak. A text is plain or the layout of a node, in so many
quotes: emitting and loading keep these apart and no character is spelled out. The
state machine reads a file, then writes and reads in turn.

**LogFormatter.** Positions count from 1. `Text` and `Directive` are the outer
loop, `NameEnds`, `FormatOpens`, `FormatCloses` and `Consume` one turn of the inner
one each, `Push` and `Unterminated` what follows it, `Items` the rest of `init`.
An entry also records which part of the pattern it was read from (observer).
`Part` and `WellFormed` are the reference: which cuts of a pattern into
characters and directives there are, without a word about scanning, and
`DirectivesOf` says where a cut has its directives. `Tiled` compares these with
the entries (`Directives`).

## 3. The runs

| run | instance | checks | shows |
|---|---|---|---|
| `config_var` | 3 threads playing 2 setters, 2 admins, 2 readers; 3 values, 3 keys, listeners may throw | `IInv`, `ReadsAreStable`, `RoundIsLive`, `OnlyLiveListenersHear`, `ListenersInSync`, `FeedSpec`, `QuietThenDone` | a round sees one value and a table that stays, a removed listener is silent, what listeners heard last is the value (or the one about to be stored) as long as no two rounds overlapped, the code implements `ChangeFeed`, and once calls stop arriving all return |
| `config_var_two_setters` | 2 setters, 1 listener | `NoSilentChange`, violated | two setters announce before either stores (finding 1) |
| `config_registry` | 2 threads that look up, one that also visits, one load of a document of five nodes | `IInv`, `LoadedInFull`, `NeverRebound`, `VisitIsSnapshot` | no name is bound twice, a visit is a snapshot, a load that met no insertion is complete |
| `config_registry_dropped` | 1 looks up, 1 loads | `NothingDropped`, violated | `LookupBase` misses a registered variable (finding 2) |
| `logger_walks` | 2 threads, root and one logger, 2 appenders, 2 levels | `IInv`, `WalkIsWhole`, `RootStandsIn`, `DeliverySpec`, `QuietThenDone` | each event to each appender once, the root stands in only when it should, the code implements `EventDelivery`, and once calls stop arriving all return |
| `logger_formats` | 2 threads, root and one logger, 2 new formatters, one careful appender and one that is used in any way | `FormattersPresent`, `FormatterInherited`, `OwnFormatterKept` | no null formatter is dereferenced, inherited and own formatters are what they should be, and the window of `addAppender` is the only way to lose an own one |
| `file_appender` | 3 files, all four things the world can do | `IInv`, `OrphansAreUnseen`, `Recovers` | an event goes to a file that lost its name only if no look of `exists` fell into the time without a file, or the file was deleted after the look of this call; and errors end when the file can be opened |
| `file_appender_first` | a world that does nothing | `EveryEventKept`, violated | the first event is lost if the file exists (finding 3) |
| `thread_start` | 3 users of one object, 2 of them join, signals may interrupt | `Handshake`, `StraysExplained`, `NamesAgree`, `ReapedOnce`, `BlockedMovesOn` | when the constructor returns the thread is set up and `run` is done with the object; every use of freed memory and every double reaping has one of the causes named |
| `log_reload` | 2 threads that load (one of them constructs the manager), 1 that logs; 2 loads of 4 documents, 2 loggers, 5 appenders | `ReloadTypeOK`, `OldOrNew`, `NoCircle`, `UnchangedUntouched`, `ReloadEnds` | every logger is as the old or the new configuration says, but for the one the listener is at; a logger whose definition stays is untouched, even when loads overlap; the waits for the lock of `logs` and those of loggers form no circle; every load ends |
| `log_formatter` | all patterns of up to 6 characters over `%`, `{`, `}`, a known and an unknown letter, another character | `IInv`, `Tiled`, `RefusedIfMalformed`, `Advances`, `Terminates` | `substr` stays in range; an accepted pattern has been read completely, in order, and right, with the directives it has and no other; exactly the patterns that cannot be read are refused; no step goes back; the scanner ends |
| `lexical_cast` | all types of up to two containers, and maps of two containers; four readings | `FilesAreRead`, `RoundTrip`, `Settles` | which values arrive from a file, which of them come back from their own string, and that what is lost is lost in the first trip |

Some properties name the condition under which the code keeps them, and that
condition is part of what they show. `WalkIsWhole` excepts a walk that
`clearAppenders` struck, and so does `EventDelivery`. `LoadedInFull` excepts a load that looked during an
insertion. `Recovers` excepts a stream whose write failed while it was
connected, which is never reconnected. `FormatterInherited` is about careful
appenders: a shared one cannot have the formatters of both its loggers.
`OwnFormatterKept` is about every appender, but for one given its formatter while
`addAppender` stands between its test and its copy: that one is overwritten.
`ListenersInSync` and `OldOrNew`
except histories in which two rounds overlapped or, in the first, a listener
threw (`mixed`), `OldOrNew` and `ReloadEnds` a process that `clearAppenders` brought down. `FilesAreRead` and
`RoundTrip` are equivalences: they say exactly which values are read wrong or lost.
`RefusedIfMalformed` is one too, so its reading of patterns has the scanner's two
peculiarities written out: `}` right after a name spoils it, and `%%` is a percent
sign only as the start of a directive that follows. `StraysExplained` says exactly
when a thread uses freed memory, rather than that it never does, because it does.

`CHECK_DEADLOCK FALSE` stands where the model really stops: `Logger`, `LogReload`
and `ConfigRegistry` after a crash, `LexicalCast` after the last reading, `ThreadStart` after undefined behaviour or when
the thread has ended and all pointers are dropped. In the other runs TLC also
checks that the program cannot stop.

## 4. Bounds and symmetry

* `ConfigVar`: `MaxId` = 3 bounds the listener keys ever handed out: one from
  the start, and two that may come and go behind each other; three values are
  enough for a change, a competing change and the old value. Three threads give
  every pair of roles, including a thread that sets and manages listeners.
* `ConfigRegistry`: the document sets `port` twice, the second time to a text
  that does not convert if `port` is a number, sets `port.logs` by a dotted name,
  and has a node `Port`, an illegal name, with `logs` below it. `port`
  and `port.logs` may be registered, under either of two types, and `Port` is
  asked for and refused. One load per behaviour, by a thread that does nothing else.
* `Logger`: `MaxList` = 2 appenders per list, so that a list may be changed
  before and behind a walker, and may hold the same appender twice. Two loggers
  are the longest chain, because a logger's root is the root.
* `LogReload`: two loads by two threads make one configuration replace another,
  in turn and overlapping; `MaxLoads` bounds them. The documents follow
  `bin/conf/log.yaml` and `log2.yaml`; a third names a logger twice, sets no level
  and has an appender that cannot be used; a fourth has no name. Five appenders are
  as many as two loads can make, and `MaxList` = 4 as many as overlapping loads can
  pile up in one list. Other threads log at one level, between the logger's own
  levels and `OFF`.
* `LogFormatter`: `MaxSize` = 6 is enough for a complete `%m{-}` behind or before another
  character, for two directives, for a fall-back into a directive that is
  read after all (`%m{%m`), and for `%%` at both ends.
* `LexicalCast`: `MaxTrips` = 4 readings, the file's and three of the variable's own
  strings: the first may lose something, two more show that this was all. Containers have
  up to two elements; the outermost of three has one.
* `FileAppender`: three files, so that there is always one which is neither the
  one the name stands for nor the one the stream has.
* `ThreadStart`: three users are the constructor's thread and two that join at
  once. The callback may set its name any number of times.

Symmetry is used in `logger_formats` only (threads, formatters other than the
default; the two appenders differ, one is careful); it checks invariants, no liveness
property, and no invariant singles out a permuted value. That run logs nothing:
no step of a log call changes or waits for a formatter.

## 5. Fairness

Fairness is weak, per thread, and only for threads that are inside a call: the
operating system runs every runnable thread. Nothing is assumed of an idle
thread, so liveness is stated as "once no new calls arrive, those in progress
return" (`QuietThenDone`). That premise matters: the spin lock and the
reader-preferring lock both starve a waiter as long as others keep coming.

* `ConfigVar`: a listener returns. Some step of a thread inside a call is taken
  if one stays possible; with no new calls a free lock stays free until a waiter
  takes it.
* `Logger`: the same, for log calls, list operations and `setFormatter`.
* `LogReload`: the same for calls (`Continue`), the listener's own steps and
  `Store`. `ReloadEnds` assumes that from some time on others log no more: a
  listener can be starved of a spin lock, as any caller can.
* `LogFormatter`: a constructor, once called, runs.
* `FileAppender`: the program keeps logging. Nothing is assumed of the world;
  `Recovers` has its good behaviour as a premise.
* `ThreadStart`: `run` up to the post, the constructor once released, and a
  joiner. That the callback returns is not assumed, and `join` is only promised
  to return once the thread has ended.

## 6. What is proved

TLAPS checks the eight `...Proofs` modules for every value of the constants, from
the named assumptions beside the constants and from nothing else. These say that
markers such as `NoThread` differ from what they stand beside, that bounds are
natural numbers and flags Booleans, that the root is one of the loggers, that
a document's nodes come after their parents, and that there are three files to
choose from; they are not restrictions on the program. `LogReload` also assumes
that all appenders are careful, because `LogIniter` makes and attaches them, and that no
text of a file is the null formatter. `DocumentsAssumption` says that documents name the loggers of
the instance; that what the reader makes of them are definitions is proved
(`ReadDefine`). `LexicalCastAssumption` says that the values files describe are values
of their types, and that the text of a number is plain. No set is assumed finite.

* **ConfigVarProofs.** `IInv` is inductive: types, the lock (`LockInv`: who
  holds it follows from where a thread stands, and a writer is alone), the calls
  (`CallInv`), and the two promises `ReadsAreStable` and `RoundIsLive`. None of the
  promises is inductive alone: that the table does not change under a round
  follows only from the round's read lock keeping writers out. From `IInv` follow
  `OnlyLiveListenersHear` and `ImplementsFeed`, step by step, each step of the
  code a step of `ChangeFeed` or a stutter. `ListenersAgree` proves
  `ListenersInSync` for any number of setters: it needs that keys are fresh
  (`KeysAreFresh`) and that without an overlap only one thread is setting (`AloneInv`).
* **ConfigRegistryProofs.** `IInv` says who is inside the map and that the name
  being inserted is still new; from it `NeverRebound` and `VisitIsSnapshot`.
  `LoadedInFull` has an invariant of its own: for each variable known when the
  load began, the nodes already passed whose text converts have left it with the
  text of the last of them. It is proved for any document.
* **LoggerProofs.** `IInv` says which locks a thread holds from where it stands;
  `WalkIsWhole` and `RootStandsIn` follow from it by one more induction each. The
  three properties of formatters rest on what an `addAppender` under way will do to its
  appender: `PresentInv` (it leaves none without), `OwnInv` (one it is about to overwrite
  has no formatter of its own, or was given it since the test), and, for careful
  appenders, `CarefulInv` (it belongs to one logger, and is never among the `raced`).
  `ImplementsDelivery` proves the refinement of `EventDelivery`, one step of the code after the other: that a logger is busy
  with one event follows from `LockInv`, that appenders get it in the order of the list and all
  of them do before the end from `WalkIsWhole`, and that `clearAppenders` of a logger the
  root stands in for changes nothing from `RootStandsIn`.
* **LogReloadProofs.** `ReloadImplementsLogger`: every step of a reload is a step
  of `Logger` or leaves the loggers alone, for any documents. The proof needs only the
  types of the reload (`RoundTypeOK`), and its yield is that every theorem
  about `Logger` holds while loggers are reconfigured (`ReloadKeepsWalks`,
  which includes `DeliverySpec`, and that no appender of a configuration is ever `raced`). `NobodyWaitsForItself` gives each thread its place in the
  order of locks (`Rank`) and shows from `LockInv` that whoever holds a lock another
  thread wants is further on: `NoCircle`, for any number of threads and loggers.
  With fairness this is why every load ends, which is TLC's to check (`ReloadEnds`).
  `UnchangedLoggersStay` needs more: `RoundInv`, that the definition a listener works on
  differs between the value it replaces and the new one, which holds
  throughout because a store waits for every round; and `CallInv`, that only a
  listener is ever inside `addAppender`, for the logger it is at.
  `LoadsAreWhole` is `OldOrNew` for any documents, loggers and
  appenders. `OldOrNew` itself says nothing of the logger the listener is at, so it is
  far from inductive. `LoadInv` adds, for histories without overlap, that
  one setter is at work (`SingleInv`), that no value names a logger twice (`NamesInv`), that no
  `addAppender` or `setFormatter` is torn, since only the listener clears lists (`UntornInv`), and that an
  appender being set up is in no list (`FreshInv`). Then, by the place of the listener, which
  part of its definition the logger has taken over already (`ProgressInv`), and for every
  other logger on which side it is: as the new value says if the listener has
  passed its definition, as the old one says if not (`LoggersInv`). Until the `LoggerManager` is
  constructed, `BootInv` takes their place.
* **LogFormatterProofs.** `Invariance`: positions stay in range. `AcceptedIsTiled`
  rests on an invariant for the middle of the scan: the entries so far and the
  text not yet turned into one lie side by side up to the scanner's position,
  unless there was an error. That the directives are those of the reading needs a
second one (`FollowInv`: the outer loop has made an entry of each directive of the reading that
it has passed, and of nothing else), which rests on `RefuseInv` below. `RefusedExactly` is an equivalence, with one invariant for
  each direction. `AcceptInv`: without an error so far, what has been read can be
  cut into parts, the cuts being the beginnings of what the scanner took for one. `RefuseInv`:
  if the whole pattern can be cut, the outer loop is always at one of the
  cuts. `OneReading` says that there is never more than one cut, so that these two
  properties leave the scanner no choice: two directives that begin at the same character
  end at the same one (`OneEnd`), and the rest is an induction over positions. Both
  invariants rest on what the inner loop has behind it (`NameInv`). `ScannerAdvances`
  is the part of `Terminates` that needs no fairness: each step moves on, in
  the pattern or behind the character it stands at, and both have an end.
* **LexicalCastProofs.** What casts do is proved for every type, of any depth, and every
  value. Induction over data needs an operator as a parameter, so it is done with
  sets instead: `LeastNat` (a set of numbers has a least one, because the intervals below
  its elements are finite sets, and strict inclusion is well-founded on those)
  gives `Induct`, and with it the equations of the recursive functions (`ReadingDef`,
  `InnerDef`, `LevelsDef`). `Unfold` says that `AllLevels` is the recursion it stands for: one level of
  a cast, given that cast of the parts. On these rest two inductions over the length of a type.
  `FileIsRead`: the cast of a layout returns, with the value the file describes if none of its
  strings needs quotes; else with something no file can describe, which is what
  the induction needs to get from "not the same element" to "not the same
  set". `ComesBack`: whether the string of a value is refused, whether it comes back
  the same, and that what comes back instead survives and is not refused. Leaves of
  type `LogDefine` are `DefineIsRead` and `DefineComesBack`, inductions over the
  loop for `appenders`. The invariant of the state machine is `Inv`: after the second trip the
  value is the `Settled` one and each string belongs to the value. `AllFilesAreRead`,
  `RoundTripsAreExact` and `ValuesSettle` follow, the last as an action property.
* **FileAppenderProofs.** `IInv`, and from it `OrphansAreUnseen`. Two observers say what
  the appender can have seen: `told`, that `exists` has found no file since the stream was
  connected, and `late`, that others changed the file after the appender's last look.
  `OrphanInv`: a stream that can be written into was never told, and if there is no file
  of its name at the write, that change was late.
* **ThreadStartProofs.** One invariant ties the semaphore to the position of the
  thread and of the constructor, and the fate of the pthread to the joiner; the
  four safety properties follow.

Only model-checked: the liveness properties (`QuietThenDone`, `Recovers`,
`BlockedMovesOn`, `ReloadEnds`, `Terminates`), because fairness speaks of `ENABLED`,
which the prover does not know, and the three counterexamples. Every other property
of a run is a theorem.

## 7. What the code does not do

1. **Listeners and value can part ways** (`config.h` 322–335). Two threads set a
   variable: both call the listeners, then both store, in either order. The
   variable then changes from a value no listener was given as the old one, and
   the value listeners heard last need not be the one that stays. A listener
   that applies a difference, as `LogIniter` does, is left with the wrong state.
   Run `config_var_two_setters`. As long as calls do not overlap this cannot happen
   (proved). Overlapping loads of `logs` can leave loggers with appenders of
   both; a logger neither load changes is safe even then (proved).
2. **A setting can be dropped** (`config.cpp` 6–9). `LookupBase` searches the map
   without the lock. If another thread is registering some variable, the load may
   not find one that is there. Run `config_registry_dropped`.
3. **The first event of a file appender is lost if the file exists** (`log.cpp`
   317–324). A new stream is good, so it is not opened; the file is there, so it
   is not reopened; the write goes nowhere and puts the stream in the error state
   from which the second event opens it. Run `file_appender_first`.

The properties that hold also bound what they except: `clearAppenders` can tear
a walk, `sem_wait` interrupted by a signal makes the constructor throw and free
an object the new thread is using, a connected stream whose write failed is never
used again, two simultaneous `join`s are undefined.

Three properties describe what casts and patterns do where one might expect
more. `toString` and `fromString` are not inverse: a `LogDefine` loses its formatter
(`log.cpp` 656 writes it when it is empty) and its file appenders (written under a type
the reader does not know), a container inside a list or a set comes
back empty, and a set of definitions, which is the type of `logs`, comes back
as text the reader refuses (`RoundTrip`, `Survives`, `Refused`). A string
in a container that needs quotes keeps them (`FilesAreRead`). A pattern
cannot end in `%%` (`RefusedIfMalformed`). And a definition with no
formatter, or a wrong one, leaves a logger the formatter it happens to have (`AsDefined`).

## 8. Abstractions, and what is not modelled

* **Data.** Values, names, texts, formatters and events are elements of small
  sets. Conversions are what they do: one that fits, or one that throws.
* **Sequential consistency.** Levels and other words that are read and written
  without a lock are single atomic steps; the races on `std::string m_name`
  (`SetName` against `getName`) and on the static `s_fun_id` are not modelled. The
  latter needs two variables of one type whose tables change at once.
* **Callbacks** of listeners and of `Visit` do not call back into the
  configuration. If they did, a listener that sets its own variable would wait
  for itself; that is a hazard without a property. No listener of the library does.
* **ConfigRegistry** has the value set by `fromString` in one step (what is inside it is
  `ConfigVar`'s subject), `Lookup` without a default is a read and is left
  out, and there is one load.
* **LogReload** takes `logs` by itself, not the rest of a file, and has one
  listener on it, as the library has. The manager's lock is held for one step and nothing
  is called under it, so getting a logger is part of the step that uses it.
  Threads that load do not log statements of their own.
* **LexicalCast** models yaml-cpp from its use (external in the map): emitting
  a scalar that cannot stand plain quotes it, loading undoes that. Keys that a mapping
  repeats, and a sequence read as a mapping or the other way round, are left
  out. So are level names in lower case, which the reader folds.
* **LogFormatter** has one character for each class. A `char` outside ASCII,
  for which `isalpha` depends on the locale (and on its sign), is left out.
* **FileAppender** is attached to one logger, whose lock keeps its calls
  apart. A buffered write counts as written to the file its stream has.
* **ThreadStart**: a thread does not join itself; `sem_init` and `sem_post` do not fail.
* Not modelled at all: what format items print and `LogEvent` (layout, no control),
  `toYamlString` of loggers (reads only), `Mutex`, `SpinLock` and the null locks
  (one-line wrappers), `Backtrace` and `GetThreadId` (system calls), `Singleton` and macros
  (function-local statics), `Fiber` (an empty class).

## 9. Plan

Done, in this order: `ConfigVar` with `ChangeFeed`, `Logger` with `EventDelivery`, `FileAppender`,
`ThreadStart`, `ConfigRegistry`, `LogFormatter`, `LogDefine`, `LexicalCast`,
`LogReload`, with proofs for all of them.

What could follow, most useful first:

1. Two variables of one type, for the static `s_fun_id`: whether one variable may
   hand out a key twice.
2. Callbacks that call back: `Visit` and listeners in `ConfigRegistry` and
   `ConfigVar`; repeated loads in the registry.
3. A file appender shared by two loggers, with `open` and `exists` outside any lock.
4. An abstract specification of `FileAppender`: which of the events handed to it
   reach the file its name stands for.

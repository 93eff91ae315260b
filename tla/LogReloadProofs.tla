--------------------------- MODULE LogReloadProofs ---------------------------
(***************************************************************************)
(* Proofs about LogReload, for any threads, loggers and documents: what    *)
(* the reconfiguration does to loggers is what Logger allows its callers,  *)
(* a logger whose definition stays is left alone, and while one            *)
(* configuration replaces another, every logger is what the old one says   *)
(* or what the new one says, but for the one the listener is busy with.    *)
(***************************************************************************)
EXTENDS LogReload, LoggerProofs, FiniteSetTheorems, WellFoundedInduction

USE DEF reload, round

-----------------------------------------------------------------------------
(* What the reader makes of a document *)

\* A set of numbers that is not empty has a least one: the intervals from 0 to
\* a number of the set are finite, and one is minimal for strict inclusion.
LEMMA LeastNat ==
  ASSUME NEW T \in SUBSET Nat, T # {}
  PROVE  \E m \in T : \A n \in T : m <= n
<1> DEFINE U == {0 .. n : n \in T}
<1>1. U \subseteq FiniteSubsetsOf(Nat)
  <2>1. ASSUME NEW n \in T PROVE 0 .. n \in FiniteSubsetsOf(Nat)
    <3>1. IsFiniteSet(0 .. n)
      BY FS_Interval
    <3> QED BY <3>1 DEF FiniteSubsetsOf
  <2> QED BY <2>1
<1>2. U # {}
  OBVIOUS
<1>3. PICK x \in U : \A y \in U : ~ (<<y, x>> \in StrictSubsetOrdering(Nat))
  <2> HIDE DEF U
  <2> QED BY <1>1, <1>2, WFMin, FS_StrictSubsetOrderingWellFounded
<1>4. PICK m \in T : x = 0 .. m
  OBVIOUS
<1>5. ASSUME NEW n \in T, ~(m <= n) PROVE FALSE
  <2>1. 0 .. n \in U
    OBVIOUS
  <2>2. <<0 .. n, x>> \in StrictSubsetOrdering(Nat)
    BY <1>4, <1>5 DEF StrictSubsetOrdering
  <2> QED BY <1>3, <2>1, <2>2
<1> QED BY <1>5

\* Induction, for a set of numbers instead of a predicate.
LEMMA Induct ==
  ASSUME NEW S \in SUBSET Nat, 0 \in S, \A n \in S : n + 1 \in S
  PROVE  S = Nat
<1> SUFFICES ASSUME Nat \ S # {} PROVE FALSE
  OBVIOUS
<1>1. PICK m \in Nat \ S : \A n \in Nat \ S : m <= n
  BY LeastNat
<1>2. m # 0 /\ m - 1 \in Nat /\ ~(m <= m - 1)
  OBVIOUS
<1>3. m - 1 \in S
  BY <1>1, <1>2
<1> QED BY <1>3

\* One turn of the loop over "appenders".
Turn(list, n, old) == IF Usable(list[n]) THEN Append(old, ReadAppender(list[n])) ELSE old

\* The loop has its equation.
LEMMA ReadingDef ==
  ASSUME NEW list, Len(list) \in Nat
  PROVE  /\ Reading(list)[0] = <<>>
         /\ \A n \in Nat : n < Len(list) =>
              Reading(list)[n + 1] = Turn(list, n + 1, Reading(list)[n])
<1> DEFINE Loop(f, k) == f = [n \in 0 .. k |-> IF n = 0 THEN <<>> ELSE Turn(list, n, f[n - 1])]
           S == {k \in Nat : \E f : Loop(f, k)}
<1>1. 0 \in S
  <2>1. Loop([n \in 0 .. 0 |-> <<>>], 0)
    OBVIOUS
  <2> QED BY <2>1
<1>2. ASSUME NEW k \in S PROVE k + 1 \in S
  <2>1. PICK f : Loop(f, k)
    OBVIOUS
  <2> DEFINE g == [n \in 0 .. k + 1 |-> IF n = k + 1 THEN Turn(list, n, f[k]) ELSE f[n]]
  <2>2. Loop(g, k + 1)
    BY <2>1
  <2> HIDE DEF Loop
  <2> QED BY <2>2
<1>3. S = Nat
  <2> HIDE DEF S
  <2> QED BY <1>1, <1>2, Induct DEF S
<1>4. \E f : Loop(f, Len(list))
  BY <1>3
<1>5. Loop(Reading(list), Len(list))
  BY <1>4 DEF Reading, Turn
<1> QED BY <1>5

LEMMA LevelOfInLevels == ASSUME NEW text PROVE LevelOf(text) \in Levels
  BY LogReloadAssumption DEF LevelOf, UNKNOW

\* Every entry that the loop keeps makes a definition of an appender.
LEMMA AppendersAreDefines ==
  ASSUME NEW node, IsLoggerNode(node)
  PROVE  ReadAppenders(node) \in Seq(AppenderDefines)
<1> DEFINE list == IF "appenders" \in DOMAIN node THEN node["appenders"] ELSE <<>>
           S == {n \in Nat : n <= Len(list) => Reading(list)[n] \in Seq(AppenderDefines)}
<1>1. /\ Len(list) \in Nat
      /\ \A n \in 1 .. Len(list) :
           Get(list[n], "formatter") \in Texts /\ Get(list[n], "file") \in Texts
  BY DEF IsLoggerNode
<1> HIDE DEF list
<1>2. /\ Reading(list)[0] = <<>>
      /\ \A n \in Nat : n < Len(list) =>
           Reading(list)[n + 1] = Turn(list, n + 1, Reading(list)[n])
  BY <1>1, ReadingDef
<1>3. 0 \in S
  <2>1. <<>> \in Seq(AppenderDefines)
    OBVIOUS
  <2> QED BY <1>2, <2>1
<1>4. ASSUME NEW n \in S PROVE n + 1 \in S
  <2> SUFFICES ASSUME n + 1 <= Len(list) PROVE Reading(list)[n + 1] \in Seq(AppenderDefines)
    OBVIOUS
  <2>1. n + 1 \in 1 .. Len(list) /\ n < Len(list)
    BY <1>1
  <2> DEFINE old == Reading(list)[n]
             na == list[n + 1]
  <2>2. old \in Seq(AppenderDefines)
    BY <1>1, <2>1
  <2>3. Reading(list)[n + 1] = IF Usable(na) THEN Append(old, ReadAppender(na)) ELSE old
    BY <1>2, <2>1 DEF Turn
  <2>4. Get(na, "formatter") \in Texts /\ Get(na, "file") \in Texts
    BY <1>1, <2>1
  <2> HIDE DEF old, na
  <2>5. ASSUME Usable(na) PROVE ReadAppender(na) \in AppenderDefines
    <3>1. UNKNOW \in Levels /\ "" \in Texts
      BY LogReloadAssumption
    <3>2. na["type"] = "FileLogAppender" => na["file"] \in Texts
      BY <2>4, <2>5 DEF Usable, Get
    <3> QED BY <2>4, <3>1, <3>2 DEF ReadAppender, AppenderDefines
  <2> QED BY <2>2, <2>3, <2>5
<1>5. S = Nat
  <2> HIDE DEF S
  <2> QED BY <1>3, <1>4, Induct DEF S
<1>6. Reading(list)[Len(list)] \in Seq(AppenderDefines)
  BY <1>1, <1>5
<1> QED BY <1>6 DEF ReadAppenders, list

LEMMA ReadDefine ==
  ASSUME NEW node, IsLoggerNode(node), Readable(node)
  PROVE  FromYaml(node) \in Defines
<1>1. node["name"] \in Loggers /\ Get(node, "formatter") \in Texts
  BY DEF IsLoggerNode, Readable
<1>2. LevelOf(Get(node, "level")) \in Levels
  BY LevelOfInLevels
<1>3. ReadAppenders(node) \in Seq(AppenderDefines)
  BY AppendersAreDefines
<1> HIDE DEF LevelOf, Get, ReadAppenders
<1> QED BY <1>1, <1>2, <1>3 DEF FromYaml, Defines

\* What a document sets "logs" to.
LEMMA NewValue ==
  ASSUME NEW document \in Documents, \A k \in DOMAIN document : Readable(document[k])
  PROVE  FirstOfEachName([k \in DOMAIN document |-> FromYaml(document[k])]) \subseteq Defines
<1> DEFINE ds == [k \in DOMAIN document |-> FromYaml(document[k])]
<1>1. \A k \in DOMAIN ds : ds[k] \in Defines
  BY DocumentsAssumption, ReadDefine
<1>2. FirstOfEachName(ds) \subseteq {ds[k] : k \in DOMAIN ds}
  BY DEF FirstOfEachName
<1> QED BY <1>1, <1>2

LEMMA RoundTypeInit == ReloadInit => RoundTypeOK
<1> SUFFICES ASSUME ReloadInit PROVE RoundTypeOK
  OBVIOUS
<1>1. StdoutDefine \in AppenderDefines /\ NoDefine \in Defines
  <2>1. DEBUG \in Levels /\ Root \in Loggers /\ "" \in Texts
    BY LoggerAssumption, LogReloadAssumption
  <2>2. <<>> \in Seq(AppenderDefines)
    OBVIOUS
  <2>3. StdoutDefine \in AppenderDefines
    BY <2>1 DEF StdoutDefine, AppenderDefines
  <2>4. NoDefine \in Defines
    BY <2>1, <2>2 DEF NoDefine, Defines
  <2> QED BY <2>3, <2>4
<1>2. <<StdoutDefine>> \in Seq(AppenderDefines) /\ <<>> \in Seq(AppenderDefines)
  BY <1>1
<1>3. more \in [Setters -> Seq(AppenderDefines)] /\ cur \in [Setters -> Defines]
  BY <1>1, <1>2 DEF ReloadInit
<1>4. /\ logs \subseteq Defines
      /\ arg \in [Setters -> SUBSET Defines]
      /\ todo \in [Setters -> SUBSET Defines]
      /\ known \subseteq Loggers
  BY DEF ReloadInit
<1>5. stage \in [Setters -> Stages]
  BY DEF ReloadInit, Stages
<1>6. made \in [Setters -> Appenders \cup {NoAppender}] /\ kind \in [Appenders -> 0 .. 2]
  BY DEF ReloadInit
<1>7. \A t \in Setters : made[t] = NoAppender /\ stage[t] \notin {"own", "add"}
  BY DEF ReloadInit
<1> QED BY <1>3, <1>4, <1>5, <1>6, <1>7 DEF RoundTypeOK

LEMMA RoundTypeStep == RoundTypeOK /\ [ReloadNext]_all => RoundTypeOK'
<1> SUFFICES ASSUME RoundTypeOK, [ReloadNext]_all PROVE RoundTypeOK'
  OBVIOUS
<1> USE LoggerAssumption DEF RoundTypeOK, Stages, Goto, Between
<1>1. ASSUME NEW t \in Setters, NEW document \in Documents, Load(t, document) PROVE RoundTypeOK'
  <2> DEFINE new == FirstOfEachName([k \in DOMAIN document |-> FromYaml(document[k])])
  <2>1. new \subseteq Defines
    BY <1>1, NewValue DEF Load
  <2> HIDE DEF new
  <2>2. arg' = [arg EXCEPT ![t] = new] /\ todo' = [todo EXCEPT ![t] = new]
    BY <1>1 DEF Load, new
  <2> QED BY <1>1, <2>1, <2>2 DEF Load
<1>2. ASSUME NEW t \in Setters, Announce(t) PROVE RoundTypeOK'
  BY <1>2 DEF Announce, InformRoot
<1>3. ASSUME NEW t \in Setters, Skip(t) PROVE RoundTypeOK'
  BY <1>3 DEF Skip
<1>4. ASSUME NEW t \in Setters, Apply(t) PROVE RoundTypeOK'
  <2>1. PICK d \in todo[t] : /\ known' = known \cup {d.name}
                             /\ cur' = [cur EXCEPT ![t] = d]
                             /\ more' = [more EXCEPT ![t] = d.appenders]
                             /\ todo' = [todo EXCEPT ![t] = @ \ {d}]
    BY <1>4 DEF Apply
  <2>2. d \in Defines
    OBVIOUS
  <2>3. d.name \in Loggers /\ d.appenders \in Seq(AppenderDefines)
    BY <2>2 DEF Defines
  <2> QED BY <1>4, <2>1, <2>2, <2>3 DEF Apply
<1>5. ASSUME NEW t \in Setters, SetFormat(t) PROVE RoundTypeOK'
  BY <1>5 DEF SetFormat
<1>6. ASSUME NEW t \in Setters, Clear(t) PROVE RoundTypeOK'
  BY <1>6 DEF Clear
<1>7. ASSUME NEW t \in Setters, Make(t) PROVE RoundTypeOK'
  <2>1. PICK a \in Appenders : /\ kind' = [kind EXCEPT ![a] = Head(more[t]).type]
                               /\ made' = [made EXCEPT ![t] = a]
    <3> DEFINE unused == {b \in Appenders : kind[b] = 0}
               a == CHOOSE b \in unused : TRUE
    <3>1. unused # {}
      BY <1>7 DEF Make
    <3>2. a \in Appenders
      BY <3>1
    <3> QED BY <1>7, <3>2 DEF Make
  <2>2. Head(more[t]) \in AppenderDefines
    BY <1>7 DEF Make
  <2>3. Head(more[t]).type \in 0 .. 2
    BY <2>2 DEF AppenderDefines
  <2> QED BY <1>7, <2>1, <2>3 DEF Make
<1>8. ASSUME NEW t \in Setters, SetOwn(t) PROVE RoundTypeOK'
  BY <1>8 DEF SetOwn
<1>9. ASSUME NEW t \in Setters, Add(t) PROVE RoundTypeOK'
  <2>1. more[t] \in Seq(AppenderDefines) /\ more[t] # <<>>
    BY <1>9 DEF Add
  <2>2. Tail(more[t]) \in Seq(AppenderDefines)
    BY <2>1
  <2> QED BY <1>9, <2>2 DEF Add
<1>10. ASSUME NEW t \in Setters, Applied(t) PROVE RoundTypeOK'
  BY <1>10 DEF Applied
<1>11. ASSUME NEW t \in Setters, ToRemove(t) PROVE RoundTypeOK'
  BY <1>11 DEF ToRemove
<1>12. ASSUME NEW t \in Setters, SkipKept(t) PROVE RoundTypeOK'
  BY <1>12 DEF SkipKept
<1>13. ASSUME NEW t \in Setters, TurnOff(t) PROVE RoundTypeOK'
  <2>1. PICK d \in todo[t] : /\ known' = known \cup {d.name}
                             /\ cur' = [cur EXCEPT ![t] = d]
                             /\ todo' = [todo EXCEPT ![t] = @ \ {d}]
    BY <1>13 DEF TurnOff
  <2>2. d \in Defines
    OBVIOUS
  <2>3. d.name \in Loggers
    BY <2>2 DEF Defines
  <2> QED BY <1>13, <2>1, <2>2, <2>3 DEF TurnOff
<1>14. ASSUME NEW t \in Setters, Drop(t) PROVE RoundTypeOK'
  BY <1>14 DEF Drop
<1>15. ASSUME NEW t \in Setters, EndListener(t) PROVE RoundTypeOK'
  BY <1>15 DEF EndListener
<1>16. ASSUME NEW t \in Setters, Store(t) PROVE RoundTypeOK'
  BY <1>16 DEF Store
<1>17. ASSUME NEW t \in Threads \ Setters, NEW l \in Loggers, NEW e \in Events, Statement(t, l, e)
       PROVE  RoundTypeOK'
  BY <1>17 DEF Statement
<1>18. CASE UNCHANGED reload
  BY <1>18
<1>19. ASSUME NEW t \in Threads, Continue(t) PROVE RoundTypeOK'
  BY <1>18, <1>19 DEF Continue
<1>20. ASSUME NEW t \in Threads, Stray(t) /\ UNCHANGED reload PROVE RoundTypeOK'
  BY <1>18, <1>20
<1>23. ASSUME NEW t \in Setters, NEW u \in Setters, BothClear(t, u) PROVE RoundTypeOK'
  BY <1>18, <1>23 DEF BothClear
<1>21. ASSUME NEW t \in Setters, NEW document \in Documents, Refuse(t, document)
       PROVE  RoundTypeOK'
  BY <1>21 DEF Refuse
<1>22. CASE UNCHANGED all
  BY <1>18, <1>22 DEF all
<1> QED
  BY <1>1, <1>2, <1>3, <1>4, <1>5, <1>6, <1>7, <1>8, <1>9, <1>10, <1>11, <1>12, <1>13,
     <1>14, <1>15, <1>16, <1>17, <1>19, <1>20, <1>21, <1>22, <1>23
  DEF ReloadNext, Listener

-----------------------------------------------------------------------------
(* Every step on a logger is a call Logger knows *)

LEMMA StepSimulates == RoundTypeOK /\ [ReloadNext]_all => [Next]_vars
<1> SUFFICES ASSUME RoundTypeOK, [ReloadNext]_all PROVE Next \/ UNCHANGED vars
  OBVIOUS
<1>a. /\ Setters \subseteq Threads
      /\ Root \in Loggers
      /\ INFO \in Levels /\ OFF \in Levels /\ Events \subseteq Levels
  BY LoggerAssumption, LogReloadAssumption
<1>b. \A t \in Setters : cur[t].name \in Loggers
  <2> SUFFICES ASSUME NEW t \in Setters PROVE cur[t].name \in Loggers
    OBVIOUS
  <2>1. cur[t] \in Defines
    BY DEF RoundTypeOK
  <2> QED BY <2>1 DEF Defines
<1>c. ASSUME NEW t \in Setters, NEW d \in todo[t] PROVE d.name \in Loggers /\ d.level \in Levels
  <2>1. d \in Defines
    BY DEF RoundTypeOK
  <2> QED BY <2>1 DEF Defines
<1>d. ASSUME NEW t \in Setters, stage[t] \in {"own", "add"} PROVE made[t] \in Appenders
  BY <1>d DEF RoundTypeOK
<1>1. ASSUME NEW t \in Setters, NEW document \in Documents, Load(t, document) PROVE UNCHANGED vars
  BY <1>1 DEF Load
<1>2. ASSUME NEW t \in Setters, Announce(t) PROVE Next \/ UNCHANGED vars
  BY <1>2, <1>a DEF Announce, InformRoot, Next
<1>3. ASSUME NEW t \in Setters, Skip(t) \/ Applied(t) \/ ToRemove(t) \/ SkipKept(t) \/ EndListener(t)
      PROVE  UNCHANGED vars
  BY <1>3 DEF Skip, Applied, ToRemove, SkipKept, EndListener
<1>4. ASSUME NEW t \in Setters, Apply(t) PROVE Next
  <2>1. PICK d \in todo[t] : SetLevel(t, d.name, d.level)
    BY <1>4 DEF Apply
  <2> QED BY <2>1, <1>a, <1>c DEF Next
<1>5. ASSUME NEW t \in Setters, SetFormat(t) PROVE Next \/ UNCHANGED vars
  BY <1>5, <1>a, <1>b DEF SetFormat, Next
<1>6. ASSUME NEW t \in Setters, Clear(t) \/ Drop(t) PROVE Next
  BY <1>6, <1>a, <1>b DEF Clear, Drop, Next
<1>7. ASSUME NEW t \in Setters, Make(t) PROVE Next
  <2>1. Head(more[t]) \in AppenderDefines
    BY <1>7 DEF Make, RoundTypeOK
  <2>2. Head(more[t]).level \in Levels
    BY <2>1 DEF AppenderDefines
  <2>3. PICK a \in Appenders : AppenderSetLevel(t, a, Head(more[t]).level)
    <3> DEFINE unused == {b \in Appenders : kind[b] = 0}
               a == CHOOSE b \in unused : TRUE
    <3>1. unused # {}
      BY <1>7 DEF Make
    <3>2. a \in Appenders
      BY <3>1
    <3> QED BY <1>7, <3>2 DEF Make
  <2> QED BY <2>2, <2>3, <1>a DEF Next
<1>8. ASSUME NEW t \in Setters, SetOwn(t) PROVE Next \/ UNCHANGED vars
  <2>1. made[t] \in Appenders
    BY <1>8, <1>d DEF SetOwn, Between
  <2> QED BY <1>8, <2>1, <1>a DEF SetOwn, Next
<1>9. ASSUME NEW t \in Setters, Add(t) PROVE Next
  <2>1. made[t] \in Appenders
    BY <1>9, <1>d DEF Add, Between
  <2> QED BY <1>9, <2>1, <1>a, <1>b DEF Add, Next
<1>10. ASSUME NEW t \in Setters, TurnOff(t) PROVE Next
  <2>1. PICK d \in todo[t] : SetLevel(t, d.name, OFF)
    BY <1>10 DEF TurnOff
  <2> QED BY <2>1, <1>a, <1>c DEF Next
<1>11. ASSUME NEW t \in Setters, Store(t) PROVE UNCHANGED vars
  BY <1>11 DEF Store
<1>12. ASSUME NEW t \in Threads \ Setters, NEW l \in Loggers, NEW e \in Events, Statement(t, l, e)
       PROVE  Next
  BY <1>12, <1>a DEF Statement, Next
<1>13. ASSUME NEW t \in Threads, Continue(t) PROVE Next
  BY <1>13 DEF Continue, Next
<1>14. ASSUME NEW t \in Threads, Stray(t) PROVE Next
  BY <1>14 DEF Next
<1>17. ASSUME NEW t \in Setters, NEW u \in Setters, BothClear(t, u) PROVE Next
  <2>1. ClearTogether(t, u, cur[t].name)
    BY <1>17 DEF BothClear
  <2> QED BY <2>1, <1>a, <1>b DEF Next
<1>15. ASSUME NEW t \in Setters, NEW document \in Documents, Refuse(t, document)
       PROVE  Next \/ UNCHANGED vars
  BY <1>15, <1>a DEF Refuse, InformRoot, Next
<1>16. CASE UNCHANGED all
  BY <1>16 DEF all
<1> QED
  BY <1>1, <1>2, <1>3, <1>4, <1>5, <1>6, <1>7, <1>8, <1>9, <1>10, <1>11, <1>12, <1>13,
     <1>14, <1>15, <1>16, <1>17 DEF ReloadNext, Listener

\* A reload uses loggers and appenders only as Logger lets its callers, whatever
\* the documents say: what holds of Logger holds while it is reconfigured.
THEOREM ReloadImplementsLogger == ReloadSpec => Spec
<1>1. ReloadInit => Init
  BY DEF ReloadInit
<1> QED BY <1>1, RoundTypeInit, RoundTypeStep, StepSimulates, PTL DEF ReloadSpec, Spec

\* The types of both modules; an appender that a reload makes is attached before
\* the reload does anything else.
THEOREM ReloadTypes == ReloadSpec => []ReloadTypeOK
<1>1. ReloadSpec => []RoundTypeOK
  BY RoundTypeInit, RoundTypeStep, PTL DEF ReloadSpec
<1>2. IInv => TypeOK
  BY DEF IInv
<1> QED BY <1>1, <1>2, ReloadImplementsLogger, Invariance, PTL DEF ReloadTypeOK

\* Where a thread stands in the order of the locks: before the write lock of
\* "logs", before a logger's, between a logger's and the root's, or after both.
Rank(t) ==
  IF t \in Setters /\ pc[t] = "idle" /\ stage[t] = "store" THEN 3
  ELSE IF pc[t] = "enter" /\ from[t] # NoLogger THEN 1
  ELSE IF \E l \in Loggers : Wants(t, l) THEN 2 ELSE 0

\* The thread that holds a lock another one wants stands after it.
LEMMA OwnerIsFurther ==
  ASSUME LockInv, NEW t \in Threads, NEW u \in Threads,
         NEW l \in Loggers, Wants(t, l), owner[l] = u
  PROVE  Rank(u) < Rank(t)
<1>1. Holds(u, l)
  BY DEF LockInv
<1>2. pc[u] # "idle" /\ (pc[u] = "enter" => from[u] = l)
  BY <1>1, LoggerAssumption DEF Holds, LockInv
<1>3. Rank(u) = IF pc[u] = "enter" THEN 1 ELSE 0
  <2>1. CASE pc[u] = "enter"
    BY <1>2, <2>1, LoggerAssumption DEF Rank
  <2>2. CASE pc[u] # "enter"
    BY <1>2, <2>2 DEF Rank, Wants
  <2> QED BY <2>1, <2>2
<1>4. Rank(t) = 1 => pc[u] # "enter"
  <2> SUFFICES ASSUME Rank(t) = 1, pc[u] = "enter" PROVE FALSE
    OBVIOUS
  <2>1. pc[t] = "enter" /\ from[t] # NoLogger
    BY DEF Rank
  <2>2. l = Root
    BY <2>1 DEF Wants, LockInv
  <2> QED BY <1>2, <2>2, LoggerAssumption DEF LockInv
<1>5. Rank(t) \in {1, 2}
  BY DEF Rank, Wants
<1> QED BY <1>3, <1>4, <1>5

LEMMA LocksAreOrdered == IInv /\ RoundTypeOK => NoCircle
<1> SUFFICES ASSUME IInv, RoundTypeOK PROVE NoCircle
  OBVIOUS
<1> DEFINE rank == [t \in Threads |-> Rank(t)]
<1>1. rank \in [Threads -> 0 .. 3]
  BY DEF Rank
<1>2. ASSUME NEW t \in Threads, NEW u \in Threads, WaitsFor(t, u)
      PROVE  rank[u] < rank[t]
  <2>1. CASE \E l \in Loggers : Wants(t, l) /\ owner[l] = u
    BY <2>1, OwnerIsFurther DEF IInv
  <2>2. CASE /\ t \in Setters /\ pc[t] = "idle" /\ stage[t] = "store"
             /\ u \in Setters /\ InRound(u)
    BY <2>2 DEF Rank, InRound
  <2> QED BY <1>2, <2>1, <2>2 DEF WaitsFor
<1> HIDE DEF rank
<1> QED BY <1>1, <1>2 DEF NoCircle

\* Nobody ever waits for itself, directly or through others, for the read lock
\* of "logs" and the locks of the loggers, whatever the documents say and
\* however many threads load them and log.
THEOREM NobodyWaitsForItself == ReloadSpec => []NoCircle
<1>1. ReloadSpec => []IInv
  BY ReloadImplementsLogger, Invariance, PTL
<1>2. ReloadSpec => []RoundTypeOK
  BY ReloadTypes, PTL DEF ReloadTypeOK
<1> QED BY <1>1, <1>2, LocksAreOrdered, PTL

\* While loggers are reconfigured, addAppender and setFormatter run beside the
\* threads that log: events are delivered as EventDelivery says, none meets an
\* appender without a formatter, and no list changes under a walk (clearAppenders
\* apart).  No appender of a configuration is given a formatter of its own once
\* an addAppender has it: it keeps that formatter, and the others have their
\* logger's.
THEOREM ReloadKeepsWalks ==
  ReloadSpec =>
    /\ DeliverySpec
    /\ [](WalkIsWhole /\ RootStandsIn /\ FormattersPresent /\ OwnFormatterKept)
    /\ [](raced = {} /\ FormatterInherited)
<1>1. Spec => [](IInv /\ CarefulAll)
  BY Invariance, CarefulInit, CarefulStep, PTL DEF Spec
<1>2. IInv /\ CarefulAll => raced = {} /\ FormatterInherited
  BY LogReloadAssumption DEF CarefulAll, CarefulInv, IInv, TypeOK
<1> QED
  BY <1>1, <1>2, ReloadImplementsLogger, ImplementsDelivery, WalksAreWhole, RootOnlyStandsIn,
     FormattersArePresent, OwnFormattersAreKept, PTL

-----------------------------------------------------------------------------
(* Definitions that stay *)

FirstLoop == {"log", "apply", "format", "clear", "make", "own", "add"}
Touching == {"format", "clear", "make", "own", "add"}

\* What a listener works on differs between the value it replaces and the new.
RoundInv ==
  /\ Main \in Setters
  /\ ~Booted =>
       \A t \in Setters : stage[t] \in IF t = Main THEN {"make", "own", "add"} ELSE {"idle"}
  /\ \A t \in Setters :
       /\ stage[t] \in FirstLoop => todo[t] \subseteq arg[t]
       /\ stage[t] \in {"remove", "drop"} => todo[t] \subseteq logs
       /\ Booted /\ stage[t] \in Touching => cur[t] \in arg[t] /\ cur[t] \notin logs
       /\ stage[t] = "drop" => cur[t] \in logs /\ Named(arg[t], cur[t].name) = {}

\* Only a listener is inside addAppender or setFormatter, for the logger it is at.
CallInv ==
  \A t \in Threads : pc[t] \in {"add", "format"} =>
    /\ t \in Setters
    /\ at[t] = cur[t].name
    /\ stage[t] = IF pc[t] = "add" THEN "make" ELSE "clear"

LEMMA RoundInvInit == ReloadInit => RoundInv /\ CallInv
<1> SUFFICES ASSUME ReloadInit PROVE RoundInv /\ CallInv
  OBVIOUS
<1>1. /\ \A t \in Setters : stage[t] = IF t = Main THEN "make" ELSE "idle"
      /\ \A t \in Setters : todo[t] = {}
      /\ ~Booted
  BY DEF ReloadInit, Booted
<1>2. RoundInv
  BY <1>1, LogReloadAssumption DEF RoundInv
<1>3. CallInv
  BY DEF ReloadInit, Init, CallInv
<1> QED BY <1>2, <1>3

LEMMA CallInvStep == TypeOK /\ RoundTypeOK /\ CallInv /\ [ReloadNext]_all => CallInv'
<1> SUFFICES ASSUME TypeOK, RoundTypeOK, CallInv, [ReloadNext]_all PROVE CallInv'
  OBVIOUS
<1> USE LogReloadAssumption DEF CallInv, Between, Goto
<1>a. /\ pc \in [Threads -> PCs] /\ at \in [Threads -> Loggers \cup {NoLogger}]
      /\ stage \in [Setters -> Stages] /\ cur \in [Setters -> Defines]
      /\ Setters \subseteq Threads
  BY DEF TypeOK, RoundTypeOK
\* A step that leaves the calls alone and, if it is a listener's, happens between
\* calls.
<1>b. ASSUME NEW t \in Setters, pc[t] = "idle", UNCHANGED <<pc, at>>,
             \A u \in Setters : u # t => cur'[u] = cur[u] /\ stage'[u] = stage[u]
      PROVE  CallInv'
  BY <1>a, <1>b
<1>c. ASSUME UNCHANGED <<stage, cur>>,
             \A t \in Threads : pc'[t] \in {"add", "format"} => pc'[t] = pc[t] /\ at'[t] = at[t]
      PROVE  CallInv'
  BY <1>a, <1>c
<1>1. ASSUME NEW t \in Setters, NEW document \in Documents, Load(t, document) PROVE CallInv'
  BY <1>1, <1>a, <1>b DEF Load, vars, frames
<1>2. ASSUME NEW t \in Setters, Announce(t) PROVE CallInv'
  <2>1. CASE LogStatement(t, Root, INFO)
    BY <1>2, <2>1, <1>a DEF Announce, InformRoot, LogStatement
  <2>2. CASE UNCHANGED vars
    BY <1>2, <2>2, <1>a, <1>b DEF Announce, InformRoot, vars, frames
  <2> QED BY <1>2, <2>1, <2>2 DEF Announce, InformRoot
<1>3. ASSUME NEW t \in Setters, Skip(t) \/ Applied(t) \/ ToRemove(t) \/ SkipKept(t) \/ EndListener(t)
      PROVE  CallInv'
  BY <1>3, <1>a, <1>b DEF Skip, Applied, ToRemove, SkipKept, EndListener, vars, frames
<1>4. ASSUME NEW t \in Setters, Apply(t) PROVE CallInv'
  BY <1>4, <1>a, <1>b DEF Apply, SetLevel, frames
<1>5. ASSUME NEW t \in Setters, SetFormat(t) PROVE CallInv'
  <2>1. CASE UNCHANGED vars
    BY <1>5, <2>1, <1>a, <1>b DEF SetFormat, vars, frames
  <2>2. ASSUME NEW f \in Formatters, FormatLock(t, cur[t].name, f) PROVE CallInv'
    BY <1>5, <2>2, <1>a DEF SetFormat, FormatLock, Take
  <2> QED BY <1>5, <2>1, <2>2 DEF SetFormat
<1>6. ASSUME NEW t \in Setters, Clear(t) \/ Drop(t) PROVE CallInv'
  BY <1>6, <1>a, <1>b DEF Clear, Drop, ClearAppenders
<1>7. ASSUME NEW t \in Setters, Make(t) PROVE CallInv'
  BY <1>7, <1>a, <1>b DEF Make, AppenderSetLevel, frames
<1>8. ASSUME NEW t \in Setters, SetOwn(t) PROVE CallInv'
  BY <1>8, <1>a, <1>b DEF SetOwn, AppenderSetFormatter, vars, frames
<1>9. ASSUME NEW t \in Setters, Add(t) PROVE CallInv'
  BY <1>9, <1>a DEF Add, AddLock, Take
<1>10. ASSUME NEW t \in Setters, TurnOff(t) PROVE CallInv'
  BY <1>10, <1>a, <1>b DEF TurnOff, SetLevel, frames
<1>11. ASSUME NEW t \in Setters, Store(t) PROVE CallInv'
  BY <1>11, <1>a, <1>b DEF Store, vars, frames
<1>12. ASSUME NEW t \in Threads \ Setters, NEW l \in Loggers, NEW e \in Events, Statement(t, l, e)
       PROVE  CallInv'
  BY <1>12, <1>a, <1>c DEF Statement, LogStatement
<1>13. ASSUME NEW t \in Threads, Continue(t) PROVE CallInv'
  <2>1. UNCHANGED <<stage, cur>>
    BY <1>13 DEF Continue
  <2>2. \A u \in Threads : pc'[u] \in {"add", "format"} => pc'[u] = pc[u] /\ at'[u] = at[u]
    <3>1. CASE LogCall(t) \/ Enter(t)
      BY <3>1, <1>a DEF LogCall, Enter, Under
    <3>2. CASE Fallback(t) \/ Output(t)
      BY <3>2, <1>a DEF Fallback, Output, Under
    <3>3. CASE Leave(t)
      BY <3>3, <1>a DEF Leave, Under, Return
    <3>4. CASE AddFinish(t) \/ FormatDone(t)
      BY <3>4, <1>a DEF AddFinish, FormatDone, Under, Return
    <3>5. CASE FormatOne(t)
      BY <3>5, <1>a DEF FormatOne, Under
    <3> QED BY <1>13, <3>1, <3>2, <3>3, <3>4, <3>5 DEF Continue
  <2> QED BY <2>1, <2>2, <1>c
<1>14. ASSUME NEW t \in Threads, Stray(t), UNCHANGED reload PROVE CallInv'
  BY <1>14, <1>c DEF Stray
<1>17. ASSUME NEW t \in Setters, NEW u \in Setters, BothClear(t, u) PROVE CallInv'
  BY <1>17, <1>c DEF BothClear, ClearTogether, frames
<1>16. ASSUME NEW t \in Setters, NEW document \in Documents, Refuse(t, document)
       PROVE  CallInv'
  BY <1>16, <1>a, <1>c DEF Refuse, InformRoot, LogStatement, vars, frames
<1>15. CASE UNCHANGED all
  BY <1>15, <1>c DEF all, vars, frames
<1> QED
  BY <1>1, <1>2, <1>3, <1>4, <1>5, <1>6, <1>7, <1>8, <1>9, <1>10, <1>11, <1>12, <1>13,
     <1>14, <1>15, <1>16, <1>17 DEF ReloadNext, Listener

LEMMA RoundInvStep == RoundTypeOK /\ RoundInv /\ [ReloadNext]_all => RoundInv'
<1> SUFFICES ASSUME RoundTypeOK, RoundInv, [ReloadNext]_all PROVE RoundInv'
  OBVIOUS
<1> USE DEF RoundInv, Between, Goto, FirstLoop, Touching
<1>a. /\ stage \in [Setters -> Stages] /\ cur \in [Setters -> Defines]
      /\ arg \in [Setters -> SUBSET Defines] /\ todo \in [Setters -> SUBSET Defines]
  BY DEF RoundTypeOK
\* A step of a setter t that moves nobody else and leaves arg and logs.
<1>b. ASSUME NEW t \in Setters, Booted, Booted', UNCHANGED <<logs, arg>>,
             \A u \in Setters : u # t =>
               cur'[u] = cur[u] /\ stage'[u] = stage[u] /\ todo'[u] = todo[u],
             /\ stage'[t] \in FirstLoop => todo'[t] \subseteq arg[t]
             /\ stage'[t] \in {"remove", "drop"} => todo'[t] \subseteq logs
             /\ stage'[t] \in Touching => cur'[t] \in arg[t] /\ cur'[t] \notin logs
             /\ stage'[t] = "drop" => cur'[t] \in logs /\ Named(arg[t], cur'[t].name) = {}
      PROVE  RoundInv'
  BY <1>b
<1>c. ASSUME UNCHANGED <<logs, arg, stage, cur, todo>>, Booted' => Booted, Booted => Booted'
      PROVE  RoundInv'
  BY <1>c
<1>1. ASSUME NEW t \in Setters, NEW document \in Documents, Load(t, document) PROVE RoundInv'
  <2>1. PICK new : arg' = [arg EXCEPT ![t] = new] /\ todo' = [todo EXCEPT ![t] = new]
    BY <1>1 DEF Load
  <2>2. /\ stage[t] = "idle" /\ stage' = [stage EXCEPT ![t] = "log"]
        /\ Booted /\ UNCHANGED <<logs, cur, known>>
    BY <1>1 DEF Load
  <2> QED BY <2>1, <2>2, <1>a DEF Booted
<1>2. ASSUME NEW t \in Setters, Announce(t) PROVE RoundInv'
  BY <1>2, <1>a, <1>b DEF Announce, InformRoot, Booted
<1>3. ASSUME NEW t \in Setters, Skip(t) PROVE RoundInv'
  BY <1>3, <1>a, <1>b DEF Skip, Booted
<1>4. ASSUME NEW t \in Setters, Apply(t) PROVE RoundInv'
  <2>1. PICK d \in todo[t] : /\ d \notin logs
                             /\ known' = known \cup {d.name}
                             /\ cur' = [cur EXCEPT ![t] = d]
                             /\ todo' = [todo EXCEPT ![t] = @ \ {d}]
    BY <1>4 DEF Apply, Same
  <2>2. stage[t] = "apply" /\ stage' = [stage EXCEPT ![t] = "format"] /\ UNCHANGED <<logs, arg>>
    BY <1>4 DEF Apply
  <2>3. Booted /\ Booted'
    BY <2>1, <2>2 DEF Booted
  <2> QED BY <2>1, <2>2, <2>3, <1>a, <1>b
<1>5. ASSUME NEW t \in Setters, SetFormat(t) PROVE RoundInv'
  BY <1>5, <1>a, <1>b DEF SetFormat, Booted
<1>6. ASSUME NEW t \in Setters, Clear(t) PROVE RoundInv'
  BY <1>6, <1>a, <1>b DEF Clear, Booted
\* Steps from one of the stages of the boot to another.
<1>e. ASSUME NEW t \in Setters, NEW s \in {"make", "own", "add"}, stage[t] \in {"make", "own", "add"},
             stage' = [stage EXCEPT ![t] = s], UNCHANGED <<logs, arg, todo, cur, known>>
      PROVE  RoundInv'
  BY <1>a, <1>e DEF Booted
<1>7. ASSUME NEW t \in Setters, Make(t) PROVE RoundInv'
  BY <1>7, <1>e DEF Make
<1>8. ASSUME NEW t \in Setters, SetOwn(t) PROVE RoundInv'
  BY <1>8, <1>e DEF SetOwn
<1>9. ASSUME NEW t \in Setters, Add(t) PROVE RoundInv'
  BY <1>9, <1>e DEF Add
<1>10. ASSUME NEW t \in Setters, Applied(t) PROVE RoundInv'
  <2>1. /\ stage[t] = "make" /\ stage' = [stage EXCEPT ![t] = IF Booted THEN "apply" ELSE "idle"]
        /\ Booted' /\ UNCHANGED <<logs, arg, todo, cur>>
    BY <1>10 DEF Applied, Booted
  <2>2. CASE Booted
    BY <2>1, <2>2, <1>a, <1>b
  <2>3. CASE ~Booted
    <3>1. \A u \in Setters : stage'[u] = "idle"
      BY <2>1, <2>3, <1>a
    <3> QED BY <3>1, <2>1
  <2> QED BY <2>2, <2>3
<1>11. ASSUME NEW t \in Setters, ToRemove(t) PROVE RoundInv'
  BY <1>11, <1>a, <1>b DEF ToRemove, Booted
<1>12. ASSUME NEW t \in Setters, SkipKept(t) PROVE RoundInv'
  <2>1. PICK d \in todo[t] : todo' = [todo EXCEPT ![t] = @ \ {d}]
    BY <1>12 DEF SkipKept
  <2>2. stage[t] = "remove" /\ UNCHANGED <<logs, arg, stage, cur, known>>
    BY <1>12 DEF SkipKept
  <2>3. Booted /\ Booted'
    BY <2>2 DEF Booted
  <2> QED BY <2>1, <2>2, <2>3, <1>a, <1>b
<1>13. ASSUME NEW t \in Setters, TurnOff(t) PROVE RoundInv'
  <2>1. PICK d \in todo[t] : /\ Named(arg[t], d.name) = {}
                             /\ known' = known \cup {d.name}
                             /\ cur' = [cur EXCEPT ![t] = d]
                             /\ todo' = [todo EXCEPT ![t] = @ \ {d}]
    BY <1>13 DEF TurnOff
  <2>2. stage[t] = "remove" /\ stage' = [stage EXCEPT ![t] = "drop"] /\ UNCHANGED <<logs, arg>>
    BY <1>13 DEF TurnOff
  <2>3. Booted /\ Booted'
    BY <2>1, <2>2 DEF Booted
  <2> QED BY <2>1, <2>2, <2>3, <1>a, <1>b
<1>14. ASSUME NEW t \in Setters, Drop(t) PROVE RoundInv'
  BY <1>14, <1>a, <1>b DEF Drop, Booted
<1>15. ASSUME NEW t \in Setters, EndListener(t) PROVE RoundInv'
  BY <1>15, <1>a, <1>b DEF EndListener, Booted
<1>16. ASSUME NEW t \in Setters, Store(t) PROVE RoundInv'
  <2>1. /\ \A u \in Setters : stage[u] \in {"idle", "store"}
        /\ stage[t] = "store" /\ stage' = [stage EXCEPT ![t] = "idle"]
        /\ UNCHANGED <<arg, todo, cur, known>>
    BY <1>16 DEF Store, InRound
  <2>2. Booted /\ Booted'
    BY <2>1 DEF Booted
  <2>3. \A u \in Setters : stage'[u] \in {"idle", "store"}
    BY <2>1, <1>a
  <2> QED BY <2>2, <2>3
<1>17. ASSUME NEW t \in Threads \ Setters, NEW l \in Loggers, NEW e \in Events, Statement(t, l, e)
       PROVE  RoundInv'
  BY <1>17, <1>c DEF Statement, Booted
<1>18. ASSUME UNCHANGED reload PROVE RoundInv'
  BY <1>18, <1>c DEF Booted
<1>19. ASSUME NEW t \in Threads, Continue(t) PROVE RoundInv'
  BY <1>18, <1>19 DEF Continue
<1>22. ASSUME NEW t \in Setters, NEW u \in Setters, BothClear(t, u) PROVE RoundInv'
  BY <1>18, <1>22 DEF BothClear
<1>20. ASSUME NEW t \in Setters, NEW document \in Documents, Refuse(t, document)
       PROVE  RoundInv'
  BY <1>20, <1>c DEF Refuse, Booted
<1>21. CASE UNCHANGED all
  BY <1>18, <1>21 DEF all
<1> QED
  BY <1>1, <1>2, <1>3, <1>4, <1>5, <1>6, <1>7, <1>8, <1>9, <1>10, <1>11, <1>12, <1>13,
     <1>14, <1>15, <1>16, <1>17, <1>18, <1>19, <1>20, <1>21, <1>22
  DEF ReloadNext, Listener

\* One step of the property.
StaysOrChanges ==
  \A l \in Loggers :
    \/ UNCHANGED <<m_level[l], m_appenders[l], m_formatter[l]>>
    \/ ~Booted
    \/ \E t \in Setters : InRound(t) /\ Named(logs, l) # Named(arg[t], l)

LEMMA StepStays ==
  TypeOK /\ RoundTypeOK /\ RoundInv /\ CallInv /\ [ReloadNext]_all => StaysOrChanges
<1> SUFFICES ASSUME TypeOK, RoundTypeOK, RoundInv, CallInv, [ReloadNext]_all, Booted,
                    NEW l \in Loggers
             PROVE  \/ UNCHANGED <<m_level[l], m_appenders[l], m_formatter[l]>>
                    \/ \E t \in Setters : InRound(t) /\ Named(logs, l) # Named(arg[t], l)
  BY DEF StaysOrChanges
<1> DEFINE Same3 == UNCHANGED <<m_level[l], m_appenders[l], m_formatter[l]>>
           Differs(t) == InRound(t) /\ Named(logs, l) # Named(arg[t], l)
<1> SUFFICES Same3 \/ \E t \in Setters : Differs(t)
  OBVIOUS
<1> USE DEF Between
<1>a. /\ m_level \in [Loggers -> Levels] /\ m_appenders \in [Loggers -> Seq(Appenders)]
      /\ m_formatter \in [Loggers -> AnyFormatter]
      /\ Setters \subseteq Threads
  BY LogReloadAssumption DEF TypeOK
<1>b. ASSUME NEW t \in Setters, NEW d, d.name = l, InRound(t),
             \/ d \in arg[t] /\ d \notin logs
             \/ d \in logs /\ Named(arg[t], l) = {}
      PROVE  Differs(t)
  <2>1. d \in Named(arg[t], l) <=> d \in arg[t]
    BY <1>b DEF Named
  <2>2. d \in Named(logs, l) <=> d \in logs
    BY <1>b DEF Named
  <2> QED BY <1>b, <2>1, <2>2
<1>c. ASSUME NEW t \in Setters, cur[t].name = l, stage[t] \in Touching \cup {"drop"}
      PROVE  Differs(t)
  <2>1. InRound(t)
    BY <1>c DEF InRound, Touching
  <2> QED BY <1>b, <1>c, <2>1 DEF RoundInv
<1>d. ASSUME UNCHANGED shared PROVE Same3
  BY <1>d DEF shared, levels, formats
<1>2. ASSUME NEW t \in Setters, NEW document \in Documents, Load(t, document) PROVE Same3
  BY <1>2, <1>d DEF Load, vars
<1>3. ASSUME NEW t \in Setters, Announce(t) PROVE Same3
  BY <1>3, <1>d DEF Announce, InformRoot, LogStatement, vars
<1>4. ASSUME NEW t \in Setters, Skip(t) \/ Applied(t) \/ ToRemove(t) \/ SkipKept(t) \/ EndListener(t)
      PROVE  Same3
  BY <1>4, <1>d DEF Skip, Applied, ToRemove, SkipKept, EndListener, vars
<1>5. ASSUME NEW t \in Setters, Apply(t) PROVE Same3 \/ Differs(t)
  <2>1. PICK d \in todo[t] : d \notin logs /\ SetLevel(t, d.name, d.level)
    BY <1>5 DEF Apply, Same
  <2>2. stage[t] = "apply"
    BY <1>5 DEF Apply
  <2>3. CASE d.name # l
    BY <2>1, <2>3, <1>a DEF SetLevel, formats
  <2>4. CASE d.name = l
    BY <2>1, <2>2, <2>4, <1>b DEF RoundInv, FirstLoop, InRound
  <2> QED BY <2>3, <2>4
<1>6. ASSUME NEW t \in Setters, SetFormat(t) PROVE Same3 \/ Differs(t)
  <2>1. CASE cur[t].name = l
    BY <1>6, <2>1, <1>c DEF SetFormat, Touching
  <2>2. CASE UNCHANGED vars
    BY <2>2, <1>d DEF vars
  <2>3. ASSUME NEW f \in Formatters, FormatLock(t, cur[t].name, f), cur[t].name # l PROVE Same3
    BY <2>3, <1>a DEF FormatLock, levels
  <2> QED BY <1>6, <2>1, <2>2, <2>3 DEF SetFormat
<1>7. ASSUME NEW t \in Setters, Clear(t) \/ Drop(t) PROVE Same3 \/ Differs(t)
  <2>1. CASE cur[t].name = l
    BY <1>7, <2>1, <1>c DEF Clear, Drop, Touching
  <2>2. CASE cur[t].name # l
    BY <1>7, <2>2, <1>a DEF Clear, Drop, ClearAppenders, levels, formats
  <2> QED BY <2>1, <2>2
<1>8. ASSUME NEW t \in Setters, Make(t) PROVE Same3
  BY <1>8 DEF Make, AppenderSetLevel, formats
<1>9. ASSUME NEW t \in Setters, SetOwn(t) PROVE Same3
  BY <1>9, <1>d DEF SetOwn, AppenderSetFormatter, levels, vars
<1>10. ASSUME NEW t \in Setters, Add(t) PROVE Same3
  BY <1>10 DEF Add, AddLock, levels, formats
<1>11. ASSUME NEW t \in Setters, TurnOff(t) PROVE Same3 \/ Differs(t)
  <2>1. PICK d \in todo[t] : Named(arg[t], d.name) = {} /\ SetLevel(t, d.name, OFF)
    BY <1>11 DEF TurnOff
  <2>2. stage[t] = "remove"
    BY <1>11 DEF TurnOff
  <2>3. CASE d.name # l
    BY <2>1, <2>3, <1>a DEF SetLevel, formats
  <2>4. CASE d.name = l
    BY <2>1, <2>2, <2>4, <1>b DEF RoundInv, InRound
  <2> QED BY <2>3, <2>4
<1>12. ASSUME NEW t \in Setters, Store(t) PROVE Same3
  BY <1>12, <1>d DEF Store, vars
<1>13. ASSUME NEW t \in Threads \ Setters, NEW k \in Loggers, NEW e \in Events, Statement(t, k, e)
       PROVE  Same3
  BY <1>13, <1>d DEF Statement, LogStatement
<1>14. ASSUME NEW t \in Threads, Continue(t) PROVE Same3 \/ \E u \in Setters : Differs(u)
  <2>1. CASE LogCall(t) \/ Enter(t) \/ Fallback(t) \/ Output(t) \/ Leave(t) \/ FormatDone(t)
    BY <2>1, <1>d DEF LogCall, Enter, Fallback, Output, Leave, FormatDone
  <2>2. CASE FormatOne(t)
    BY <2>2 DEF FormatOne, levels
  <2>3. CASE AddFinish(t)
    <3>1. t \in Setters /\ at[t] = cur[t].name /\ stage[t] = "make"
      BY <2>3 DEF AddFinish, Under, CallInv
    <3>2. CASE at[t] = l
      BY <3>1, <3>2, <1>c DEF Touching
    <3>3. CASE at[t] # l
      BY <2>3, <3>3, <1>a DEF AddFinish, levels
    <3> QED BY <3>2, <3>3
  <2> QED BY <1>14, <2>1, <2>2, <2>3 DEF Continue
<1>15. ASSUME NEW t \in Threads, Stray(t) PROVE Same3
  BY <1>15, <1>d DEF Stray
<1>18. ASSUME NEW t \in Setters, NEW u \in Setters, BothClear(t, u) PROVE Same3
  BY <1>18, <1>d DEF BothClear, ClearTogether
<1>16. ASSUME NEW t \in Setters, NEW document \in Documents, Refuse(t, document)
       PROVE  Same3
  BY <1>16, <1>d DEF Refuse, InformRoot, LogStatement, vars
<1>17. CASE UNCHANGED all
  BY <1>17, <1>d DEF all, vars
<1> QED
  BY <1>2, <1>3, <1>4, <1>5, <1>6, <1>7, <1>8, <1>9, <1>10, <1>11, <1>12, <1>13,
     <1>14, <1>15, <1>16, <1>17, <1>18 DEF ReloadNext, Listener

\* A logger whose definition does not change keeps its level, its list and its
\* formatter, however the loads of several threads overlap.
THEOREM UnchangedLoggersStay == ReloadSpec => UnchangedUntouched
<1>1. ReloadSpec => [](TypeOK /\ RoundTypeOK)
  BY ReloadTypes, PTL DEF ReloadTypeOK
<1>2. ReloadSpec => [](RoundInv /\ CallInv)
  BY <1>1, RoundInvInit, CallInvStep, RoundInvStep, PTL DEF ReloadSpec
<1>3. TypeOK /\ RoundTypeOK /\ RoundInv /\ CallInv /\ [ReloadNext]_all => [StaysOrChanges]_all
  BY StepStays
<1>4. ReloadSpec => [][StaysOrChanges]_all
  BY <1>1, <1>2, <1>3, PTL DEF ReloadSpec
<1> QED BY <1>4 DEF StaysOrChanges, UnchangedUntouched

-----------------------------------------------------------------------------
(* Old or new *)

\* A value of "logs" has one definition for a name.
OneOfEachName(ds) == \A d, e \in ds : d.name = e.name => d = e

\* Without overlap one listener runs at a time.
SingleInv == \A t, u \in Setters : stage[t] # "idle" /\ stage[u] # "idle" => t = u

NamesInv == OneOfEachName(logs) /\ \A t \in Setters : OneOfEachName(arg[t])

\* No list is cleared under the feet of a listener.
UntornInv == \A t \in torn : pc[t] \notin {"add", "format"}

\* An appender that is not made yet, or not added yet, belongs to no logger.
FreshInv ==
  /\ \A a \in Appenders : kind[a] = 0 => home[a] = NoLogger /\ ~m_have_formatter[a]
  /\ \A t \in Setters : stage[t] \in {"own", "add"} =>
       kind[made[t]] # 0 /\ home[made[t]] = NoLogger

AloneInv == SingleInv /\ NamesInv /\ UntornInv /\ FreshInv

\* Appender a has been given what definition b has for it, its formatter apart.
Fits(a, b) == kind[a] = b.type /\ a_level[a] = b.level

\* Appender a has a formatter of its own exactly if b has one that parses.
Dressed(a, b) ==
  /\ m_have_formatter[a] <=> b.formatter \in Formatters
  /\ b.formatter \in Formatters => a_formatter[a] = b.formatter

\* Is the listener inside addAppender?
Joining(t) == IF pc[t] = "add" THEN 1 ELSE 0

\* The appenders of the definition the listener is at: those in the list match,
\* the next is being set up or added, the others are still to come.
AppendersInv(t) ==
  LET list == m_appenders[cur[t].name]
      ds   == cur[t].appenders
  IN  /\ Len(ds) = Len(list) + Joining(t) + Len(more[t])
      /\ \A k \in 1 .. Len(more[t]) : more[t][k] = ds[Len(list) + Joining(t) + k]
      /\ \A k \in 1 .. Len(list) : Matches(list[k], ds[k], cur[t].name)
      /\ pc[t] = "add" =>
           /\ Fits(obj[t], ds[Len(list) + 1]) /\ Dressed(obj[t], ds[Len(list) + 1])
           /\ obj[t] \notin ToSet(list)
      /\ stage[t] \in {"own", "add"} => Fits(made[t], Head(more[t]))
      /\ stage[t] = "own" => ~m_have_formatter[made[t]]
      /\ stage[t] = "add" => Dressed(made[t], Head(more[t]))

\* The logger the listener is at has what it was given so far.
ProgressInv(t) ==
  LET d == cur[t] IN
    /\ stage[t] \in Touching \cup {"drop"} => Named(todo[t], d.name) = {}
    /\ stage[t] \in Touching => m_level[d.name] = d.level
    /\ stage[t] \in {"format", "clear"} => more[t] = d.appenders
    /\ stage[t] \in Touching \ {"format"} =>
         (d.formatter \in Formatters => m_formatter[d.name] = d.formatter)
    /\ stage[t] \in {"make", "own", "add"} => AppendersInv(t)
    /\ stage[t] = "drop" => m_level[d.name] = OFF

\* Has t's listener still to look at logger l?
Ahead(t, l) ==
  \/ stage[t] \in FirstLoop /\ Named(todo[t], l) # {}
  \/ stage[t] \in FirstLoop /\ Named(arg[t], l) = {}
  \/ stage[t] \in {"remove", "drop"} /\ Named(todo[t], l) # {} /\ Named(arg[t], l) = {}

\* Every other logger is still as it was, or as it is to be.
LoggersInv(t) ==
  \A l \in Loggers :
    \/ Changing(t, l)
    \/ Ahead(t, l) /\ As(l, logs)
    \/ ~Ahead(t, l) /\ As(l, arg[t])

\* Before main the root logger gets its one appender, and nothing else happens.
BootInv ==
  /\ logs = {} /\ cur[Main].name = Root
  /\ \A l \in Loggers :
       /\ m_level[l] = DEBUG /\ m_formatter[l] = DefFormatter
       /\ l # Root => m_appenders[l] = <<>>
  /\ Len(m_appenders[Root]) + Joining(Main) + Len(more[Main]) = 1

\* After it: a load leads from the loggers as the value of "logs" has them to the
\* loggers as its own value has them.
LoadsInv ==
  /\ \A t \in Setters : stage[t] # "idle" => ProgressInv(t) /\ LoggersInv(t)
  /\ (\A t \in Setters : stage[t] = "idle") => \A l \in Loggers : As(l, logs)

LoadInv == ~mixed => AloneInv /\ IF Booted THEN LoadsInv ELSE BootInv

-----------------------------------------------------------------------------
(* What the steps of a reload leave alone *)

\* A step of a call that only logs, or of none.
QuietCall ==
  /\ UNCHANGED <<shared, obj>>
  /\ torn' \subseteq torn
  /\ \A t \in Threads : pc'[t] = "add" <=> pc[t] = "add"
  /\ \A t \in Threads : pc'[t] = "format" => pc[t] = "format"

\* The state of a setter in its round.
Frame(t) == <<stage[t], cur[t], todo[t], more[t], made[t]>>

LEMMA CallIsQuiet ==
  ASSUME IInv, NEW t \in Threads,
         \/ \E l \in Loggers, e \in Levels : LogStatement(t, l, e)
         \/ LogCall(t) \/ Enter(t) \/ Fallback(t) \/ Output(t) \/ Leave(t)
         \/ FormatDone(t) \/ Stray(t)
  PROVE  QuietCall
<1>a. pc \in [Threads -> PCs] /\ torn \subseteq Threads
  BY DEF IInv, TypeOK
<1>1. CASE \E l \in Loggers, e \in Levels : LogStatement(t, l, e)
  BY <1>1, <1>a DEF QuietCall, LogStatement, Start
<1>2. CASE LogCall(t) \/ Enter(t) \/ Fallback(t) \/ Output(t)
  BY <1>2, <1>a DEF QuietCall, LogCall, Enter, Fallback, Output, Under
<1>3. CASE Leave(t) \/ FormatDone(t)
  BY <1>3, <1>a DEF QuietCall, Leave, FormatDone, Under, Return
<1>4. CASE Stray(t)
  BY <1>4 DEF QuietCall, Stray
<1> QED BY <1>1, <1>2, <1>3, <1>4

LEMMA VarsAreQuiet == UNCHANGED vars => QuietCall
BY DEF vars, frames, QuietCall

\* NNYSL_LOG_INFO(NNYSL_LOG_ROOT()) only logs.
LEMMA InformIsQuiet ==
  ASSUME IInv, NEW t \in Setters, InformRoot(t)
  PROVE  QuietCall
BY LoggerAssumption, LogReloadAssumption, CallIsQuiet, VarsAreQuiet DEF InformRoot

\* Who takes a step: a setter between rounds, a listener, or neither.
LEMMA StepKinds ==
  ASSUME IInv, RoundTypeOK, [ReloadNext]_all
  PROVE  \/ \E t \in Setters, document \in Documents : Load(t, document)
         \/ \E t \in Setters : Store(t)
         \/ \E t \in Setters : Listener(t)
         \/ /\ UNCHANGED <<logs, round, kind, mixed>>
            /\ Booted' <=> Booted
            /\ QuietCall \/ \E t \in Threads : AddFinish(t) \/ FormatOne(t)
<1> DEFINE Still == UNCHANGED <<logs, round, kind, mixed>> /\ (Booted' <=> Booted)
<1>1. ASSUME NEW t \in Setters, NEW document \in Documents, Refuse(t, document)
      PROVE  Still /\ QuietCall
  <2>1. InformRoot(t) /\ UNCHANGED <<logs, round, kind, known, mixed>>
    BY <1>1 DEF Refuse
  <2> QED BY <2>1, InformIsQuiet DEF Booted
<1>2. ASSUME NEW t \in Threads \ Setters, NEW l \in Loggers, NEW e \in Events, Statement(t, l, e)
      PROVE  Still /\ QuietCall
  <2>1. LogStatement(t, l, e) /\ e \in Levels
    BY <1>2, LogReloadAssumption DEF Statement
  <2>2. QuietCall
    BY <2>1, CallIsQuiet
  <2>3. Still
    BY <1>2 DEF Statement, Booted
  <2> QED BY <2>2, <2>3
<1>3. ASSUME NEW t \in Threads, Continue(t)
      PROVE  Still /\ (QuietCall \/ AddFinish(t) \/ FormatOne(t))
  <2>1. Still
    BY <1>3 DEF Continue, Booted
  <2>2. QuietCall \/ AddFinish(t) \/ FormatOne(t)
    BY <1>3, CallIsQuiet DEF Continue
  <2> QED BY <2>1, <2>2
<1>4. ASSUME NEW t \in Threads, Stray(t), UNCHANGED reload PROVE Still /\ QuietCall
  BY <1>4, CallIsQuiet DEF Booted
<1>5. CASE UNCHANGED all
  BY <1>5, VarsAreQuiet DEF all, Booted
<1>6. ASSUME NEW t \in Setters, NEW u \in Setters, BothClear(t, u) PROVE Still /\ QuietCall
  BY <1>6 DEF BothClear, ClearTogether, frames, QuietCall, Booted
<1> QED BY <1>1, <1>2, <1>3, <1>4, <1>5, <1>6 DEF ReloadNext

\* A step of a listener is between two calls, and concerns its own round alone.
LEMMA ListenerMoves ==
  ASSUME RoundTypeOK, NEW t \in Setters, Listener(t)
  PROVE  /\ UNCHANGED <<logs, arg, mixed>>
         /\ \A u \in Setters \ {t} : UNCHANGED Frame(u)
         /\ pc[t] = "idle" /\ stage[t] \notin {"idle", "store"}
         /\ Booted => Booted'
<1> USE DEF RoundTypeOK, Between, Goto, Booted, Frame
<1>1. CASE Announce(t) \/ Skip(t) \/ Apply(t) \/ SetFormat(t) \/ Clear(t)
  BY <1>1 DEF Announce, Skip, Apply, SetFormat, Clear
<1>2. CASE Make(t) \/ SetOwn(t) \/ Add(t) \/ Applied(t)
  BY <1>2 DEF Make, SetOwn, Add, Applied
<1>3. CASE ToRemove(t) \/ SkipKept(t) \/ TurnOff(t) \/ Drop(t) \/ EndListener(t)
  BY <1>3 DEF ToRemove, SkipKept, TurnOff, Drop, EndListener
<1> QED BY <1>1, <1>2, <1>3 DEF Listener

\* Once two rounds overlapped, that stays known.
LEMMA MixedStays == ASSUME IInv, RoundTypeOK, [ReloadNext]_all, ~mixed' PROVE ~mixed
BY StepKinds, ListenerMoves DEF Load, Store

\* The appender that Make takes.
LEMMA MakeTakes ==
  ASSUME RoundTypeOK, NEW t \in Setters, Make(t)
  PROVE  \E a \in Appenders :
           /\ kind[a] = 0
           /\ AppenderSetLevel(t, a, Head(more[t]).level)
           /\ kind' = [kind EXCEPT ![a] = Head(more[t]).type]
           /\ made' = [made EXCEPT ![t] = a]
           /\ stage' = [stage EXCEPT ![t] = "own"]
           /\ Head(more[t]).type # 0
<1> DEFINE unused == {b \in Appenders : kind[b] = 0}
           a == CHOOSE b \in unused : TRUE
<1>1. unused # {}
  BY DEF Make
<1>2. a \in Appenders /\ kind[a] = 0
  BY <1>1
<1>3. Head(more[t]) \in AppenderDefines
  BY DEF Make, RoundTypeOK
<1>4. Head(more[t]).type # 0
  BY <1>3 DEF AppenderDefines
<1>5. /\ AppenderSetLevel(t, a, Head(more[t]).level)
      /\ kind' = [kind EXCEPT ![a] = Head(more[t]).type]
      /\ made' = [made EXCEPT ![t] = a]
      /\ stage' = [stage EXCEPT ![t] = "own"]
  BY DEF Make, Goto
<1> HIDE DEF a
<1> QED BY <1>2, <1>4, <1>5

-----------------------------------------------------------------------------
(* One listener at a time *)

LEMMA SingleStep ==
  ASSUME IInv, RoundTypeOK, SingleInv, [ReloadNext]_all, ~mixed'
  PROVE  SingleInv'
<1>a. stage \in [Setters -> Stages]
  BY DEF RoundTypeOK
<1>b. ASSUME \A t \in Setters : stage'[t] # "idle" => stage[t] # "idle"
      PROVE  SingleInv'
  BY <1>b DEF SingleInv
<1>1. ASSUME NEW t \in Setters, NEW document \in Documents, Load(t, document) PROVE SingleInv'
  <2>1. /\ stage' = [stage EXCEPT ![t] = "log"]
        /\ \A u \in Setters : stage[u] = "idle"
    BY <1>1 DEF Load
  <2> QED BY <2>1, <1>a DEF SingleInv
<1>2. ASSUME NEW t \in Setters, Store(t) PROVE SingleInv'
  BY <1>2, <1>a, <1>b DEF Store
<1>3. ASSUME NEW t \in Setters, Listener(t) PROVE SingleInv'
  <2>1. stage[t] # "idle" /\ \A u \in Setters \ {t} : stage'[u] = stage[u]
    BY <1>3, ListenerMoves DEF Frame
  <2> QED BY <2>1, <1>b
<1>4. CASE UNCHANGED round
  BY <1>4, <1>b
<1> QED BY <1>1, <1>2, <1>3, <1>4, StepKinds

LEMMA NewNames ==
  ASSUME NEW document \in Documents
  PROVE  OneOfEachName(FirstOfEachName([k \in DOMAIN document |-> FromYaml(document[k])]))
<1> DEFINE ds == [k \in DOMAIN document |-> FromYaml(document[k])]
<1>1. DOMAIN ds = 1 .. Len(document) /\ Len(document) \in Nat
  BY DocumentsAssumption
<1> HIDE DEF ds
<1> SUFFICES ASSUME NEW d \in FirstOfEachName(ds), NEW e \in FirstOfEachName(ds), d.name = e.name
             PROVE  d = e
  BY DEF OneOfEachName, ds
<1>2. PICK k \in DOMAIN ds : d = ds[k] /\ \A j \in 1 .. k - 1 : ds[j].name # ds[k].name
  BY DEF FirstOfEachName
<1>3. PICK m \in DOMAIN ds : e = ds[m] /\ \A j \in 1 .. m - 1 : ds[j].name # ds[m].name
  BY DEF FirstOfEachName
<1>4. ~(k < m)
  <2>1. k < m => k \in 1 .. m - 1
    BY <1>1
  <2> QED BY <2>1, <1>2, <1>3
<1>5. ~(m < k)
  <2>1. m < k => m \in 1 .. k - 1
    BY <1>1
  <2> QED BY <2>1, <1>2, <1>3
<1>6. k = m
  BY <1>1, <1>4, <1>5
<1> QED BY <1>2, <1>3, <1>6

LEMMA NamesStep ==
  ASSUME IInv, RoundTypeOK, NamesInv, [ReloadNext]_all
  PROVE  NamesInv'
<1>a. arg \in [Setters -> SUBSET Defines]
  BY DEF RoundTypeOK
<1>1. ASSUME NEW t \in Setters, NEW document \in Documents, Load(t, document) PROVE NamesInv'
  <2> DEFINE new == FirstOfEachName([k \in DOMAIN document |-> FromYaml(document[k])])
  <2>1. OneOfEachName(new)
    BY NewNames
  <2> HIDE DEF new
  <2>2. arg' = [arg EXCEPT ![t] = new] /\ logs' = logs
    BY <1>1 DEF Load, new
  <2> QED BY <2>1, <2>2, <1>a DEF NamesInv
<1>2. ASSUME NEW t \in Setters, Store(t) PROVE NamesInv'
  BY <1>2 DEF Store, NamesInv
<1>3. ASSUME NEW t \in Setters, Listener(t) PROVE NamesInv'
  BY <1>3, ListenerMoves DEF NamesInv
<1>4. CASE UNCHANGED <<logs, round>>
  BY <1>4 DEF NamesInv
<1> QED BY <1>1, <1>2, <1>3, <1>4, StepKinds

\* What a listener does about torn walks and calls.
LEMMA ListenerCalls ==
  ASSUME IInv, RoundTypeOK, CallInv, SingleInv, UntornInv, NEW t \in Setters, Listener(t)
  PROVE  UntornInv'
<1> USE DEF Between
<1>a. /\ pc \in [Threads -> PCs] /\ torn \subseteq Threads /\ Setters \subseteq Threads
      /\ \A u \in torn : pc[u] # "idle"
  BY LogReloadAssumption DEF IInv, TypeOK, LockInv
<1>b. ASSUME torn' \subseteq torn,
             \A u \in torn : pc'[u] \in {"add", "format"} => pc[u] \in {"add", "format"}
      PROVE  UntornInv'
  BY <1>b DEF UntornInv
<1>c. CASE QuietCall
  BY <1>a, <1>b, <1>c DEF QuietCall
<1>1. CASE Announce(t)
  BY <1>1, <1>c, InformIsQuiet DEF Announce
<1>2. CASE Skip(t) \/ Applied(t) \/ ToRemove(t) \/ SkipKept(t) \/ EndListener(t)
  BY <1>2, <1>c, VarsAreQuiet DEF Skip, Applied, ToRemove, SkipKept, EndListener
<1>3. CASE Apply(t) \/ TurnOff(t)
  BY <1>3, <1>b DEF Apply, TurnOff, SetLevel, frames
<1>4. CASE SetFormat(t)
  <2>1. CASE UNCHANGED vars
    BY <2>1, <1>c, VarsAreQuiet
  <2>2. ASSUME NEW f \in Formatters, FormatLock(t, cur[t].name, f) PROVE UntornInv'
    BY <2>2, <1>a, <1>b DEF FormatLock, Take, Start
  <2> QED BY <1>4, <2>1, <2>2 DEF SetFormat
<1>5. CASE Clear(t) \/ Drop(t)
  <2>1. ClearAppenders(t, cur[t].name) /\ stage[t] # "idle" /\ pc[t] = "idle"
    BY <1>5 DEF Clear, Drop
  <2>2. pc' = pc /\ \A u \in torn' : u \in torn \/ (u \in Threads /\ Inside(u, cur[t].name))
    BY <2>1 DEF ClearAppenders
  <2>3. ASSUME NEW u \in Threads, pc[u] \in {"add", "format"} PROVE FALSE
    <3>1. u \in Setters /\ stage[u] # "idle"
      BY <2>3 DEF CallInv
    <3> QED BY <2>1, <2>3, <3>1 DEF SingleInv
  <2> QED BY <2>2, <2>3, <1>a DEF UntornInv
<1>6. CASE Make(t)
  BY <1>6, <1>b DEF Make, AppenderSetLevel, frames
<1>7. CASE SetOwn(t)
  <2>1. CASE UNCHANGED vars
    BY <2>1, <1>c, VarsAreQuiet
  <2>2. ASSUME NEW f, AppenderSetFormatter(t, made[t], f) PROVE UntornInv'
    BY <2>2, <1>b DEF AppenderSetFormatter, frames
  <2> QED BY <1>7, <2>1, <2>2 DEF SetOwn
<1>8. CASE Add(t)
  BY <1>8, <1>a, <1>b DEF Add, AddLock, Take, Start
<1> QED BY <1>1, <1>2, <1>3, <1>4, <1>5, <1>6, <1>7, <1>8 DEF Listener

LEMMA UntornStep ==
  ASSUME IInv, RoundTypeOK, CallInv, SingleInv, UntornInv, [ReloadNext]_all
  PROVE  UntornInv'
<1>a. pc \in [Threads -> PCs] /\ torn \subseteq Threads
  BY DEF IInv, TypeOK
<1>1. ASSUME NEW t \in Threads, AddFinish(t) \/ FormatOne(t) PROVE UntornInv'
  BY <1>1, <1>a DEF UntornInv, AddFinish, FormatOne, Under, Return
<1>2. CASE QuietCall
  BY <1>2, <1>a DEF QuietCall, UntornInv
<1>3. ASSUME NEW t \in Setters, NEW document \in Documents, Load(t, document) PROVE UntornInv'
  BY <1>2, <1>3, VarsAreQuiet DEF Load
<1>4. ASSUME NEW t \in Setters, Store(t) PROVE UntornInv'
  BY <1>2, <1>4, VarsAreQuiet DEF Store
<1> QED BY <1>1, <1>2, <1>3, <1>4, StepKinds, ListenerCalls

LEMMA FreshListener ==
  ASSUME IInv, RoundTypeOK, SingleInv, FreshInv, NEW t \in Setters, Listener(t)
  PROVE  FreshInv'
<1> USE LoggerAssumption DEF Between, Goto, shared, levels, formats
<1>a. /\ stage \in [Setters -> Stages] /\ made \in [Setters -> Appenders \cup {NoAppender}]
      /\ kind \in [Appenders -> 0 .. 2]
      /\ home \in [Appenders -> Loggers \cup {NoLogger}]
      /\ m_have_formatter \in [Appenders -> BOOLEAN]
      /\ Setters \subseteq Threads
  BY LogReloadAssumption DEF IInv, TypeOK, RoundTypeOK
<1>b. \A u \in Setters \ {t} : UNCHANGED Frame(u) /\ stage[u] = "idle" /\ stage'[u] = "idle"
  BY ListenerMoves DEF SingleInv, Frame
<1>c. ASSUME UNCHANGED <<kind, home, m_have_formatter>>,
             stage'[t] \notin {"own", "add"}
      PROVE  FreshInv'
  BY <1>b, <1>c DEF FreshInv
<1>1. CASE Announce(t)
  BY <1>1, <1>a, <1>c, InformIsQuiet DEF Announce, QuietCall
<1>2. CASE Skip(t) \/ Applied(t) \/ ToRemove(t) \/ SkipKept(t) \/ EndListener(t)
  BY <1>2, <1>a, <1>c DEF Skip, Applied, ToRemove, SkipKept, EndListener, vars
<1>3. CASE Apply(t) \/ TurnOff(t)
  BY <1>3, <1>a, <1>c DEF Apply, TurnOff, SetLevel
<1>4. CASE SetFormat(t)
  BY <1>4, <1>a, <1>c DEF SetFormat, FormatLock, vars
<1>5. CASE Clear(t) \/ Drop(t)
  BY <1>5, <1>a, <1>c DEF Clear, Drop, ClearAppenders
<1>6. CASE Make(t)
  <2>1. PICK a \in Appenders :
          /\ kind[a] = 0 /\ kind' = [kind EXCEPT ![a] = Head(more[t]).type]
          /\ made' = [made EXCEPT ![t] = a] /\ Head(more[t]).type # 0
          /\ UNCHANGED <<home, m_have_formatter>>
    BY <1>6, MakeTakes DEF AppenderSetLevel
  <2>2. home[a] = NoLogger /\ kind'[a] # 0 /\ made'[t] = a
    BY <2>1, <1>a DEF FreshInv
  <2>3. \A b \in Appenders : kind'[b] = 0 => kind[b] = 0
    BY <2>1, <1>a
  <2> QED BY <2>1, <2>2, <2>3, <1>b DEF FreshInv
<1>7. CASE SetOwn(t)
  <2>1. /\ stage[t] = "own" /\ UNCHANGED <<kind, made, home>>
    BY <1>7 DEF SetOwn, AppenderSetFormatter, vars
  <2>2. \A b \in Appenders : b # made[t] => m_have_formatter'[b] = m_have_formatter[b]
    BY <1>7, <1>a DEF SetOwn, AppenderSetFormatter, vars
  <2> QED BY <2>1, <2>2, <1>b DEF FreshInv
<1>8. CASE Add(t)
  <2>1. /\ stage[t] = "add" /\ stage'[t] = "make" /\ UNCHANGED <<kind, m_have_formatter>>
        /\ home' = [home EXCEPT ![made[t]] = cur[t].name]
    BY <1>8, <1>a, LogReloadAssumption DEF Add, AddLock
  <2>2. \A b \in Appenders : b # made[t] => home'[b] = home[b]
    BY <2>1, <1>a
  <2> QED BY <2>1, <2>2, <1>b DEF FreshInv
<1> QED BY <1>1, <1>2, <1>3, <1>4, <1>5, <1>6, <1>7, <1>8 DEF Listener

LEMMA AloneStep ==
  ASSUME IInv, RoundTypeOK, CallInv, AloneInv, [ReloadNext]_all, ~mixed'
  PROVE  AloneInv'
<1> USE DEF AloneInv
<1>1. FreshInv'
  <2> USE DEF FreshInv
  <2>a. stage \in [Setters -> Stages]
    BY DEF RoundTypeOK
  <2>1. ASSUME NEW t \in Setters, NEW document \in Documents, Load(t, document) PROVE FreshInv'
    BY <2>1, <2>a DEF Load, vars, shared, formats
  <2>2. ASSUME NEW t \in Setters, Store(t) PROVE FreshInv'
    BY <2>2, <2>a DEF Store, vars, shared, formats
  <2>3. CASE UNCHANGED <<kind, round>> /\ QuietCall
    BY <2>3 DEF QuietCall, shared, formats
  <2>4. ASSUME NEW t \in Threads, AddFinish(t) \/ FormatOne(t), UNCHANGED <<kind, round>>
        PROVE  FreshInv'
    BY <2>4 DEF AddFinish, FormatOne
  <2> QED BY <2>1, <2>2, <2>3, <2>4, StepKinds, FreshListener
<1> QED BY <1>1, SingleStep, NamesStep, UntornStep

-----------------------------------------------------------------------------
(* Before main *)

\* Only the constructor of the LoggerManager is at work.
LEMMA BootIsMain ==
  ASSUME RoundTypeOK, RoundInv, CallInv, ~Booted
  PROVE  /\ Main \in Setters /\ stage[Main] \in {"make", "own", "add"}
         /\ \A t \in Setters : t # Main => stage[t] = "idle"
         /\ \A t \in Threads : pc[t] # "format"
         /\ \A t \in Threads : pc[t] = "add" => t = Main /\ at[t] = cur[t].name
<1>1. /\ Main \in Setters /\ stage[Main] \in {"make", "own", "add"}
      /\ \A t \in Setters : t # Main => stage[t] = "idle"
  BY DEF RoundInv
<1>2. ASSUME NEW t \in Threads, pc[t] \in {"add", "format"}
      PROVE  /\ t \in Setters /\ at[t] = cur[t].name
             /\ stage[t] = IF pc[t] = "add" THEN "make" ELSE "clear"
  BY <1>2 DEF CallInv
<1> QED BY <1>1, <1>2

LEMMA BootKept ==
  ASSUME BootInv, UNCHANGED <<logs, m_level, m_formatter, m_appenders, cur[Main].name>>,
         Joining(Main)' + Len(more[Main])' = Joining(Main) + Len(more[Main]),
         m_appenders \in [Loggers -> Seq(Appenders)], Joining(Main) \in Nat, Joining(Main)' \in Nat,
         Len(more[Main]) \in Nat, Len(more[Main])' \in Nat
  PROVE  BootInv'
<1>1. Len(m_appenders[Root]) \in Nat
  BY LoggerAssumption
<1>2. (Len(m_appenders[Root]) + Joining(Main) + Len(more[Main]) = 1)'
  BY <1>1 DEF BootInv
<1> QED BY <1>2 DEF BootInv

LEMMA BootStep ==
  ASSUME IInv, RoundTypeOK, RoundInv, CallInv, AloneInv, BootInv, ~Booted, [ReloadNext]_all
  PROVE  IF Booted'
         THEN (\A t \in Setters : stage[t] = "idle")' /\ (\A l \in Loggers : As(l, logs))'
         ELSE BootInv'
<1> USE LoggerAssumption DEF Between, Goto, shared, levels, formats
<1>a. /\ stage \in [Setters -> Stages] /\ more \in [Setters -> Seq(AppenderDefines)]
      /\ cur \in [Setters -> Defines] /\ pc \in [Threads -> PCs]
      /\ m_appenders \in [Loggers -> Seq(Appenders)]
      /\ Setters \subseteq Threads /\ Main \in Setters
  BY LogReloadAssumption DEF IInv, TypeOK, RoundTypeOK
<1>b. /\ stage[Main] \in {"make", "own", "add"}
      /\ \A t \in Setters : t # Main => stage[t] = "idle"
      /\ \A t \in Threads : pc[t] # "format"
      /\ \A t \in Threads : pc[t] = "add" => t = Main /\ at[t] = cur[t].name
  BY BootIsMain
<1>c. Joining(Main) \in Nat /\ Joining(Main)' \in Nat /\ Len(more[Main]) \in Nat
  BY <1>a DEF Joining
<1>1. CASE UNCHANGED <<logs, round, kind, mixed>> /\ (Booted' <=> Booted) /\ QuietCall
  <2>1. Joining(Main)' = Joining(Main)
    BY <1>1, <1>a DEF QuietCall, Joining
  <2>2. BootInv'
    BY <1>1, <1>a, <1>c, <2>1, BootKept DEF QuietCall
  <2> QED BY <1>1, <2>2
<1>2. ASSUME NEW t \in Threads, AddFinish(t) \/ FormatOne(t), UNCHANGED <<logs, round>>,
             Booted' <=> Booted
      PROVE  ~Booted' /\ BootInv'
  <2>1. AddFinish(t) /\ pc[t] = "add" /\ t = Main /\ at[t] = Root /\ t \notin torn
    BY <1>2, <1>b DEF AddFinish, FormatOne, Under, AloneInv, UntornInv, BootInv
  <2>2. /\ m_appenders' = [m_appenders EXCEPT ![Root] = Append(@, obj[t])]
        /\ UNCHANGED <<m_level, m_formatter>> /\ pc' = [pc EXCEPT ![t] = "idle"]
    BY <2>1 DEF AddFinish, Return
  <2>3. Joining(Main) = 1 /\ Joining(Main)' = 0
    BY <2>1, <2>2, <1>a DEF Joining
  <2>4. obj[t] \in Appenders
    BY <2>1 DEF IInv, TypeOK, LockInv
  <2>5. m_appenders'[Root] = Append(m_appenders[Root], obj[t])
        /\ \A l \in Loggers : l # Root => m_appenders'[l] = m_appenders[l]
    BY <2>2, <1>a
  <2>6. Len(m_appenders'[Root]) = Len(m_appenders[Root]) + 1 /\ Len(m_appenders[Root]) \in Nat
    BY <2>4, <2>5, <1>a
  <2>7. Len(m_appenders'[Root]) + Joining(Main)' + Len(more'[Main]) = 1
    BY <2>3, <2>6, <1>2, <1>a, <1>c DEF BootInv
  <2>8. /\ logs' = {} /\ cur'[Main].name = Root
        /\ \A l \in Loggers :
             /\ m_level'[l] = DEBUG /\ m_formatter'[l] = DefFormatter
             /\ l # Root => m_appenders'[l] = <<>>
    BY <2>2, <2>5, <1>2 DEF BootInv
  <2> QED BY <1>2, <2>7, <2>8 DEF BootInv
<1>3. ASSUME NEW t \in Setters, Listener(t)
      PROVE  IF Booted'
             THEN (\A u \in Setters : stage[u] = "idle")' /\ (\A l \in Loggers : As(l, logs))'
             ELSE BootInv'
  <2>1. t = Main /\ pc[t] = "idle" /\ stage[t] \in {"make", "own", "add"}
    BY <1>3, <1>b, ListenerMoves
  <2>2. Make(t) \/ SetOwn(t) \/ Add(t) \/ Applied(t)
    BY <1>3, <2>1 DEF Listener, Announce, Skip, Apply, SetFormat, Clear, ToRemove, SkipKept,
       TurnOff, Drop, EndListener
  <2>3. Joining(Main) = 0
    BY <2>1 DEF Joining
  <2>4. CASE Make(t)
    <3>1. UNCHANGED <<logs, cur, more, known, m_level, m_formatter, m_appenders, pc>>
      BY <2>4 DEF Make, AppenderSetLevel, frames
    <3>2. Joining(Main)' = Joining(Main) /\ ~Booted'
      BY <3>1 DEF Joining, Booted
    <3> QED BY <3>1, <3>2, <1>a, <1>c, BootKept
  <2>5. CASE SetOwn(t)
    <3>1. UNCHANGED <<logs, cur, more, known, m_level, m_formatter, m_appenders, pc>>
      BY <2>5 DEF SetOwn, AppenderSetFormatter, frames, vars
    <3>2. Joining(Main)' = Joining(Main) /\ ~Booted'
      BY <3>1 DEF Joining, Booted
    <3> QED BY <3>1, <3>2, <1>a, <1>c, BootKept
  <2>6. CASE Add(t)
    <3>1. /\ UNCHANGED <<logs, cur, known, m_level, m_formatter, m_appenders>>
          /\ more' = [more EXCEPT ![t] = Tail(@)] /\ stage[t] = "add"
      BY <2>6 DEF Add, AddLock
    <3>2. Joining(Main)' = 1 /\ ~Booted'
      BY <2>1, <2>6, <3>1, <1>a DEF Joining, Booted, Add, AddLock, Take
    <3>3. more[t] # <<>> /\ more[t] \in Seq(AppenderDefines)
      BY <3>1, <1>a DEF RoundTypeOK
    <3>4. Len(more'[Main]) = Len(more[Main]) - 1 /\ Len(more'[Main]) \in Nat
      BY <2>1, <3>1, <3>3, <1>a
    <3>5. Joining(Main)' + Len(more[Main])' = Joining(Main) + Len(more[Main])
      BY <2>3, <3>2, <3>4, <1>c
    <3> QED BY <3>1, <3>2, <3>4, <3>5, <1>a, <1>c, BootKept
  <2>7. CASE Applied(t)
    <3>1. /\ UNCHANGED <<logs, m_level, m_formatter, m_appenders>> /\ Booted'
          /\ more[t] = <<>> /\ stage' = [stage EXCEPT ![t] = "idle"]
      BY <2>7 DEF Applied, vars, Booted
    <3>2. \A u \in Setters : stage'[u] = "idle"
      BY <2>1, <3>1, <1>a, <1>b
    <3>3. Len(m_appenders[Root]) = 1
      <4>1. Len(more[Main]) = 0 /\ Len(m_appenders[Root]) \in Nat
        BY <2>1, <3>1, <1>a
      <4> QED BY <2>3, <4>1 DEF BootInv
    <3>4. ASSUME NEW l \in Loggers PROVE As(l, logs)'
      <4>1. m_level'[l] = DEBUG /\ m_formatter'[l] = DefFormatter
            /\ Len(m_appenders'[l]) = IF l = Root THEN 1 ELSE 0
        <5>1. CASE l = Root
          BY <3>1, <3>3, <5>1 DEF BootInv
        <5>2. CASE l # Root
          <6>1. m_appenders'[l] = <<>>
            BY <3>1, <5>2 DEF BootInv
          <6> QED BY <3>1, <5>2, <6>1 DEF BootInv
        <5> QED BY <5>1, <5>2
      <4>2. AsBuilt(l)'
        BY <4>1 DEF AsBuilt
      <4>3. Named(logs, l)' = {}
        BY <3>1 DEF BootInv, Named
      <4> QED BY <4>2, <4>3 DEF As
    <3> QED BY <3>1, <3>2, <3>4
  <2> QED BY <2>2, <2>4, <2>5, <2>6, <2>7
<1>4. ASSUME NEW t \in Setters, NEW document \in Documents, Load(t, document) PROVE FALSE
  BY <1>4 DEF Load
<1>5. ASSUME NEW t \in Setters, Store(t) PROVE FALSE
  BY <1>5, <1>b DEF Store
<1> QED BY <1>1, <1>2, <1>3, <1>4, <1>5, StepKinds

-----------------------------------------------------------------------------
(* Which loggers a step keeps *)

\* Logger l and its appenders stay as they are.
Kept(l) ==
  /\ UNCHANGED <<m_level[l], m_formatter[l], m_appenders[l]>>
  /\ \A a \in ToSet(m_appenders[l]) : UNCHANGED <<kind[a], a_level[a], a_formatter[a]>>

\* What is in a list.
LEMMA Listed ==
  ASSUME IInv, CarefulAll, NEW l \in Loggers
  PROVE  /\ m_appenders[l] \in Seq(Appenders)
         /\ DOMAIN m_appenders[l] = 1 .. Len(m_appenders[l])
         /\ \A k \in 1 .. Len(m_appenders[l]) : m_appenders[l][k] \in ToSet(m_appenders[l])
         /\ \A a \in ToSet(m_appenders[l]) : a \in Appenders /\ home[a] = l
<1>1. m_appenders[l] \in Seq(Appenders)
  BY DEF IInv, TypeOK
<1>2. DOMAIN m_appenders[l] = 1 .. Len(m_appenders[l])
  BY <1>1
<1>3. ToSet(m_appenders[l]) \subseteq Appenders
  BY <1>1 DEF ToSet
<1>4. \A k \in 1 .. Len(m_appenders[l]) : m_appenders[l][k] \in ToSet(m_appenders[l])
  BY <1>2 DEF ToSet
<1>5. \A a \in ToSet(m_appenders[l]) : home[a] = l
  BY <1>3, LogReloadAssumption DEF CarefulAll, CarefulInv, HomesAgree
<1> QED BY <1>1, <1>2, <1>3, <1>4, <1>5

\* The appenders of a definition are a sequence.
LEMMA DefineTypes ==
  ASSUME NEW d \in Defines
  PROVE  /\ d.name \in Loggers /\ d.level \in Levels /\ d.formatter \in Texts
         /\ d.appenders \in Seq(AppenderDefines)
         /\ DOMAIN d.appenders = 1 .. Len(d.appenders) /\ Len(d.appenders) \in Nat
<1>1. d.name \in Loggers /\ d.level \in Levels /\ d.formatter \in Texts
      /\ d.appenders \in Seq(AppenderDefines)
  BY DEF Defines
<1> QED BY <1>1

\* A logger that is kept is what it was.
LEMMA KeptDefined ==
  ASSUME IInv, CarefulAll, NEW l \in Loggers, Kept(l), NEW d \in Defines, AsDefined(l, d)
  PROVE  AsDefined(l, d)'
<1> USE DEF Kept
<1>1. /\ m_level'[l] = d.level
      /\ d.formatter \in Formatters => m_formatter'[l] = d.formatter
      /\ Len(m_appenders'[l]) = Len(d.appenders)
  BY DEF AsDefined
<1>2. ASSUME NEW k \in DOMAIN d.appenders PROVE Matches(m_appenders[l][k], d.appenders[k], l)'
  <2>1. k \in 1 .. Len(m_appenders[l])
    BY <1>2, DefineTypes DEF AsDefined
  <2>2. m_appenders[l][k] \in ToSet(m_appenders[l])
    BY <2>1, Listed
  <2>3. Matches(m_appenders[l][k], d.appenders[k], l)
    BY <1>2 DEF AsDefined
  <2>4. m_appenders'[l] = m_appenders[l] /\ m_formatter'[l] = m_formatter[l]
    OBVIOUS
  <2> QED BY <2>2, <2>3, <2>4 DEF Matches
<1> QED BY <1>1, <1>2 DEF AsDefined

LEMMA KeptBuilt ==
  ASSUME NEW l \in Loggers, Kept(l), AsBuilt(l) \/ (m_level[l] = OFF /\ m_appenders[l] = <<>>)
  PROVE  (AsBuilt(l) \/ (m_level[l] = OFF /\ m_appenders[l] = <<>>))'
BY DEF Kept, AsBuilt

LEMMA KeptAs ==
  ASSUME IInv, CarefulAll, NEW l \in Loggers, Kept(l), NEW ds \in SUBSET Defines, As(l, ds)
  PROVE  As(l, ds)'
<1>1. CASE Named(ds, l) = {} /\ (AsBuilt(l) \/ (m_level[l] = OFF /\ m_appenders[l] = <<>>))
  BY <1>1, KeptBuilt DEF As
<1>2. ASSUME NEW d \in Named(ds, l), AsDefined(l, d) PROVE As(l, ds)'
  <2>1. d \in Defines
    BY DEF Named
  <2>2. AsDefined(l, d)'
    BY <1>2, <2>1, KeptDefined
  <2> QED BY <2>2 DEF As
<1> QED BY <1>1, <1>2 DEF As

\* A step that changes no logger and no appender.
LEMMA KeptByQuiet ==
  ASSUME UNCHANGED <<shared, kind>>, NEW l \in Loggers
  PROVE  Kept(l)
BY DEF Kept, shared, levels, formats

\* An appender that belongs to no logger, or to one, may change: the others stay.
LEMMA KeptElsewhere ==
  ASSUME IInv, CarefulAll, NEW l \in Loggers, NEW b, home[b] # l,
         UNCHANGED <<m_level[l], m_formatter[l], m_appenders[l]>>,
         \A a \in Appenders : a # b => UNCHANGED <<kind[a], a_level[a], a_formatter[a]>>
  PROVE  Kept(l)
BY Listed DEF Kept

\* What a listener's calls do to the loggers they are not for.
LEMMA KeptByListener ==
  ASSUME IInv, RoundTypeOK, CarefulAll, FreshInv, NEW t \in Setters, Listener(t), NEW l \in Loggers,
         stage[t] \in {"format", "clear", "drop"} => cur[t].name # l,
         Apply(t) \/ TurnOff(t) => cur'[t].name # l
  PROVE  Kept(l)
<1> USE DEF Between, shared, levels, formats
<1>a. /\ m_level \in [Loggers -> Levels] /\ m_appenders \in [Loggers -> Seq(Appenders)]
      /\ m_formatter \in [Loggers -> AnyFormatter]
      /\ a_level \in [Appenders -> Levels] /\ a_formatter \in [Appenders -> AnyFormatter]
      /\ kind \in [Appenders -> 0 .. 2] /\ cur \in [Setters -> Defines]
      /\ l # NoLogger
  BY LoggerAssumption DEF IInv, TypeOK, RoundTypeOK
<1>1. CASE Announce(t)
  BY <1>1, KeptByQuiet, InformIsQuiet DEF Announce, QuietCall
<1>2. CASE Skip(t) \/ Applied(t) \/ ToRemove(t) \/ SkipKept(t) \/ EndListener(t)
  BY <1>2, KeptByQuiet DEF Skip, Applied, ToRemove, SkipKept, EndListener, vars
<1>3. CASE Apply(t)
  <2>1. PICK d \in todo[t] : SetLevel(t, d.name, d.level) /\ cur' = [cur EXCEPT ![t] = d]
    BY <1>3 DEF Apply
  <2>2. UNCHANGED kind /\ stage[t] = "apply"
    BY <1>3 DEF Apply
  <2>3. cur'[t] = d
    BY <2>1, <1>a
  <2>4. d.name # l
    BY <1>3, <2>3
  <2> QED BY <2>1, <2>2, <2>4, <1>a DEF Kept, SetLevel
<1>4. CASE SetFormat(t)
  BY <1>4, <1>a DEF SetFormat, FormatLock, Kept, vars
<1>5. CASE Clear(t) \/ Drop(t)
  BY <1>5, <1>a DEF Clear, Drop, ClearAppenders, Kept
<1>6. CASE Make(t)
  <2>1. PICK a \in Appenders :
          /\ kind[a] = 0 /\ AppenderSetLevel(t, a, Head(more[t]).level)
          /\ kind' = [kind EXCEPT ![a] = Head(more[t]).type]
    BY <1>6, MakeTakes
  <2>2. home[a] = NoLogger
    BY <2>1 DEF FreshInv
  <2> QED BY <2>1, <2>2, <1>a, KeptElsewhere DEF AppenderSetLevel
<1>7. CASE SetOwn(t)
  <2>1. home[made[t]] = NoLogger
    BY <1>7 DEF SetOwn, FreshInv
  <2> QED BY <1>7, <2>1, <1>a, KeptElsewhere DEF SetOwn, AppenderSetFormatter, vars
<1>8. CASE Add(t)
  BY <1>8 DEF Add, AddLock, Kept
<1>9. CASE TurnOff(t)
  <2>1. PICK d \in todo[t] : SetLevel(t, d.name, OFF) /\ cur' = [cur EXCEPT ![t] = d]
    BY <1>9 DEF TurnOff
  <2>2. UNCHANGED kind /\ stage[t] = "remove"
    BY <1>9 DEF TurnOff
  <2>3. cur'[t] = d
    BY <2>1, <1>a
  <2>4. d.name # l
    BY <1>9, <2>3
  <2> QED BY <2>1, <2>2, <2>4, <1>a DEF Kept, SetLevel
<1> QED BY <1>1, <1>2, <1>3, <1>4, <1>5, <1>6, <1>7, <1>8, <1>9 DEF Listener

\* What is inside a call of addAppender or setFormatter.
LEMMA InsideCall ==
  ASSUME IInv, RoundTypeOK, CallInv, CarefulAll, AloneInv, NEW u \in Threads,
         AddFinish(u) \/ FormatOne(u)
  PROVE  /\ u \in Setters /\ at[u] = cur[u].name /\ at[u] \in Loggers
         /\ pc[u] = "add" => AddFinish(u) /\ stage[u] = "make" /\ u \notin torn
                             /\ obj[u] \in Appenders /\ home[obj[u]] = at[u]
                             /\ rest[u] = IF m_have_formatter[obj[u]] THEN <<>> ELSE <<obj[u]>>
         /\ pc[u] = "format" => FormatOne(u) /\ stage[u] = "clear"
                                /\ Head(rest[u]) \in Appenders /\ home[Head(rest[u])] = at[u]
         /\ pc[u] \in {"add", "format"}
<1>1. pc[u] = IF AddFinish(u) THEN "add" ELSE "format"
  BY DEF AddFinish, FormatOne, Under
<1>2. u \in Setters /\ at[u] = cur[u].name
      /\ stage[u] = IF pc[u] = "add" THEN "make" ELSE "clear"
  BY <1>1 DEF CallInv
<1>3. u \notin torn
  BY <1>1 DEF AloneInv, UntornInv
<1>4. at[u] \in Loggers
  BY <1>1 DEF IInv, TypeOK, LockInv
<1>5. AddAgrees(u) /\ FormatAgrees(u)
  BY DEF CarefulAll, CarefulInv
<1>6. CASE AddFinish(u)
  <2>1. obj[u] \in Appenders
    BY <1>1, <1>6 DEF IInv, TypeOK, LockInv
  <2> QED BY <1>1, <1>2, <1>3, <1>4, <1>5, <1>6, <2>1, LogReloadAssumption DEF AddAgrees
<1>7. CASE ~AddFinish(u)
  <2>1. FormatOne(u) /\ rest[u] # <<>> /\ rest[u] \in Seq(Appenders)
    BY <1>7 DEF FormatOne, IInv, TypeOK
  <2>2. Head(rest[u]) \in Appenders /\ Head(rest[u]) \in ToSet(rest[u])
    BY <2>1, ToSetWalk
  <2> QED BY <1>1, <1>2, <1>3, <1>4, <1>5, <1>7, <2>1, <2>2, LogReloadAssumption
            DEF FormatAgrees
<1> QED BY <1>6, <1>7

\* addAppender and setFormatter leave the other loggers alone.
LEMMA KeptByCall ==
  ASSUME IInv, RoundTypeOK, CallInv, CarefulAll, AloneInv, NEW u \in Threads,
         AddFinish(u) \/ FormatOne(u), UNCHANGED kind, NEW l \in Loggers, at[u] # l
  PROVE  Kept(l)
<1> USE DEF levels
<1>a. /\ m_appenders \in [Loggers -> Seq(Appenders)]
      /\ a_formatter \in [Appenders -> AnyFormatter]
  BY DEF IInv, TypeOK
<1>1. CASE pc[u] = "add"
  <2>1. /\ AddFinish(u) /\ obj[u] \in Appenders /\ home[obj[u]] # l
        /\ rest[u] = IF m_have_formatter[obj[u]] THEN <<>> ELSE <<obj[u]>>
    BY <1>1, InsideCall
  <2>2. ASSUME NEW a \in Appenders, a # obj[u] PROVE a_formatter'[a] = a_formatter[a]
    <3>1. rest[u] # <<a>>
      BY <2>1, <2>2
    <3>2. a_formatter' = [b \in Appenders |-> IF rest[u] = <<b>> THEN m_formatter[at[u]]
                                                                 ELSE a_formatter[b]]
      BY <2>1 DEF AddFinish
    <3> QED BY <3>1, <3>2
  <2>3. /\ UNCHANGED <<m_level, m_formatter, a_level>> /\ m_appenders'[l] = m_appenders[l]
    BY <2>1, <1>a DEF AddFinish
  <2> QED BY <2>1, <2>2, <2>3, KeptElsewhere
<1>2. CASE pc[u] = "format"
  <2>1. FormatOne(u) /\ Head(rest[u]) \in Appenders /\ home[Head(rest[u])] # l
    BY <1>2, InsideCall
  <2>2. /\ UNCHANGED <<m_level, m_formatter, a_level, m_appenders>>
        /\ \A a \in Appenders : a # Head(rest[u]) => a_formatter'[a] = a_formatter[a]
    BY <2>1, <1>a DEF FormatOne
  <2> QED BY <2>1, <2>2, KeptElsewhere
<1> QED BY <1>1, <1>2, InsideCall

-----------------------------------------------------------------------------
(* The loggers, while one listener is in its loops *)

\* The type of a logger the listener is at.
LEMMA CurTypes ==
  ASSUME RoundTypeOK, NEW t \in Setters
  PROVE  cur[t] \in Defines /\ cur[t].name \in Loggers
BY DefineTypes DEF RoundTypeOK

\* A logger that is kept stays where the listener has it.
LEMMA LoggersKept ==
  ASSUME IInv, RoundTypeOK, CarefulAll, NEW t \in Setters, LoggersInv(t), UNCHANGED <<logs, arg>>,
         \A l \in Loggers :
           \/ Changing(t, l)'
           \/ Kept(l) /\ ~Changing(t, l) /\ (Ahead(t, l)' <=> Ahead(t, l))
           \/ ~Ahead(t, l)' /\ As(l, arg[t])'
  PROVE  LoggersInv(t)'
<1>1. logs \in SUBSET Defines /\ arg[t] \in SUBSET Defines
  BY DEF RoundTypeOK
<1>2. PICK old \in SUBSET Defines, new \in SUBSET Defines : old = logs /\ new = arg[t]
  BY <1>1
<1>3. old = logs' /\ new = arg'[t]
  BY <1>2
<1>4. ASSUME NEW l \in Loggers
      PROVE  (Changing(t, l) \/ (Ahead(t, l) /\ As(l, logs)) \/ (~Ahead(t, l) /\ As(l, arg[t])))'
  <2>1. CASE Kept(l) /\ ~Changing(t, l) /\ (Ahead(t, l)' <=> Ahead(t, l))
    <3>1. As(l, old) => As(l, old)'
      BY <2>1, KeptAs
    <3>2. As(l, new) => As(l, new)'
      BY <2>1, KeptAs
    <3>3. IF Ahead(t, l) THEN As(l, old) ELSE As(l, new)
      BY <1>2, <2>1 DEF LoggersInv
    <3>4. IF Ahead(t, l)' THEN As(l, old)' ELSE As(l, new)'
      BY <2>1, <3>1, <3>2, <3>3
    <3>5. (As(l, old)' => As(l, logs)') /\ (As(l, new)' => As(l, arg[t])')
      BY <1>3 DEF As
    <3> QED BY <3>4, <3>5
  <2> QED BY <2>1
<1> QED BY <1>4 DEF LoggersInv

LEMMA NamedOne ==
  ASSUME NEW ds, OneOfEachName(ds), NEW d \in ds
  PROVE  Named(ds, d.name) = {d}
BY DEF OneOfEachName, Named

\* The listener has given the logger it is at everything the definition asks for.
LEMMA AppliedIsDefined ==
  ASSUME IInv, RoundTypeOK, NEW t \in Setters, ProgressInv(t), pc[t] = "idle",
         stage[t] = "make", more[t] = <<>>
  PROVE  AsDefined(cur[t].name, cur[t])
<1> DEFINE d == cur[t]
           l == d.name
<1>1. AppendersInv(t) /\ m_level[l] = d.level
      /\ (d.formatter \in Formatters => m_formatter[l] = d.formatter)
  BY DEF ProgressInv, Touching
<1>2. l \in Loggers /\ d \in Defines /\ DOMAIN d.appenders = 1 .. Len(d.appenders)
  BY CurTypes, DefineTypes
<1>3. Len(m_appenders[l]) \in Nat
  BY <1>2 DEF IInv, TypeOK
<1>4. Len(d.appenders) = Len(m_appenders[l])
  BY <1>1, <1>3 DEF AppendersInv, Joining
<1>5. \A k \in 1 .. Len(m_appenders[l]) : Matches(m_appenders[l][k], d.appenders[k], l)
  BY <1>1 DEF AppendersInv
<1> QED BY <1>1, <1>2, <1>4, <1>5 DEF AsDefined

LEMMA LoggersListener ==
  ASSUME IInv, RoundTypeOK, RoundInv, CarefulAll, NamesInv, FreshInv, Booted,
         NEW t \in Setters, ProgressInv(t), LoggersInv(t), Listener(t)
  PROVE  LoggersInv(t)'
<1> USE DEF Between, Goto, FirstLoop, Touching
<1>a. /\ stage \in [Setters -> Stages] /\ cur \in [Setters -> Defines]
      /\ todo \in [Setters -> SUBSET Defines] /\ arg \in [Setters -> SUBSET Defines]
      /\ logs \in SUBSET Defines
      /\ UNCHANGED <<logs, arg>> /\ pc[t] = "idle"
  BY ListenerMoves DEF RoundTypeOK
<1>b. OneOfEachName(logs) /\ OneOfEachName(arg[t])
  BY DEF NamesInv
<1>c. /\ stage[t] \in FirstLoop => todo[t] \subseteq arg[t]
      /\ stage[t] \in {"remove", "drop"} => todo[t] \subseteq logs
      /\ stage[t] \in Touching => cur[t] \in arg[t]
      /\ stage[t] = "drop" => Named(arg[t], cur[t].name) = {}
  BY DEF RoundInv
<1>d. /\ m_level \in [Loggers -> Levels] /\ m_appenders \in [Loggers -> Seq(Appenders)]
  BY DEF IInv, TypeOK
\* Steps after which the listener is at the logger it was at, or at none as before.
<1>e. ASSUME UNCHANGED <<cur, todo>>, \A l \in Loggers : Changing(t, l)' \/ Kept(l),
             \/ stage[t] = "log" /\ stage'[t] = "apply"
             \/ stage[t] \in Touching /\ stage'[t] \in Touching
      PROVE  LoggersInv(t)'
  <2>1. ASSUME NEW l \in Loggers
        PROVE  /\ Changing(t, l)' <=> Changing(t, l)
               /\ Ahead(t, l)' <=> Ahead(t, l)
    BY <1>a, <1>e DEF Changing, Ahead
  <2> QED BY <1>a, <1>e, <2>1, LoggersKept
<1>1. CASE Announce(t)
  <2>1. \A l \in Loggers : Kept(l)
    BY <1>1, KeptByListener DEF Announce, Apply, TurnOff
  <2> QED BY <1>1, <1>a, <1>e, <2>1 DEF Announce
<1>2. CASE Skip(t)
  <2>1. PICK d \in todo[t] : d \in logs /\ todo' = [todo EXCEPT ![t] = @ \ {d}]
    BY <1>2 DEF Skip, Same
  <2>2. stage[t] = "apply" /\ UNCHANGED <<vars, stage, cur, kind>>
    BY <1>2 DEF Skip
  <2>3. d \in arg[t] /\ todo'[t] = todo[t] \ {d} /\ d.name \in Loggers
    BY <1>a, <1>c, <2>1, <2>2, DefineTypes
  <2>4. todo[t] \subseteq arg[t]
    BY <1>c, <2>2
  <2>5. ASSUME NEW l \in Loggers, l # d.name PROVE Ahead(t, l)' <=> Ahead(t, l)
    <3>1. Named(todo'[t], l) = Named(todo[t], l)
      BY <2>3, <2>5 DEF Named
    <3> QED BY <1>a, <2>2, <3>1 DEF Ahead
  <2>6. \A l \in Loggers : ~Changing(t, l) /\ Kept(l)
    BY <2>2, KeptByQuiet DEF Changing, vars
  <2>7. ~Ahead(t, d.name)' /\ As(d.name, arg[t])'
    <3>1. /\ Named(todo'[t], d.name) = {} /\ Named(todo[t], d.name) # {}
          /\ Named(arg[t], d.name) = {d} /\ Named(logs, d.name) = {d}
      <4>1. Named(todo'[t], d.name) = {} /\ Named(todo[t], d.name) # {}
        BY <1>b, <2>3, <2>4 DEF Named, OneOfEachName
      <4>2. Named(arg[t], d.name) = {d} /\ Named(logs, d.name) = {d}
        BY <1>b, <2>1, <2>3, NamedOne
      <4> QED BY <4>1, <4>2
    <3>2. Ahead(t, d.name) /\ ~Ahead(t, d.name)'
      BY <1>a, <2>2, <3>1 DEF Ahead
    <3>3. AsDefined(d.name, d)
      BY <2>3, <2>6, <3>1, <3>2 DEF LoggersInv, As
    <3>4. PICK l \in Loggers : l = d.name
      BY <2>3
    <3>5. AsDefined(l, d)'
      BY <1>a, <2>3, <2>6, <3>3, <3>4, KeptDefined
    <3>6. d \in Named(arg'[t], l)
      BY <1>a, <3>1, <3>4
    <3> QED BY <3>2, <3>4, <3>5, <3>6 DEF As
  <2>8. \A l \in Loggers :
           \/ Kept(l) /\ ~Changing(t, l) /\ (Ahead(t, l)' <=> Ahead(t, l))
           \/ ~Ahead(t, l)' /\ As(l, arg[t])'
    BY <2>5, <2>6, <2>7
  <2> QED BY <1>a, <2>8, LoggersKept
\* Steps at which the listener comes to the next definition.
<1>f. ASSUME NEW d \in todo[t], todo' = [todo EXCEPT ![t] = @ \ {d}], cur' = [cur EXCEPT ![t] = d],
             \/ stage[t] = "apply" /\ stage'[t] = "format"
             \/ stage[t] = "remove" /\ stage'[t] = "drop",
             Apply(t) \/ TurnOff(t)
      PROVE  LoggersInv(t)'
  <2>1. cur'[t] = d /\ todo'[t] = todo[t] \ {d} /\ d.name \in Loggers
    BY <1>a, <1>f, DefineTypes
  <2>3. ASSUME NEW l \in Loggers, l # d.name
        PROVE  Kept(l) /\ ~Changing(t, l) /\ (Ahead(t, l)' <=> Ahead(t, l))
    <3>1. Named(todo'[t], l) = Named(todo[t], l)
      BY <2>1, <2>3 DEF Named
    <3>2. Kept(l)
      BY <1>f, <2>1, <2>3, KeptByListener
    <3> QED BY <1>a, <1>f, <3>1, <3>2 DEF Ahead, Changing
  <2>4. Changing(t, d.name)'
    BY <1>f, <2>1 DEF Changing
  <2>5. \A l \in Loggers :
           \/ Changing(t, l)'
           \/ Kept(l) /\ ~Changing(t, l) /\ (Ahead(t, l)' <=> Ahead(t, l))
    BY <2>3, <2>4
  <2> QED BY <1>a, <2>5, LoggersKept
<1>3. CASE Apply(t)
  <2>1. PICK d \in todo[t] : todo' = [todo EXCEPT ![t] = @ \ {d}] /\ cur' = [cur EXCEPT ![t] = d]
    BY <1>3 DEF Apply
  <2>2. stage[t] = "apply" /\ stage'[t] = "format"
    BY <1>3, <1>a DEF Apply
  <2> QED BY <1>3, <1>f, <2>1, <2>2
<1>4. CASE SetFormat(t) \/ Clear(t) \/ Make(t) \/ SetOwn(t) \/ Add(t)
  <2>1. stage[t] \in Touching /\ stage'[t] \in Touching /\ UNCHANGED <<cur, todo>>
    BY <1>4, <1>a DEF SetFormat, Clear, Make, SetOwn, Add
  <2>2. ASSUME NEW l \in Loggers PROVE Changing(t, l)' \/ Kept(l)
    <3>1. CASE cur[t].name = l
      BY <2>1, <3>1 DEF Changing
    <3>2. CASE cur[t].name # l
      <4>1. ~Apply(t) /\ ~TurnOff(t)
        BY <2>1 DEF Apply, TurnOff
      <4> QED BY <3>2, <4>1, KeptByListener
    <3> QED BY <3>1, <3>2
  <2> QED BY <1>e, <2>1, <2>2
\* Steps at which the listener is done with the logger it was at.
<1>g. ASSUME UNCHANGED <<cur, todo>>,
             \/ stage[t] \in Touching /\ stage'[t] = "apply"
             \/ stage[t] = "drop" /\ stage'[t] = "remove",
             ~Ahead(t, cur[t].name)' /\ As(cur[t].name, arg[t])'
      PROVE  LoggersInv(t)'
  <2>1. ASSUME NEW l \in Loggers, l # cur[t].name
        PROVE  Kept(l) /\ ~Changing(t, l) /\ (Ahead(t, l)' <=> Ahead(t, l))
    <3>1. ~Apply(t) /\ ~TurnOff(t)
      BY <1>g DEF Apply, TurnOff
    <3>2. Kept(l)
      BY <2>1, <3>1, KeptByListener
    <3> QED BY <1>a, <1>g, <2>1, <3>2 DEF Ahead, Changing
  <2>2. \A l \in Loggers :
           \/ Kept(l) /\ ~Changing(t, l) /\ (Ahead(t, l)' <=> Ahead(t, l))
           \/ ~Ahead(t, l)' /\ As(l, arg[t])'
    BY <1>g, <2>1
  <2> QED BY <1>a, <2>2, LoggersKept
<1>5. CASE Applied(t)
  <2>1. /\ stage[t] = "make" /\ stage'[t] = "apply" /\ more[t] = <<>>
        /\ UNCHANGED <<vars, cur, todo, kind>>
    BY <1>5, <1>a DEF Applied
  <2>2. PICK d \in Defines, l \in Loggers : d = cur[t] /\ l = d.name
    BY CurTypes
  <2>3. d \in arg[t] /\ d \in Named(arg'[t], l)
    BY <1>a, <1>c, <2>1, <2>2 DEF Named
  <2>4. AsDefined(l, d) /\ Kept(l)
    BY <1>a, <2>1, <2>2, AppliedIsDefined, KeptByQuiet DEF vars
  <2>5. AsDefined(l, d)'
    BY <2>4, KeptDefined
  <2>6. Named(todo'[t], l) = {}
    BY <2>1, <2>2 DEF ProgressInv
  <2>7. ~Ahead(t, l)'
    BY <1>a, <2>1, <2>3, <2>6 DEF Ahead
  <2>8. As(l, arg[t])'
    BY <2>3, <2>5 DEF As
  <2> QED BY <1>g, <2>1, <2>2, <2>7, <2>8
<1>6. CASE ToRemove(t)
  <2>1. /\ stage[t] = "apply" /\ stage'[t] = "remove" /\ todo[t] = {} /\ todo'[t] = logs
        /\ UNCHANGED <<vars, cur, kind>>
    BY <1>6, <1>a DEF ToRemove
  <2>2. \A l \in Loggers : ~Changing(t, l) /\ Kept(l)
    BY <2>1, KeptByQuiet DEF Changing, vars
  <2>3. ASSUME NEW l \in Loggers, ~(Ahead(t, l)' <=> Ahead(t, l))
        PROVE  ~Ahead(t, l)' /\ As(l, arg[t])'
    <3>1. Named(arg[t], l) = {} /\ Named(logs, l) = {} /\ Ahead(t, l) /\ ~Ahead(t, l)'
      BY <1>a, <2>1, <2>3 DEF Ahead, Named
    <3>2. AsBuilt(l) \/ (m_level[l] = OFF /\ m_appenders[l] = <<>>)
      BY <2>2, <3>1 DEF LoggersInv, As
    <3>3. (AsBuilt(l) \/ (m_level[l] = OFF /\ m_appenders[l] = <<>>))'
      BY <2>2, <3>2, KeptBuilt
    <3> QED BY <1>a, <3>1, <3>3 DEF As
  <2>4. \A l \in Loggers :
           \/ Kept(l) /\ ~Changing(t, l) /\ (Ahead(t, l)' <=> Ahead(t, l))
           \/ ~Ahead(t, l)' /\ As(l, arg[t])'
    BY <2>2, <2>3
  <2> QED BY <1>a, <2>4, LoggersKept
<1>7. CASE SkipKept(t)
  <2>1. PICK d \in todo[t] : Named(arg[t], d.name) # {} /\ todo' = [todo EXCEPT ![t] = @ \ {d}]
    BY <1>7 DEF SkipKept
  <2>2. stage[t] = "remove" /\ UNCHANGED <<vars, stage, cur, kind>>
    BY <1>7 DEF SkipKept
  <2>3. todo'[t] = todo[t] \ {d}
    BY <1>a, <2>1
  <2>4. ASSUME NEW l \in Loggers PROVE Kept(l) /\ ~Changing(t, l) /\ (Ahead(t, l)' <=> Ahead(t, l))
    <3>1. l # d.name => Named(todo'[t], l) = Named(todo[t], l)
      BY <2>3 DEF Named
    <3> QED BY <1>a, <2>1, <2>2, <3>1, KeptByQuiet DEF Ahead, Changing, vars
  <2> QED BY <1>a, <2>4, LoggersKept
<1>8. CASE TurnOff(t)
  <2>1. PICK d \in todo[t] : todo' = [todo EXCEPT ![t] = @ \ {d}] /\ cur' = [cur EXCEPT ![t] = d]
    BY <1>8 DEF TurnOff
  <2>2. stage[t] = "remove" /\ stage'[t] = "drop"
    BY <1>8, <1>a DEF TurnOff
  <2> QED BY <1>8, <1>f, <2>1, <2>2
<1>9. CASE Drop(t)
  <2>1. /\ stage[t] = "drop" /\ stage'[t] = "remove" /\ UNCHANGED <<cur, todo>>
        /\ ClearAppenders(t, cur[t].name)
    BY <1>9, <1>a DEF Drop
  <2>2. PICK l \in Loggers : l = cur[t].name
    BY CurTypes
  <2>3. Named(arg'[t], l) = {} /\ Named(todo'[t], l) = {} /\ m_level[l] = OFF
    BY <1>a, <1>c, <2>1, <2>2 DEF ProgressInv
  <2>4. m_level'[l] = OFF /\ m_appenders'[l] = <<>>
    BY <1>d, <2>1, <2>2, <2>3 DEF ClearAppenders, levels
  <2>5. ~Ahead(t, l)'
    BY <2>1, <2>3 DEF Ahead
  <2>6. As(l, arg[t])'
    BY <2>3, <2>4 DEF As
  <2> QED BY <1>g, <2>1, <2>2, <2>5, <2>6
<1>10. CASE EndListener(t)
  <2>1. /\ stage[t] = "remove" /\ stage'[t] = "store" /\ todo[t] = {}
        /\ UNCHANGED <<vars, cur, todo, kind>>
    BY <1>10, <1>a DEF EndListener
  <2>2. ASSUME NEW l \in Loggers PROVE Kept(l) /\ ~Changing(t, l) /\ (Ahead(t, l)' <=> Ahead(t, l))
    BY <2>1, KeptByQuiet DEF Changing, Ahead, Named, vars
  <2> QED BY <1>a, <2>2, LoggersKept
<1> QED BY <1>1, <1>2, <1>3, <1>4, <1>5, <1>6, <1>7, <1>8, <1>9, <1>10 DEF Listener

-----------------------------------------------------------------------------
(* The logger a listener is at *)

\* The first of a sequence and the others.
LEMMA HeadAndTail ==
  ASSUME NEW S, NEW s \in Seq(S), s # <<>>
  PROVE  /\ Head(s) \in S /\ Tail(s) \in Seq(S) /\ Len(s) \in Nat \ {0}
         /\ Head(s) = s[1] /\ Len(Tail(s)) = Len(s) - 1
         /\ \A k \in 1 .. Len(s) - 1 : Tail(s)[k] = s[k + 1]
OBVIOUS

\* Making, equipping and adding an appender.
LEMMA AppendersListener ==
  ASSUME IInv, RoundTypeOK, RoundInv, CarefulAll, FreshInv,
         NEW t \in Setters, AppendersInv(t), Make(t) \/ SetOwn(t) \/ Add(t)
  PROVE  AppendersInv(t)'
<1> USE DEF Between, Goto
<1>a. /\ stage \in [Setters -> Stages] /\ cur \in [Setters -> Defines]
      /\ more \in [Setters -> Seq(AppenderDefines)]
      /\ made \in [Setters -> Appenders \cup {NoAppender}]
      /\ pc \in [Threads -> PCs] /\ obj \in [Threads -> Appenders \cup {NoAppender}]
      /\ kind \in [Appenders -> 0 .. 2] /\ a_level \in [Appenders -> Levels]
      /\ a_formatter \in [Appenders -> AnyFormatter] /\ m_have_formatter \in [Appenders -> BOOLEAN]
      /\ Setters \subseteq Threads /\ t \in Threads
  BY LogReloadAssumption DEF IInv, TypeOK, RoundTypeOK
<1>1. PICK d \in Defines, l \in Loggers : d = cur[t] /\ l = d.name
  BY CurTypes
<1>2. Listener(t) /\ pc[t] = "idle" /\ stage[t] \in {"make", "own", "add"}
  BY DEF Listener, Make, SetOwn, Add
<1>3. Kept(l)
  <2>1. ~Apply(t) /\ ~TurnOff(t)
    BY <1>2 DEF Apply, TurnOff
  <2> QED BY <1>2, <2>1, KeptByListener
<1>4. m_appenders'[l] = m_appenders[l] /\ UNCHANGED cur
  BY <1>3 DEF Kept, Make, SetOwn, Add
<1>5. more[t] \in Seq(AppenderDefines) /\ more[t] # <<>>
  BY <1>a, <1>2 DEF RoundTypeOK, Make, SetOwn, Add
<1>6. PICK list \in Seq(Appenders), ds \in Seq(AppenderDefines), n \in Nat :
        list = m_appenders[l] /\ ds = d.appenders /\ n = Len(list)
  BY <1>1, DefineTypes, Listed
<1>7. /\ Len(ds) = n + Len(more[t])
      /\ \A k \in 1 .. Len(more[t]) : more[t][k] = ds[n + k]
      /\ \A k \in 1 .. n : Matches(list[k], ds[k], l)
      /\ stage[t] \in {"own", "add"} => Fits(made[t], Head(more[t]))
      /\ stage[t] = "own" => ~m_have_formatter[made[t]]
      /\ stage[t] = "add" => Dressed(made[t], Head(more[t]))
  <2>1. Joining(t) = 0 /\ Len(more[t]) \in Nat
    BY <1>2, <1>5 DEF Joining
  <2>2. /\ Len(ds) = n + Joining(t) + Len(more[t])
        /\ \A k \in 1 .. Len(more[t]) : more[t][k] = ds[n + Joining(t) + k]
        /\ \A k \in 1 .. n : Matches(list[k], ds[k], l)
        /\ stage[t] \in {"own", "add"} => Fits(made[t], Head(more[t]))
        /\ stage[t] = "own" => ~m_have_formatter[made[t]]
        /\ stage[t] = "add" => Dressed(made[t], Head(more[t]))
    BY <1>1, <1>6 DEF AppendersInv
  <2>3. n + 0 = n /\ \A k \in 1 .. Len(more[t]) : n + 0 + k = n + k
    BY <1>6
  <2> QED BY <2>1, <2>2, <2>3
<1>8. \A k \in 1 .. n : Matches(list[k], ds[k], l)'
  <2> SUFFICES ASSUME NEW k \in 1 .. n PROVE Matches(list[k], ds[k], l)'
    OBVIOUS
  <2>1. Matches(m_appenders[l][k], ds[k], l) /\ k \in 1 .. Len(m_appenders[l])
    BY <1>6, <1>7
  <2>2. m_appenders[l][k] \in ToSet(m_appenders[l])
    BY <2>1, Listed
  <2> QED BY <1>3, <1>6, <2>1, <2>2 DEF Matches, Kept
<1>9. cur'[t].name = l /\ cur'[t].appenders = ds /\ m_appenders'[cur'[t].name] = list
  BY <1>1, <1>4, <1>6
\* The call is not entered yet.
<1>10. ASSUME UNCHANGED <<pc, more>>,
             /\ stage'[t] \in {"own", "add"} => Fits(made[t], Head(more[t]))'
             /\ stage'[t] = "own" => ~m_have_formatter'[made'[t]]
             /\ stage'[t] = "add" => Dressed(made[t], Head(more[t]))'
      PROVE  AppendersInv(t)'
  <2>1. Joining(t)' = 0 /\ pc'[t] # "add"
    BY <1>2, <1>10 DEF Joining
  <2>2. Len(more[t]) \in Nat
    BY <1>5
  <2>3. /\ Len(ds) = n + 0 + Len(more[t])
        /\ \A k \in 1 .. Len(more[t]) : more[t][k] = ds[n + 0 + k]
    BY <1>6, <1>7, <2>2
  <2> QED BY <1>6, <1>8, <1>10, <1>9, <2>1, <2>3 DEF AppendersInv
<1>11. CASE Make(t)
  <2>1. PICK a \in Appenders :
          /\ kind[a] = 0 /\ AppenderSetLevel(t, a, Head(more[t]).level)
          /\ kind' = [kind EXCEPT ![a] = Head(more[t]).type]
          /\ made' = [made EXCEPT ![t] = a] /\ stage' = [stage EXCEPT ![t] = "own"]
    BY <1>11, MakeTakes
  <2>2. UNCHANGED <<pc, more, m_have_formatter>>
    BY <1>11 DEF Make, AppenderSetLevel, frames, formats
  <2>3. stage'[t] = "own" /\ made'[t] = a /\ kind'[a] = Head(more[t]).type
        /\ a_level'[a] = Head(more[t]).level
    BY <1>a, <2>1 DEF AppenderSetLevel
  <2>4. ~m_have_formatter'[a]
    BY <2>1, <2>2 DEF FreshInv
  <2> QED BY <1>10, <2>2, <2>3, <2>4 DEF Fits
<1>12. CASE SetOwn(t)
  <2>1. /\ stage[t] = "own" /\ stage'[t] = "add" /\ UNCHANGED <<pc, more, made, kind, a_level>>
    BY <1>a, <1>12 DEF SetOwn, AppenderSetFormatter, vars, shared, levels, frames
  <2>2. PICK b \in AppenderDefines, a \in Appenders : b = Head(more[t]) /\ a = made[t]
    BY <1>5, <2>1, HeadAndTail DEF RoundTypeOK
  <2>3. Fits(a, b) /\ ~m_have_formatter[a]
    BY <1>7, <2>1, <2>2
  <2>4. b.formatter \in Texts /\ b.formatter # NoFormatter
    BY <2>2, LogReloadAssumption DEF AppenderDefines
  <2>5. /\ m_have_formatter'[a] <=> b.formatter \in Formatters
        /\ b.formatter \in Formatters => a_formatter'[a] = b.formatter
    <3>1. CASE b.formatter \in Formatters
      <4>1. AppenderSetFormatter(t, a, b.formatter)
        BY <1>12, <2>2, <3>1 DEF SetOwn
      <4>2. /\ m_have_formatter' = [m_have_formatter EXCEPT ![a] = b.formatter # NoFormatter]
            /\ a_formatter' = [a_formatter EXCEPT ![a] = b.formatter]
        BY <4>1 DEF AppenderSetFormatter
      <4>3. a_formatter'[a] = b.formatter
        BY <1>a, <2>2, <4>2
      <4>4. m_have_formatter'[a] = (b.formatter # NoFormatter)
        BY <1>a, <2>2, <4>2, Zenon
      <4> QED BY <2>4, <3>1, <4>3, <4>4
    <3>2. CASE b.formatter \notin Formatters
      <4>1. UNCHANGED m_have_formatter
        BY <1>12, <2>2, <3>2 DEF SetOwn, vars, shared, formats
      <4> QED BY <2>3, <3>2, <4>1
    <3> QED BY <3>1, <3>2
  <2> QED BY <1>10, <2>1, <2>2, <2>3, <2>5 DEF Fits, Dressed
<1>13. CASE Add(t)
  <2>1. /\ stage[t] = "add" /\ stage'[t] = "make"
        /\ UNCHANGED <<kind, a_level, a_formatter, m_have_formatter>>
        /\ AddLock(t, l, made[t]) /\ more'[t] = Tail(more[t])
    BY <1>a, <1>1, <1>13 DEF Add, AddLock, levels, formats
  <2>2. PICK b \in AppenderDefines, a \in Appenders : b = Head(more[t]) /\ a = made[t]
    BY <1>5, <2>1, HeadAndTail DEF RoundTypeOK
  <2>3. pc'[t] = "add" /\ obj'[t] = a
    BY <1>a, <2>1, <2>2 DEF AddLock, Take
  <2>4. Joining(t)' = 1
    BY <2>3 DEF Joining
  <2>5. /\ b = more[t][1] /\ Len(more'[t]) = Len(more[t]) - 1 /\ Len(more[t]) \in Nat \ {0}
        /\ \A k \in 1 .. Len(more[t]) - 1 : more'[t][k] = more[t][k + 1]
    BY <1>5, <2>1, <2>2, HeadAndTail
  <2>6. b = ds[n + 1]
    <3>1. 1 \in 1 .. Len(more[t])
      BY <2>5
    <3> QED BY <1>7, <2>5, <3>1
  <2>7. PICK m \in Nat \ {0} : m = Len(more[t]) /\ Len(more'[t]) = m - 1
    BY <2>5
  <2>8. Len(ds) = n + 1 + Len(more'[t])
    <3>1. Len(ds) = n + m
      BY <1>7, <2>7
    <3>2. n + m = n + 1 + (m - 1)
      OBVIOUS
    <3> QED BY <2>7, <3>1, <3>2
  <2>9. ASSUME NEW k \in 1 .. Len(more'[t]) PROVE more'[t][k] = ds[n + 1 + k]
    <3>1. k \in 1 .. m - 1
      BY <2>9, <2>7
    <3>2. k + 1 \in 1 .. m /\ n + 1 + k = n + (k + 1)
      BY <3>1
    <3> QED BY <1>7, <2>5, <2>7, <3>1, <3>2
  <2>10. Fits(a, b)' /\ Dressed(a, b)'
    BY <1>7, <2>1, <2>2 DEF Fits, Dressed
  <2>11. a \notin ToSet(list)
    <3>1. home[a] = NoLogger
      BY <2>1, <2>2 DEF FreshInv
    <3> QED BY <1>6, <3>1, Listed, LoggerAssumption
  <2> QED BY <1>6, <1>8, <1>9, <2>1, <2>3, <2>4, <2>6, <2>8, <2>9, <2>10, <2>11
            DEF AppendersInv
<1> QED BY <1>11, <1>12, <1>13

LEMMA ProgressListener ==
  ASSUME IInv, RoundTypeOK, RoundInv, CarefulAll, NamesInv, FreshInv, Booted,
         NEW t \in Setters, ProgressInv(t), Listener(t)
  PROVE  ProgressInv(t)'
<1> USE DEF Between, Goto
<1>a. /\ stage \in [Setters -> Stages] /\ cur \in [Setters -> Defines]
      /\ todo \in [Setters -> SUBSET Defines] /\ more \in [Setters -> Seq(AppenderDefines)]
      /\ m_level \in [Loggers -> Levels] /\ m_appenders \in [Loggers -> Seq(Appenders)]
      /\ m_formatter \in [Loggers -> AnyFormatter]
      /\ Setters \subseteq Threads /\ pc[t] = "idle"
  BY LogReloadAssumption, ListenerMoves DEF IInv, TypeOK, RoundTypeOK
<1>b. PICK l \in Loggers : l = cur[t].name
  BY CurTypes
<1>1. ASSUME stage'[t] \notin Touching \cup {"drop"} PROVE ProgressInv(t)'
  BY <1>1 DEF ProgressInv, Touching
<1>2. CASE Announce(t) \/ Skip(t) \/ ToRemove(t) \/ SkipKept(t) \/ EndListener(t) \/ Drop(t)
  BY <1>1, <1>2, <1>a DEF Announce, Skip, ToRemove, SkipKept, EndListener, Drop, Touching
<1>3. CASE Applied(t)
  BY <1>1, <1>3, <1>a DEF Applied, Touching
<1>4. CASE Apply(t)
  <2>1. PICK d \in todo[t] :
          /\ SetLevel(t, d.name, d.level) /\ cur' = [cur EXCEPT ![t] = d]
          /\ more' = [more EXCEPT ![t] = d.appenders] /\ todo' = [todo EXCEPT ![t] = @ \ {d}]
    BY <1>4 DEF Apply
  <2>2. stage[t] = "apply" /\ stage'[t] = "format"
    BY <1>4, <1>a DEF Apply
  <2>3. d.name \in Loggers
    BY <1>a, DefineTypes
  <2>4. cur'[t] = d /\ more'[t] = d.appenders /\ m_level'[d.name] = d.level
    BY <1>a, <2>1, <2>3 DEF SetLevel
  <2>5. Named(todo'[t], d.name) = {}
    <3>1. OneOfEachName(arg[t]) /\ todo[t] \subseteq arg[t]
      BY <2>2 DEF NamesInv, RoundInv, FirstLoop
    <3>2. todo'[t] = todo[t] \ {d}
      BY <1>a, <2>1
    <3> QED BY <3>1, <3>2 DEF Named, OneOfEachName
  <2> QED BY <2>2, <2>4, <2>5 DEF ProgressInv, Touching
<1>5. CASE TurnOff(t)
  <2>1. PICK d \in todo[t] :
          /\ SetLevel(t, d.name, OFF) /\ cur' = [cur EXCEPT ![t] = d]
          /\ todo' = [todo EXCEPT ![t] = @ \ {d}]
    BY <1>5 DEF TurnOff
  <2>2. stage[t] = "remove" /\ stage'[t] = "drop"
    BY <1>5, <1>a DEF TurnOff
  <2>3. d.name \in Loggers
    BY <1>a, DefineTypes
  <2>4. cur'[t] = d /\ m_level'[d.name] = OFF
    BY <1>a, <2>1, <2>3 DEF SetLevel
  <2>5. Named(todo'[t], d.name) = {}
    <3>1. OneOfEachName(logs) /\ todo[t] \subseteq logs
      BY <2>2 DEF NamesInv, RoundInv
    <3>2. todo'[t] = todo[t] \ {d}
      BY <1>a, <2>1
    <3> QED BY <3>1, <3>2 DEF Named, OneOfEachName
  <2> QED BY <2>2, <2>4, <2>5 DEF ProgressInv, Touching
<1>6. CASE SetFormat(t)
  <2>1. /\ stage[t] = "format" /\ stage'[t] = "clear" /\ UNCHANGED <<cur, todo, more>>
    BY <1>6, <1>a DEF SetFormat
  <2>2. UNCHANGED m_level
    BY <1>6 DEF SetFormat, FormatLock, levels, vars, shared
  <2>3. cur[t].formatter \in Formatters => m_formatter'[l] = cur[t].formatter
    BY <1>6, <1>a, <1>b DEF SetFormat, FormatLock
  <2> QED BY <1>b, <2>1, <2>2, <2>3 DEF ProgressInv, Touching
<1>7. CASE Clear(t)
  <2>1. /\ stage[t] = "clear" /\ stage'[t] = "make" /\ UNCHANGED <<cur, todo, more, pc>>
        /\ UNCHANGED <<m_level, m_formatter>>
    BY <1>7, <1>a DEF Clear, ClearAppenders, levels, formats
  <2>2. m_appenders'[l] = <<>>
    BY <1>7, <1>a, <1>b DEF Clear, ClearAppenders
  <2>3. AppendersInv(t)'
    <3>1. PICK ds \in Seq(AppenderDefines) : ds = cur[t].appenders /\ more[t] = ds
      BY <1>a, <2>1 DEF ProgressInv
    <3>2. Joining(t)' = 0 /\ pc'[t] # "add" /\ Len(m_appenders'[l]) = 0
      BY <1>a, <2>1, <2>2 DEF Joining
    <3>3. cur'[t].appenders = ds /\ cur'[t].name = l /\ more'[t] = ds
      BY <1>b, <2>1, <3>1
    <3>4. Len(ds) = 0 + 0 + Len(ds) /\ \A k \in 1 .. Len(ds) : ds[k] = ds[0 + 0 + k]
      OBVIOUS
    <3>5. /\ Len(ds) = Len(m_appenders'[l]) + Joining(t)' + Len(more'[t])
          /\ \A k \in 1 .. Len(more'[t]) : more'[t][k] = ds[Len(m_appenders'[l]) + Joining(t)' + k]
      BY <3>2, <3>3, <3>4
    <3>6. \A k \in 1 .. Len(m_appenders'[l]) : FALSE
      BY <3>2
    <3> QED BY <2>1, <3>2, <3>3, <3>5, <3>6 DEF AppendersInv
  <2> QED BY <2>1, <2>3 DEF ProgressInv, Touching
<1>8. CASE Make(t) \/ SetOwn(t) \/ Add(t)
  <2>1. /\ {stage[t], stage'[t]} \subseteq {"make", "own", "add"} /\ UNCHANGED <<cur, todo>>
    BY <1>8, <1>a DEF Make, SetOwn, Add
  <2>2. UNCHANGED <<m_level, m_formatter>>
    BY <1>8 DEF Make, SetOwn, Add, AppenderSetLevel, AppenderSetFormatter, AddLock,
       levels, formats, vars, shared
  <2>3. AppendersInv(t)
    BY <2>1 DEF ProgressInv
  <2>4. AppendersInv(t)'
    BY <1>8, <2>3, AppendersListener
  <2> QED BY <2>1, <2>2, <2>4 DEF ProgressInv, Touching
<1> QED BY <1>2, <1>3, <1>4, <1>5, <1>6, <1>7, <1>8 DEF Listener

\* addAppender ends: the appender has its own formatter, or the logger's.
LEMMA AppendersFinish ==
  ASSUME IInv, RoundTypeOK, CallInv, CarefulAll, AloneInv, NEW t \in Setters, AppendersInv(t),
         pc[t] = "add", AddFinish(t), UNCHANGED <<round, kind>>
  PROVE  AppendersInv(t)'
<1>a. /\ m_appenders \in [Loggers -> Seq(Appenders)] /\ a_formatter \in [Appenders -> AnyFormatter]
      /\ pc \in [Threads -> PCs] /\ more[t] \in Seq(AppenderDefines) /\ t \in Threads
  BY LogReloadAssumption DEF IInv, TypeOK, RoundTypeOK
<1>1. /\ at[t] = cur[t].name /\ stage[t] = "make" /\ t \notin torn
      /\ obj[t] \in Appenders /\ home[obj[t]] = at[t]
      /\ rest[t] = IF m_have_formatter[obj[t]] THEN <<>> ELSE <<obj[t]>>
  BY <1>a, InsideCall
<1>2. PICK d \in Defines, l \in Loggers, a \in Appenders : d = cur[t] /\ l = d.name /\ a = obj[t]
  BY <1>1, CurTypes
<1>3. PICK list \in Seq(Appenders), ds \in Seq(AppenderDefines), n \in Nat, m \in Nat :
        list = m_appenders[l] /\ ds = d.appenders /\ n = Len(list) /\ m = Len(more[t])
  <2>1. m_appenders[l] \in Seq(Appenders) /\ Len(m_appenders[l]) \in Nat
    BY <1>a
  <2>2. d.appenders \in Seq(AppenderDefines) /\ Len(more[t]) \in Nat
    BY <1>a, DefineTypes
  <2> QED BY <2>1, <2>2
<1>4. Joining(t) = 1
  BY DEF Joining
<1>5. /\ Len(ds) = n + 1 + m
      /\ \A k \in 1 .. m : more[t][k] = ds[n + 1 + k]
      /\ \A k \in 1 .. n : Matches(list[k], ds[k], l)
      /\ Fits(a, ds[n + 1]) /\ Dressed(a, ds[n + 1]) /\ a \notin ToSet(list)
  BY <1>2, <1>3, <1>4 DEF AppendersInv
<1>6. /\ m_appenders'[l] = Append(list, a)
      /\ UNCHANGED <<m_level, m_formatter, a_level, kind, cur, more, stage>>
      /\ pc'[t] = "idle"
  BY <1>a, <1>1, <1>2, <1>3 DEF AddFinish, Return, levels
<1>7. /\ \A b \in Appenders : b # a => a_formatter'[b] = a_formatter[b]
      /\ a_formatter'[a] = IF m_have_formatter[a] THEN a_formatter[a] ELSE m_formatter[l]
  <2>1. a_formatter' =
          [b \in Appenders |-> IF rest[t] = <<b>> THEN m_formatter[l] ELSE a_formatter[b]]
    BY <1>1, <1>2 DEF AddFinish
  <2>2. CASE m_have_formatter[a]
    BY <1>1, <1>2, <2>1, <2>2
  <2>3. CASE ~m_have_formatter[a]
    <3>1. rest[t] = <<a>>
      BY <1>1, <1>2, <2>3
    <3> QED BY <2>1, <2>3, <3>1
  <2> QED BY <2>2, <2>3
<1>8. Matches(a, ds[n + 1], l)'
  BY <1>5, <1>6, <1>7 DEF Matches, Fits, Dressed
<1>9. ASSUME NEW k \in 1 .. n PROVE Matches(list[k], ds[k], l)'
  <2>1. list[k] \in ToSet(list) /\ list[k] \in Appenders
    BY <1>3, Listed
  <2>2. list[k] # a
    BY <1>5, <2>1
  <2> QED BY <1>5, <1>6, <1>7, <2>1, <2>2 DEF Matches
<1>10. PICK new \in Seq(Appenders) : new = Append(list, a)
  <2>1. Append(list, a) \in Seq(Appenders)
    OBVIOUS
  <2> QED BY <2>1
<1>11. Len(new) = n + 1 /\ \A k \in 1 .. n + 1 : new[k] = IF k = n + 1 THEN a ELSE list[k]
  BY <1>3, <1>10
<1>12. ASSUME NEW k \in 1 .. n + 1 PROVE Matches(new[k], ds[k], l)'
  <2>1. CASE k = n + 1
    BY <1>8, <1>11, <2>1
  <2>2. CASE k # n + 1
    <3>1. k \in 1 .. n
      BY <2>2
    <3> QED BY <1>9, <1>11, <2>2, <3>1
  <2> QED BY <2>1, <2>2
<1>13. /\ cur'[t].name = l /\ cur'[t].appenders = ds /\ m_appenders'[l] = new
       /\ more'[t] = more[t] /\ pc'[t] # "add" /\ Joining(t)' = 0 /\ stage'[t] = "make"
  BY <1>1, <1>2, <1>3, <1>6, <1>10 DEF Joining
<1>14. Len(ds) = Len(new) + 0 + m
  <2>1. n + 1 + m = n + 1 + 0 + m
    OBVIOUS
  <2> QED BY <1>5, <1>11, <2>1
<1>15. ASSUME NEW k \in 1 .. m PROVE more[t][k] = ds[Len(new) + 0 + k]
  <2>1. n + 1 + k = n + 1 + 0 + k
    OBVIOUS
  <2> QED BY <1>5, <1>11, <2>1
<1>16. /\ Len(ds) = Len(m_appenders'[l]) + Joining(t)' + Len(more'[t])
       /\ \A k \in 1 .. Len(more'[t]) : more'[t][k] = ds[Len(m_appenders'[l]) + Joining(t)' + k]
  BY <1>3, <1>13, <1>14, <1>15
<1>17. \A k \in 1 .. Len(new) : Matches(new[k], ds[k], l)'
  BY <1>11, <1>12
<1> QED BY <1>13, <1>16, <1>17 DEF AppendersInv

-----------------------------------------------------------------------------
(* Steps of calls, beside the listener *)

LEMMA QuietProgress ==
  ASSUME QuietCall, UNCHANGED <<round, kind>>, NEW t \in Setters, t \in Threads, ProgressInv(t)
  PROVE  ProgressInv(t)'
<1> USE DEF QuietCall, shared, levels, formats
<1>1. ASSUME AppendersInv(t) PROVE AppendersInv(t)'
  <2>1. Joining(t)' = Joining(t) /\ (pc'[t] = "add" <=> pc[t] = "add")
    BY DEF Joining
  <2> QED BY <1>1, <2>1 DEF AppendersInv, Matches, Fits, Dressed
<1> QED BY <1>1 DEF ProgressInv

LEMMA QuietLoggers ==
  ASSUME IInv, RoundTypeOK, CarefulAll, UNCHANGED <<logs, round>>,
         NEW t \in Setters, LoggersInv(t),
         \A l \in Loggers : Changing(t, l) \/ Kept(l)
  PROVE  LoggersInv(t)'
<1>1. \A l \in Loggers : (Changing(t, l)' <=> Changing(t, l)) /\ (Ahead(t, l)' <=> Ahead(t, l))
  BY DEF Changing, Ahead
<1> QED BY <1>1, LoggersKept

\* The last step of addAppender, or one appender of setFormatter.
LEMMA CallProgress ==
  ASSUME IInv, RoundTypeOK, CallInv, CarefulAll, AloneInv, UNCHANGED <<round, kind>>,
         NEW u \in Threads, AddFinish(u) \/ FormatOne(u), ProgressInv(u)
  PROVE  ProgressInv(u)'
<1>1. u \in Setters /\ at[u] = cur[u].name /\ pc[u] \in {"add", "format"}
  BY InsideCall
<1>2. CASE pc[u] = "add"
  <2>1. AddFinish(u) /\ stage[u] = "make"
    BY <1>2, InsideCall
  <2>2. UNCHANGED <<m_level, m_formatter>>
    BY <2>1 DEF AddFinish, levels
  <2>3. AppendersInv(u)
    BY <2>1 DEF ProgressInv
  <2>4. AppendersInv(u)'
    BY <1>1, <1>2, <2>1, <2>3, AppendersFinish
  <2> QED BY <2>1, <2>2, <2>4 DEF ProgressInv, Touching
<1>3. CASE pc[u] = "format"
  <2>1. FormatOne(u) /\ stage[u] = "clear"
    BY <1>3, InsideCall
  <2>2. UNCHANGED <<m_level, m_formatter>>
    BY <2>1 DEF FormatOne, levels
  <2> QED BY <2>1, <2>2 DEF ProgressInv, Touching
<1> QED BY <1>1, <1>2, <1>3

-----------------------------------------------------------------------------
(* Loads from beginning to end *)

\* A listener ends in "store", not in "idle".
LEMMA ListenerStays ==
  ASSUME RoundTypeOK, Booted, NEW t \in Setters, Listener(t)
  PROVE  stage'[t] # "idle"
<1> USE DEF RoundTypeOK, Between, Goto
<1>1. CASE Announce(t) \/ Skip(t) \/ Apply(t) \/ SetFormat(t) \/ Clear(t)
  BY <1>1 DEF Announce, Skip, Apply, SetFormat, Clear
<1>2. CASE Make(t) \/ SetOwn(t) \/ Add(t) \/ Applied(t)
  BY <1>2 DEF Make, SetOwn, Add, Applied
<1>3. CASE ToRemove(t) \/ SkipKept(t) \/ TurnOff(t) \/ Drop(t) \/ EndListener(t)
  BY <1>3 DEF ToRemove, SkipKept, TurnOff, Drop, EndListener
<1> QED BY <1>1, <1>2, <1>3 DEF Listener

LEMMA LoadsStep ==
  ASSUME IInv, RoundTypeOK, RoundInv, CallInv, CarefulAll, AloneInv, Booted, LoadsInv,
         [ReloadNext]_all, ~mixed'
  PROVE  LoadsInv' /\ Booted'
<1>a. /\ stage \in [Setters -> Stages] /\ arg \in [Setters -> SUBSET Defines]
      /\ todo \in [Setters -> SUBSET Defines] /\ logs \in SUBSET Defines
      /\ Setters \subseteq Threads
  BY LogReloadAssumption DEF RoundTypeOK
<1>1. ASSUME NEW t \in Setters, NEW document \in Documents, Load(t, document)
      PROVE  LoadsInv' /\ Booted'
  <2> DEFINE value == FirstOfEachName([k \in DOMAIN document |-> FromYaml(document[k])])
  <2> HIDE DEF value
  <2>1. /\ \A u \in Setters : stage[u] = "idle"
        /\ stage' = [stage EXCEPT ![t] = "log"]
        /\ arg' = [arg EXCEPT ![t] = value] /\ todo' = [todo EXCEPT ![t] = value]
        /\ UNCHANGED <<vars, logs, kind>> /\ Booted'
    BY <1>1 DEF Load, Booted, value
  <2>2. ASSUME NEW l \in Loggers PROVE Ahead(t, l)' /\ As(l, logs)'
    <3>1. As(l, logs) /\ Kept(l)
      BY <2>1, KeptByQuiet DEF LoadsInv, vars
    <3>2. PICK old \in SUBSET Defines : old = logs
      BY <1>a
    <3>3. As(l, old)'
      BY <3>1, <3>2, KeptAs
    <3>4. As(l, logs)'
      BY <2>1, <3>2, <3>3 DEF As
    <3>5. Ahead(t, l)'
      BY <1>a, <2>1 DEF Ahead, FirstLoop
    <3> QED BY <3>4, <3>5
  <2>3. ProgressInv(t)' /\ stage'[t] # "idle" /\ \A u \in Setters : u # t => stage'[u] = "idle"
    BY <1>a, <2>1 DEF ProgressInv, Touching
  <2> QED BY <2>1, <2>2, <2>3 DEF LoadsInv, LoggersInv
<1>2. ASSUME NEW t \in Setters, Store(t) PROVE LoadsInv' /\ Booted'
  <2>1. /\ stage[t] = "store" /\ stage' = [stage EXCEPT ![t] = "idle"] /\ logs' = arg[t]
        /\ UNCHANGED <<vars, kind>> /\ Booted'
    BY <1>2 DEF Store, Between, Booted
  <2>2. \A u \in Setters : stage'[u] = "idle"
    BY <1>a, <2>1 DEF AloneInv, SingleInv
  <2>3. ASSUME NEW l \in Loggers PROVE As(l, logs)'
    <3>1. As(l, arg[t]) /\ Kept(l)
      BY <2>1, KeptByQuiet DEF LoadsInv, LoggersInv, Changing, Ahead, FirstLoop, vars
    <3>2. PICK new \in SUBSET Defines : new = arg[t]
      BY <1>a
    <3>3. As(l, new)'
      BY <3>1, <3>2, KeptAs
    <3> QED BY <2>1, <3>2, <3>3 DEF As
  <2> QED BY <2>1, <2>2, <2>3 DEF LoadsInv
<1>3. ASSUME NEW t \in Setters, Listener(t) PROVE LoadsInv' /\ Booted'
  <2>1. Booted' /\ stage[t] # "idle" /\ \A u \in Setters \ {t} : stage'[u] = stage[u]
    BY <1>3, ListenerMoves DEF Frame
  <2>2. \A u \in Setters : u # t => stage'[u] = "idle"
    BY <2>1 DEF AloneInv, SingleInv
  <2>3. ProgressInv(t) /\ LoggersInv(t)
    BY <2>1 DEF LoadsInv
  <2>4. ProgressInv(t)' /\ LoggersInv(t)'
    BY <1>3, <2>3, ProgressListener, LoggersListener DEF AloneInv
  <2>5. stage'[t] # "idle"
    BY <1>3, ListenerStays
  <2> QED BY <2>1, <2>2, <2>4, <2>5 DEF LoadsInv
<1>4. ASSUME UNCHANGED <<logs, round, kind>>,
             \/ QuietCall
             \/ \E u \in Threads : AddFinish(u) \/ FormatOne(u)
      PROVE  LoadsInv'
  <2>1. ASSUME NEW t \in Setters, stage[t] # "idle" PROVE ProgressInv(t)' /\ LoggersInv(t)'
    <3>1. ProgressInv(t) /\ LoggersInv(t)
      BY <2>1 DEF LoadsInv
    <3>2. CASE QuietCall
      <4>1. \A l \in Loggers : Kept(l)
        BY <1>4, <3>2, KeptByQuiet DEF QuietCall
      <4> QED BY <1>4, <1>a, <3>1, <3>2, <4>1, QuietProgress, QuietLoggers
    <3>3. ASSUME NEW u \in Threads, AddFinish(u) \/ FormatOne(u)
          PROVE  ProgressInv(t)' /\ LoggersInv(t)'
      <4>1. u \in Setters /\ stage[u] \in {"make", "clear"} /\ at[u] = cur[u].name
        BY <3>3, InsideCall
      <4>2. u = t
        BY <2>1, <4>1 DEF AloneInv, SingleInv
      <4>3. ASSUME NEW l \in Loggers PROVE Changing(t, l) \/ Kept(l)
        BY <1>4, <3>3, <4>1, <4>2, KeptByCall DEF Changing
      <4> QED BY <1>4, <3>1, <3>3, <4>2, <4>3, CallProgress, QuietLoggers
    <3> QED BY <1>4, <3>2, <3>3
  <2>2. ASSUME \A t \in Setters : stage[t] = "idle", NEW l \in Loggers PROVE As(l, logs)'
    <3>1. QuietCall
      <4>1. ASSUME NEW u \in Threads, AddFinish(u) \/ FormatOne(u) PROVE FALSE
        <5>1. u \in Setters /\ stage[u] \in {"make", "clear"}
          BY <4>1, InsideCall
        <5> QED BY <2>2, <5>1
      <4> QED BY <1>4, <4>1
    <3>2. As(l, logs) /\ Kept(l)
      BY <1>4, <2>2, <3>1, KeptByQuiet DEF LoadsInv, QuietCall
    <3>3. PICK old \in SUBSET Defines : old = logs
      BY <1>a
    <3>4. As(l, old)'
      BY <3>2, <3>3, KeptAs
    <3> QED BY <1>4, <3>3, <3>4 DEF As
  <2> QED BY <1>4, <2>1, <2>2 DEF LoadsInv
<1>5. CASE /\ UNCHANGED <<logs, round, kind, mixed>>
           /\ Booted' <=> Booted
           /\ QuietCall \/ \E t \in Threads : AddFinish(t) \/ FormatOne(t)
  BY <1>4, <1>5
<1> QED BY <1>1, <1>2, <1>3, <1>5, StepKinds

LEMMA LoadInvInit == ReloadInit => LoadInv
<1> SUFFICES ASSUME ReloadInit PROVE AloneInv /\ ~Booted /\ BootInv
  BY DEF LoadInv
<1>1. AloneInv
  BY DEF ReloadInit, Init, AloneInv, SingleInv, NamesInv, OneOfEachName, UntornInv, FreshInv
<1>2. ~Booted
  BY DEF ReloadInit, Booted
<1>3. BootInv
  <2>1. /\ Root \in Loggers /\ Main \in Setters /\ Main \in Threads
        /\ Len(<<StdoutDefine>>) = 1 /\ Len(<<>>) = 0
    BY LoggerAssumption, LogReloadAssumption
  <2>2. logs = {} /\ cur[Main].name = Root /\ more[Main] = <<StdoutDefine>> /\ Joining(Main) = 0
    BY <2>1 DEF ReloadInit, Init, NoDefine, Joining
  <2>3. \A l \in Loggers :
          m_level[l] = DEBUG /\ m_formatter[l] = DefFormatter /\ m_appenders[l] = <<>>
    BY DEF ReloadInit, Init
  <2> QED BY <2>1, <2>2, <2>3 DEF BootInv
<1> QED BY <1>1, <1>2, <1>3

LEMMA LoadInvStep ==
  IInv /\ RoundTypeOK /\ RoundInv /\ CallInv /\ CarefulAll /\ LoadInv /\ [ReloadNext]_all
    => LoadInv'
<1> SUFFICES ASSUME IInv, RoundTypeOK, RoundInv, CallInv, CarefulAll, LoadInv,
                    [ReloadNext]_all, ~mixed'
             PROVE  AloneInv' /\ IF Booted' THEN LoadsInv' ELSE BootInv'
  BY DEF LoadInv
<1>1. AloneInv /\ IF Booted THEN LoadsInv ELSE BootInv
  BY MixedStays DEF LoadInv
<1>2. AloneInv'
  BY <1>1, AloneStep
<1>3. CASE Booted
  BY <1>1, <1>2, <1>3, LoadsStep
<1>4. CASE ~Booted
  <2>1. IF Booted' THEN (\A t \in Setters : stage[t] = "idle")' /\ (\A l \in Loggers : As(l, logs))'
        ELSE BootInv'
    BY <1>1, <1>4, BootStep
  <2> QED BY <1>2, <2>1 DEF LoadsInv
<1> QED BY <1>3, <1>4

LEMMA LoadIsOldOrNew == LoadInv /\ RoundTypeOK => OldOrNew
<1> SUFFICES ASSUME LoadInv, Booted, ~mixed, NEW l \in Loggers
             PROVE  \/ As(l, logs)
                    \/ \E t \in Setters : stage[t] # "idle" /\ (As(l, arg[t]) \/ Changing(t, l))
  BY DEF OldOrNew
<1>1. LoadsInv
  BY DEF LoadInv
<1>2. CASE \A t \in Setters : stage[t] = "idle"
  BY <1>1, <1>2 DEF LoadsInv
<1>3. ASSUME NEW t \in Setters, stage[t] # "idle"
      PROVE  As(l, logs) \/ As(l, arg[t]) \/ Changing(t, l)
  BY <1>1, <1>3 DEF LoadsInv, LoggersInv
<1> QED BY <1>2, <1>3

\* While one configuration replaces another, every logger is what the old one
\* or the new one says, but for the one the listener is busy with; once the
\* load is over it is what "logs" says.
THEOREM LoadsAreWhole == ReloadSpec => []OldOrNew
<1>1. ReloadSpec => [](TypeOK /\ RoundTypeOK)
  BY ReloadTypes, PTL DEF ReloadTypeOK
<1>2. ReloadSpec => [](RoundInv /\ CallInv)
  BY <1>1, RoundInvInit, CallInvStep, RoundInvStep, PTL DEF ReloadSpec
<1>3. Spec => [](IInv /\ CarefulAll)
  BY Invariance, CarefulInit, CarefulStep, PTL DEF Spec
<1>4. ReloadSpec => []LoadInv
  BY <1>1, <1>2, <1>3, ReloadImplementsLogger, LoadInvInit, LoadInvStep, PTL DEF ReloadSpec
<1> QED BY <1>1, <1>4, LoadIsOldOrNew, PTL
=============================================================================

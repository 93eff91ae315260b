---------------------------- MODULE LoggerProofs ----------------------------
(***************************************************************************)
(* Proofs about Logger, for any threads, loggers, appenders and formatters. *)
(***************************************************************************)
EXTENDS Logger, SequenceTheorems, TLAPS

(* Facts about the sequences a walk is made of. *)

LEMMA WalkOne ==
  ASSUME NEW S, NEW s \in Seq(S), NEW r \in Seq(S), r # <<>>
  PROVE  /\ Head(r) \in S
         /\ Tail(r) \in Seq(S)
         /\ Append(s, Head(r)) \in Seq(S)
         /\ Append(s, Head(r)) \o Tail(r) = s \o r
<1>1. Head(r) \in S /\ Tail(r) \in Seq(S) /\ Append(s, Head(r)) \in Seq(S)
  BY HeadTailProperties
<1>2. Append(s, Head(r)) \o Tail(r) = s \o r
  <2> DEFINE x == Append(s, Head(r)) \o Tail(r)
             y == s \o r
  <2>1. x \in Seq(S) /\ y \in Seq(S) /\ Len(x) = Len(y)
    BY <1>1
  <2>2. ASSUME NEW i \in 1 .. Len(y) PROVE x[i] = y[i]
    BY <1>1, <2>2
  <2> QED BY <2>1, <2>2, SeqEqual
<1> QED BY <1>1, <1>2

LEMMA RemoveAtFacts ==
  ASSUME NEW S, NEW s \in Seq(S), NEW i \in 1 .. Len(s)
  PROVE  /\ RemoveAt(s, i) \in Seq(S)
         /\ ToSet(RemoveAt(s, i)) \subseteq ToSet(s)
<1> DEFINE u == SubSeq(s, 1, i - 1)
           v == SubSeq(s, i + 1, Len(s))
<1>1. /\ u \in Seq(S) /\ Len(u) = i - 1
      /\ v \in Seq(S) /\ Len(v) = Len(s) - i
      /\ \A j \in 1 .. i - 1 : u[j] = s[j]
      /\ \A j \in 1 .. Len(s) - i : v[j] = s[i + j]
  OBVIOUS
<1> HIDE DEF u, v
<1>2. /\ u \o v \in Seq(S)
      /\ Len(u \o v) = Len(s) - 1
      /\ \A j \in 1 .. Len(s) - 1 :
           (u \o v)[j] = IF j <= i - 1 THEN u[j] ELSE v[j - (i - 1)]
  <2>1. /\ u \o v \in Seq(S)
        /\ Len(u \o v) = Len(u) + Len(v)
        /\ \A j \in 1 .. Len(u) + Len(v) :
             (u \o v)[j] = IF j <= Len(u) THEN u[j] ELSE v[j - Len(u)]
    BY <1>1, ConcatProperties, Zenon
  <2>2. Len(u) + Len(v) = Len(s) - 1
    BY <1>1
  <2> QED BY <1>1, <2>1, <2>2
<1>3. ASSUME NEW j \in 1 .. Len(s) - 1
      PROVE  \E k \in 1 .. Len(s) : (u \o v)[j] = s[k]
  <2>1. CASE j <= i - 1
    <3>1. j \in 1 .. i - 1 /\ j \in 1 .. Len(s)
      BY <2>1
    <3> QED BY <1>1, <1>2, <2>1, <3>1
  <2>2. CASE ~(j <= i - 1)
    <3>1. /\ j - (i - 1) \in 1 .. Len(s) - i
          /\ i + (j - (i - 1)) = j + 1
          /\ j + 1 \in 1 .. Len(s)
      BY <2>2
    <3>2. (u \o v)[j] = s[j + 1]
      BY <1>1, <1>2, <2>2, <3>1
    <3> QED BY <3>1, <3>2
  <2> QED BY <2>1, <2>2
<1>4. RemoveAt(s, i) = u \o v
  BY DEF RemoveAt, u, v
<1>5. ToSet(u \o v) \subseteq ToSet(s)
  <2>1. DOMAIN (u \o v) = 1 .. Len(s) - 1 /\ DOMAIN s = 1 .. Len(s)
    BY <1>2
  <2> SUFFICES ASSUME NEW j \in DOMAIN (u \o v) PROVE (u \o v)[j] \in ToSet(s)
    BY DEF ToSet
  <2>2. PICK k \in 1 .. Len(s) : (u \o v)[j] = s[k]
    BY <1>3, <2>1
  <2> QED BY <2>1, <2>2 DEF ToSet
<1> QED BY <1>2, <1>4, <1>5

LEMMA ToSetAppend ==
  ASSUME NEW S, NEW s \in Seq(S), NEW x \in S
  PROVE  /\ Append(s, x) \in Seq(S)
         /\ ToSet(Append(s, x)) \subseteq ToSet(s) \cup {x}
<1>1. /\ Append(s, x) \in Seq(S)
      /\ DOMAIN Append(s, x) = 1 .. Len(s) + 1
      /\ DOMAIN s = 1 .. Len(s)
  OBVIOUS
<1>2. ASSUME NEW j \in 1 .. Len(s) + 1 PROVE Append(s, x)[j] \in ToSet(s) \cup {x}
  BY <1>1 DEF ToSet
<1>3. ToSet(Append(s, x)) = {Append(s, x)[j] : j \in 1 .. Len(s) + 1}
  BY <1>1 DEF ToSet
<1> QED BY <1>1, <1>2, <1>3

LEMMA ToSetEmpty == ToSet(<<>>) = {}
  BY DEF ToSet

LEMMA ToSetWalk ==
  ASSUME NEW S, NEW r \in Seq(S), r # <<>>
  PROVE  /\ Head(r) \in ToSet(r)
         /\ ToSet(Tail(r)) \subseteq ToSet(r)
         /\ ToSet(r) = {Head(r)} \cup ToSet(Tail(r))
<1>1. /\ DOMAIN r = 1 .. Len(r) /\ Len(r) \in Nat \ {0}
      /\ Tail(r) \in Seq(S) /\ DOMAIN Tail(r) = 1 .. Len(r) - 1
      /\ \A i \in 1 .. Len(r) - 1 : Tail(r)[i] = r[i + 1]
      /\ Head(r) = r[1]
  OBVIOUS
<1>2. Head(r) \in ToSet(r)
  BY <1>1 DEF ToSet
<1>3. ToSet(Tail(r)) \subseteq ToSet(r)
  BY <1>1 DEF ToSet
<1>4. ASSUME NEW i \in 1 .. Len(r) PROVE r[i] \in {Head(r)} \cup ToSet(Tail(r))
  <2>1. CASE i # 1
    <3>1. i - 1 \in 1 .. Len(r) - 1 /\ Tail(r)[i - 1] = r[i]
      BY <1>1, <2>1
    <3> QED BY <1>1, <3>1 DEF ToSet
  <2> QED BY <1>1, <2>1
<1>5. ToSet(r) = {r[i] : i \in 1 .. Len(r)}
  BY <1>1 DEF ToSet
<1> QED BY <1>2, <1>3, <1>4, <1>5

-----------------------------------------------------------------------------
(* The locks *)

LEMMA InitInv == Init => IInv
<1> SUFFICES ASSUME Init PROVE IInv
  OBVIOUS
<1>1. TypeOK
  <2>1. <<>> \in Seq(Appenders)
    OBVIOUS
  <2>2. /\ m_appenders \in [Loggers -> Seq(Appenders)]
        /\ rest \in [Threads -> Seq(Appenders)]
        /\ seen \in [Threads -> Seq(Appenders)]
    BY <2>1 DEF Init
  <2> QED BY <2>2, LoggerAssumption DEF Init, TypeOK, PCs, AnyFormatter
<1>2. LockInv
  BY LoggerAssumption DEF Init, LockInv, Holds
<1> QED BY <1>1, <1>2 DEF IInv

LEMMA StepInv == IInv /\ [Next]_vars => IInv'
<1> SUFFICES ASSUME IInv, [Next]_vars PROVE IInv'
  OBVIOUS
<1> USE LoggerAssumption DEF shared, levels, formats, frames
<1>0. ASSUME UNCHANGED <<owner, pc, at, from, obj, rest>>, torn' = torn
      PROVE  LockInv'
  BY <1>0 DEF IInv, LockInv, Holds
<1>1. ASSUME NEW t \in Threads, NEW l \in Loggers, NEW e \in Levels, LogStatement(t, l, e)
      PROVE  IInv'
  <2>1. TypeOK'
    BY <1>1 DEF IInv, TypeOK, LogStatement, Start, PCs, AnyFormatter
  <2>2. LockInv'
    BY <1>1 DEF IInv, TypeOK, LockInv, Holds, LogStatement, Start, PCs
  <2> QED BY <2>1, <2>2 DEF IInv
<1>2. ASSUME NEW t \in Threads, LogCall(t)
      PROVE  IInv'
  <2>1. TypeOK'
    BY <1>2 DEF IInv, TypeOK, LogCall, Under, PCs, AnyFormatter
  <2>2. LockInv'
    <3>1. CASE pc' = [pc EXCEPT ![t] = "enter"]
      BY <1>2, <3>1 DEF IInv, TypeOK, LockInv, Holds, LogCall, Under, PCs
    <3>2. CASE pc' = [pc EXCEPT ![t] = "idle"] /\ at' = [at EXCEPT ![t] = NoLogger]
      BY <1>2, <3>2 DEF IInv, TypeOK, LockInv, Holds, LogCall, Under, PCs
    <3> QED BY <1>2, <3>1, <3>2 DEF LogCall
  <2> QED BY <2>1, <2>2 DEF IInv
<1>3. ASSUME NEW t \in Threads, Enter(t)
      PROVE  IInv'
  <2>1. TypeOK'
    <3>1. at[t] \in Loggers /\ m_appenders[at[t]] \in Seq(Appenders) /\ <<>> \in Seq(Appenders)
      BY <1>3 DEF IInv, TypeOK, LockInv, Enter, Under
    <3> QED BY <1>3, <3>1 DEF IInv, TypeOK, Enter, Under, Lock, PCs
  <2>2. LockInv'
    BY <1>3 DEF IInv, TypeOK, LockInv, Holds, Enter, Under, Lock, PCs
  <2> QED BY <2>1, <2>2 DEF IInv
<1>4. ASSUME NEW t \in Threads, Fallback(t)
      PROVE  IInv'
  <2>1. TypeOK'
    <3>1. /\ at' \in {at, [at EXCEPT ![t] = Root]}
          /\ from' \in {from, [from EXCEPT ![t] = at[t]]}
          /\ pc' \in {[pc EXCEPT ![t] = "enter"], [pc EXCEPT ![t] = "list"]}
          /\ UNCHANGED <<shared, owner, ev, obj, rest, seen, torn, crashed>>
      BY <1>4 DEF Fallback
    <3>2. at' \in [Threads -> Loggers \cup {NoLogger}]
      BY <3>1 DEF IInv, TypeOK
    <3>3. from' \in [Threads -> Loggers \cup {NoLogger}]
      BY <3>1 DEF IInv, TypeOK
    <3>4. pc' \in [Threads -> PCs]
      BY <3>1 DEF IInv, TypeOK, PCs
    <3> QED BY <3>1, <3>2, <3>3, <3>4 DEF IInv, TypeOK
  <2>2. LockInv'
    <3>1. CASE at' = [at EXCEPT ![t] = Root]
      BY <1>4, <3>1 DEF IInv, TypeOK, LockInv, Holds, Fallback, Under, PCs
    <3>2. CASE pc' = [pc EXCEPT ![t] = "list"] /\ UNCHANGED <<at, from>>
      BY <1>4, <3>2 DEF IInv, TypeOK, LockInv, Holds, Fallback, Under, PCs
    <3> QED BY <1>4, <3>1, <3>2 DEF Fallback
  <2> QED BY <2>1, <2>2 DEF IInv
<1>5. ASSUME NEW t \in Threads, Output(t)
      PROVE  IInv'
  <2>1. TypeOK'
    BY <1>5 DEF IInv, TypeOK, Output, Under, PCs, AnyFormatter
  <2>2. LockInv'
    BY <1>5 DEF IInv, TypeOK, LockInv, Holds, Output, Under, PCs
  <2> QED BY <2>1, <2>2 DEF IInv
<1>6. ASSUME NEW t \in Threads, Leave(t)
      PROVE  IInv'
  <2>1. TypeOK'
    BY <1>6 DEF IInv, TypeOK, Leave, Under, Unlock, Return, PCs, AnyFormatter
  <2>2. LockInv'
    <3>1. CASE from[t] = NoLogger
      BY <1>6, <3>1 DEF IInv, TypeOK, LockInv, Holds, Leave, Under, Unlock, Return, PCs
    <3>2. CASE from[t] # NoLogger
      <4>1. /\ pc[t] = "list" /\ owner' = [owner EXCEPT ![at[t]] = NoThread]
            /\ at' = [at EXCEPT ![t] = from[t]] /\ from' = [from EXCEPT ![t] = NoLogger]
            /\ torn' = torn \ {t} /\ UNCHANGED <<pc, obj, rest>>
        BY <1>6, <3>2 DEF Leave, Under, Unlock
      <4> QED BY <3>2, <4>1 DEF IInv, TypeOK, LockInv, Holds, PCs
    <3> QED BY <3>1, <3>2
  <2> QED BY <2>1, <2>2 DEF IInv
<1>7. ASSUME NEW t \in Threads, NEW l \in Loggers, NEW a \in Appenders, AddLock(t, l, a)
      PROVE  IInv'
  <2>1. TypeOK'
    BY <1>7 DEF IInv, TypeOK, AddLock, Take, Start, Lock, PCs, AnyFormatter
  <2>2. LockInv'
    BY <1>7 DEF IInv, TypeOK, LockInv, Holds, AddLock, Take, Start, Lock, PCs
  <2> QED BY <2>1, <2>2 DEF IInv
<1>8. ASSUME NEW t \in Threads, AddFinish(t)
      PROVE  IInv'
  <2>1. TypeOK'
    <3>1. at[t] \in Loggers /\ obj[t] \in Appenders
      BY <1>8 DEF IInv, TypeOK, LockInv, AddFinish, Under
    <3>2. Append(m_appenders[at[t]], obj[t]) \in Seq(Appenders) /\ <<>> \in Seq(Appenders)
      BY <3>1 DEF IInv, TypeOK
    <3>3. m_appenders' \in [Loggers -> Seq(Appenders)]
      BY <1>8, <3>1, <3>2 DEF IInv, TypeOK, AddFinish
    <3>4. a_formatter' \in [Appenders -> AnyFormatter]
      BY <1>8, <3>1 DEF IInv, TypeOK, AddFinish
    <3> QED BY <1>8, <3>2, <3>3, <3>4
              DEF IInv, TypeOK, AddFinish, Under, Unlock, Return, PCs
  <2>2. LockInv'
    BY <1>8 DEF IInv, TypeOK, LockInv, Holds, AddFinish, Under, Unlock, Return, PCs
  <2> QED BY <2>1, <2>2 DEF IInv
<1>9. ASSUME NEW t \in Threads, NEW l \in Loggers, NEW a \in Appenders, DelLock(t, l, a)
      PROVE  IInv'
  <2>1. TypeOK'
    BY <1>9 DEF IInv, TypeOK, DelLock, Take, Start, Lock, PCs, AnyFormatter
  <2>2. LockInv'
    BY <1>9 DEF IInv, TypeOK, LockInv, Holds, DelLock, Take, Start, Lock, PCs
  <2> QED BY <2>1, <2>2 DEF IInv
<1>10. ASSUME NEW t \in Threads, DelFinish(t)
      PROVE  IInv'
  <2>1. TypeOK'
    <3>1. at[t] \in Loggers
      BY <1>10 DEF IInv, TypeOK, LockInv, DelFinish, Under
    <3>2. \A i \in 1 .. Len(m_appenders[at[t]]) :
            RemoveAt(m_appenders[at[t]], i) \in Seq(Appenders)
      BY <3>1, RemoveAtFacts DEF IInv, TypeOK
    <3>3. m_appenders' \in [Loggers -> Seq(Appenders)]
      <4>1. CASE UNCHANGED m_appenders
        BY <4>1 DEF IInv, TypeOK
      <4>2. CASE \E i \in 1 .. Len(m_appenders[at[t]]) :
                   m_appenders' = [m_appenders EXCEPT ![at[t]] = RemoveAt(m_appenders[at[t]], i)]
        BY <3>1, <3>2, <4>2 DEF IInv, TypeOK
      <4> QED BY <1>10, <4>1, <4>2 DEF DelFinish
    <3> QED BY <1>10, <3>3 DEF IInv, TypeOK, DelFinish, Under, Unlock, Return, PCs
  <2>2. LockInv'
    <3>1. /\ pc[t] = "del" /\ owner' = [owner EXCEPT ![at[t]] = NoThread]
          /\ pc' = [pc EXCEPT ![t] = "idle"] /\ at' = [at EXCEPT ![t] = NoLogger]
          /\ torn' = torn \ {t} /\ UNCHANGED <<from, rest>>
          /\ obj' = [obj EXCEPT ![t] = NoAppender]
      BY <1>10 DEF DelFinish, Under, Unlock, Return
    <3>2. from[t] = NoLogger /\ at[t] \in Loggers
      BY <3>1 DEF IInv, TypeOK, LockInv
    <3> QED BY <3>1, <3>2 DEF IInv, TypeOK, LockInv, Holds, PCs
  <2> QED BY <2>1, <2>2 DEF IInv
<1>11. ASSUME NEW t \in Threads, NEW l \in Loggers, ClearAppenders(t, l)
      PROVE  IInv'
  <2>1. TypeOK'
    BY <1>11 DEF IInv, TypeOK, ClearAppenders, Start, Inside, PCs, AnyFormatter
  <2>2. LockInv'
    BY <1>11 DEF IInv, TypeOK, LockInv, Holds, ClearAppenders, Start, Inside, PCs
  <2> QED BY <2>1, <2>2 DEF IInv
<1>12. ASSUME NEW t \in Threads, Stray(t)
      PROVE  IInv'
  <2>1. TypeOK'
    <3>1. <<>> \in Seq(Appenders)
      OBVIOUS
    <3>2. CASE crashed' = TRUE /\ UNCHANGED rest
      BY <1>12, <3>2 DEF IInv, TypeOK, Stray
    <3>3. CASE UNCHANGED crashed /\ rest' = [rest EXCEPT ![t] = <<>>]
      <4>1. rest' \in [Threads -> Seq(Appenders)]
        BY <3>1, <3>3 DEF IInv, TypeOK
      <4> QED BY <1>12, <3>3, <4>1 DEF IInv, TypeOK, Stray
    <3> QED BY <1>12, <3>2, <3>3 DEF Stray
  <2>2. LockInv'
    BY <1>12 DEF IInv, TypeOK, LockInv, Holds, Stray, PCs
  <2> QED BY <2>1, <2>2 DEF IInv
<1>13. ASSUME NEW t \in Threads, NEW l \in Loggers, NEW f \in Formatters, FormatLock(t, l, f)
      PROVE  IInv'
  <2>1. TypeOK'
    BY <1>13 DEF IInv, TypeOK, FormatLock, Take, Start, Lock, PCs, AnyFormatter
  <2>2. LockInv'
    BY <1>13 DEF IInv, TypeOK, LockInv, Holds, FormatLock, Take, Start, Lock, PCs
  <2> QED BY <2>1, <2>2 DEF IInv
<1>14. ASSUME NEW t \in Threads, FormatOne(t)
      PROVE  IInv'
  <2>1. TypeOK'
    <3>1. at[t] \in Loggers
      BY <1>14 DEF IInv, TypeOK, LockInv, FormatOne, Under
    <3>2. Head(rest[t]) \in Appenders /\ Tail(rest[t]) \in Seq(Appenders)
      BY <1>14, HeadTailProperties DEF IInv, TypeOK, FormatOne
    <3>3. a_formatter' \in [Appenders -> AnyFormatter]
      BY <1>14, <3>1, <3>2 DEF IInv, TypeOK, FormatOne
    <3> QED BY <1>14, <3>2, <3>3 DEF IInv, TypeOK, FormatOne, Under
  <2>2. LockInv'
    BY <1>14 DEF IInv, TypeOK, LockInv, Holds, FormatOne, Under, PCs
  <2> QED BY <2>1, <2>2 DEF IInv
<1>15. ASSUME NEW t \in Threads, FormatDone(t)
      PROVE  IInv'
  <2>1. TypeOK'
    BY <1>15 DEF IInv, TypeOK, FormatDone, Under, Unlock, Return, PCs, AnyFormatter
  <2>2. LockInv'
    BY <1>15 DEF IInv, TypeOK, LockInv, Holds, FormatDone, Under, Unlock, Return, PCs
  <2> QED BY <2>1, <2>2 DEF IInv
<1>16. ASSUME NEW t \in Threads, NEW a \in Appenders, NEW f \in Formatters, AppenderSetFormatter(t, a, f)
      PROVE  IInv'
  <2>1. TypeOK'
    BY <1>16 DEF IInv, TypeOK, AppenderSetFormatter, Start, PCs, AnyFormatter
  <2>2. LockInv'
    BY <1>0, <1>16 DEF AppenderSetFormatter
  <2> QED BY <2>1, <2>2 DEF IInv
<1>17. ASSUME NEW t \in Threads, NEW l \in Loggers, NEW v \in Levels, SetLevel(t, l, v)
      PROVE  IInv'
  <2>1. TypeOK'
    BY <1>17 DEF IInv, TypeOK, SetLevel, Start, PCs, AnyFormatter
  <2>2. LockInv'
    BY <1>0, <1>17 DEF SetLevel
  <2> QED BY <2>1, <2>2 DEF IInv
<1>18. ASSUME NEW t \in Threads, NEW a \in Appenders, NEW v \in Levels, AppenderSetLevel(t, a, v)
      PROVE  IInv'
  <2>1. TypeOK'
    BY <1>18 DEF IInv, TypeOK, AppenderSetLevel, Start, PCs, AnyFormatter
  <2>2. LockInv'
    BY <1>0, <1>18 DEF AppenderSetLevel
  <2> QED BY <2>1, <2>2 DEF IInv
<1>19. CASE UNCHANGED <<shared, owner, frames>> /\ crashed' \in BOOLEAN
  <2>1. TypeOK'
    BY <1>19 DEF IInv, TypeOK
  <2>2. LockInv'
    BY <1>19 DEF IInv, LockInv, Holds
  <2> QED BY <2>1, <2>2 DEF IInv
<1>20. ASSUME NEW t \in Threads, NEW u \in Threads, NEW l \in Loggers, ClearTogether(t, u, l)
      PROVE  IInv'
  BY <1>19, <1>20 DEF ClearTogether
<1>21. CASE UNCHANGED vars
  BY <1>19, <1>21 DEF vars, IInv, TypeOK
<1> QED
  BY <1>1, <1>2, <1>3, <1>4, <1>5, <1>6, <1>7, <1>8, <1>9, <1>10, <1>11, <1>12, <1>13,
     <1>14, <1>15, <1>16, <1>17, <1>18, <1>20, <1>21 DEF Next

\* Locks are held where the code says, and every value stays within its type.
THEOREM Invariance == Spec => []IInv
  BY InitInv, StepInv, PTL DEF Spec

-----------------------------------------------------------------------------
(* The walk over the list *)

\* What WalkIsWhole and RootStandsIn rest on: an empty list stays empty while the root is asked.
WalkInv ==
  /\ WalkIsWhole
  /\ RootStandsIn
  /\ \A t \in Threads :
       pc[t] = "fallback" =>
         m_appenders[at[t]] = <<>> /\ rest[t] = <<>> /\ seen[t] = <<>>

LEMMA WalkInit == Init => WalkInv
  BY DEF Init, WalkInv, WalkIsWhole, RootStandsIn

LEMMA WalkStep == IInv /\ WalkInv /\ [Next]_vars => WalkInv'
<1> SUFFICES ASSUME IInv, WalkInv, [Next]_vars PROVE WalkInv'
  OBVIOUS
<1> USE LoggerAssumption DEF shared, levels, formats, frames
<1> DEFINE Fell(t) == pc[t] = "fallback" =>
                        m_appenders[at[t]] = <<>> /\ rest[t] = <<>> /\ seen[t] = <<>>
           Walk(t) == pc[t] = "list" /\ t \notin torn
                        => seen[t] \o rest[t] = m_appenders[at[t]]
           Stand(t) == from[t] # NoLogger => m_appenders[from[t]] = <<>>
           Good(t) == Fell(t) /\ Walk(t) /\ Stand(t)
<1>a. SUFFICES \A u \in Threads : Good(u)'
  BY DEF WalkInv, WalkIsWhole, RootStandsIn
<1>b. \A u \in Threads : Good(u)
  BY DEF WalkInv, WalkIsWhole, RootStandsIn
\* A thread that a step leaves alone, with the lists it looks at.
<1>c. ASSUME NEW u \in Threads,
             pc'[u] = pc[u], at'[u] = at[u], from'[u] = from[u], rest'[u] = rest[u],
             seen'[u] = seen[u], u \in torn <=> u \in torn',
             at[u] \in Loggers => m_appenders'[at[u]] = m_appenders[at[u]],
             from[u] \in Loggers => m_appenders'[from[u]] = m_appenders[from[u]]
      PROVE  Good(u)'
  <2>1. pc[u] \in {"list", "fallback"} => at[u] \in Loggers
    BY DEF IInv, TypeOK, LockInv
  <2>2. from[u] # NoLogger => from[u] \in Loggers
    BY DEF IInv, TypeOK
  <2>3. Fell(u)'
    BY <1>b, <1>c, <2>1
  <2>4. Walk(u)'
    BY <1>b, <1>c, <2>1
  <2>5. Stand(u)'
    BY <1>b, <1>c, <2>2
  <2> QED BY <2>3, <2>4, <2>5
\* A step of t that changes no list leaves the other threads alone.
<1>d. ASSUME NEW t \in Threads, UNCHANGED m_appenders,
             \A u \in Threads \ {t} :
               /\ pc'[u] = pc[u] /\ at'[u] = at[u] /\ from'[u] = from[u]
               /\ rest'[u] = rest[u] /\ seen'[u] = seen[u]
               /\ u \in torn <=> u \in torn',
             Good(t)'
      PROVE  \A u \in Threads : Good(u)'
  BY <1>c, <1>d
\* A step of t that changes the list it holds the lock of does so too.
<1>e. ASSUME NEW t \in Threads, owner[at[t]] = t, at[t] \in Loggers,
             \A l \in Loggers \ {at[t]} : m_appenders'[l] = m_appenders[l],
             \A u \in Threads \ {t} :
               /\ pc'[u] = pc[u] /\ at'[u] = at[u] /\ from'[u] = from[u]
               /\ rest'[u] = rest[u] /\ seen'[u] = seen[u]
               /\ u \in torn <=> u \in torn',
             Good(t)'
      PROVE  \A u \in Threads : Good(u)'
  <2> SUFFICES ASSUME NEW u \in Threads, u # t PROVE Good(u)'
    BY <1>e
  <2>1. from[u] # NoLogger => from[u] # at[t]
    BY <1>e DEF IInv, TypeOK, LockInv, Holds
  <2>2. pc[u] \in {"list", "fallback"} => at[u] # at[t]
    BY <1>e DEF IInv, TypeOK, LockInv, Holds
  <2>3. Stand(u)'
    BY <1>b, <1>e, <2>1 DEF IInv, TypeOK
  <2>4. (Fell(u) /\ Walk(u))'
    <3>1. CASE pc[u] \in {"list", "fallback"}
      <4>1. at[u] \in Loggers \ {at[t]}
        BY <2>2, <3>1 DEF IInv, TypeOK, LockInv
      <4>2. m_appenders'[at[u]] = m_appenders[at[u]]
        BY <1>e, <4>1
      <4> QED BY <1>b, <1>e, <4>2
    <3>2. CASE pc[u] \notin {"list", "fallback"}
      BY <1>e, <3>2
    <3> QED BY <3>1, <3>2
  <2> QED BY <2>3, <2>4
<1>1. ASSUME NEW t \in Threads, NEW l \in Loggers, NEW e \in Levels, LogStatement(t, l, e)
      PROVE  \A u \in Threads : Good(u)'
  BY <1>1, <1>b, <1>d DEF LogStatement, Start, IInv, TypeOK, LockInv
<1>2. ASSUME NEW t \in Threads, LogCall(t)
      PROVE  \A u \in Threads : Good(u)'
  <2>1. /\ pc[t] = "event" /\ from[t] = NoLogger
        /\ pc' \in {[pc EXCEPT ![t] = "enter"], [pc EXCEPT ![t] = "idle"]}
        /\ at' \in {at, [at EXCEPT ![t] = NoLogger]}
    BY <1>2 DEF LogCall, Under, IInv, TypeOK, LockInv
  <2>2. Good(t)'
    BY <1>2, <2>1 DEF LogCall, IInv, TypeOK
  <2> QED BY <1>2, <1>d, <2>1, <2>2 DEF LogCall, IInv, TypeOK
<1>3. ASSUME NEW t \in Threads, Enter(t)
      PROVE  \A u \in Threads : Good(u)'
  <2>1. at[t] \in Loggers /\ m_appenders[at[t]] \in Seq(Appenders)
    BY <1>3 DEF Enter, Under, IInv, TypeOK, LockInv
  <2>2. <<>> \o m_appenders[at[t]] = m_appenders[at[t]]
    BY <2>1, ConcatEmptySeq
  <2>3. Good(t)'
    BY <1>3, <1>b, <2>1, <2>2 DEF Enter, Under, IInv, TypeOK, LockInv
  <2> QED BY <1>3, <1>d, <2>3 DEF Enter, IInv, TypeOK
<1>4. ASSUME NEW t \in Threads, Fallback(t)
      PROVE  \A u \in Threads : Good(u)'
  <2>1. at[t] \in Loggers /\ from[t] = NoLogger /\ <<>> \o <<>> = <<>>
    BY <1>4 DEF Fallback, Under, IInv, TypeOK, LockInv
  <2>2. Good(t)'
    BY <1>4, <1>b, <2>1 DEF Fallback, Under, IInv, TypeOK
  <2> QED BY <1>4, <1>d, <2>2 DEF Fallback, IInv, TypeOK
<1>5. ASSUME NEW t \in Threads, Output(t)
      PROVE  \A u \in Threads : Good(u)'
  <2>1. Append(seen[t], Head(rest[t])) \o Tail(rest[t]) = seen[t] \o rest[t]
    BY <1>5, WalkOne DEF Output, IInv, TypeOK
  <2>2. Good(t)'
    BY <1>5, <1>b, <2>1 DEF Output, Under, IInv, TypeOK
  <2> QED BY <1>5, <1>d, <2>2 DEF Output, IInv, TypeOK
<1>6. ASSUME NEW t \in Threads, Leave(t)
      PROVE  \A u \in Threads : Good(u)'
  <2>1. <<>> \o <<>> = <<>>
    OBVIOUS
  <2>2. CASE from[t] = NoLogger
    <3>1. Good(t)'
      BY <1>6, <2>2 DEF Leave, Return, IInv, TypeOK
    <3> QED BY <1>6, <1>d, <2>2, <3>1 DEF Leave, Return, IInv, TypeOK
  <2>3. CASE from[t] # NoLogger
    <3>1. Good(t)'
      BY <1>6, <1>b, <2>1, <2>3 DEF Leave, Under, IInv, TypeOK, LockInv
    <3> QED BY <1>6, <1>d, <2>3, <3>1 DEF Leave, Under, IInv, TypeOK
  <2> QED BY <2>2, <2>3
<1>7. ASSUME NEW t \in Threads, NEW l \in Loggers, NEW a \in Appenders, AddLock(t, l, a)
      PROVE  \A u \in Threads : Good(u)'
  BY <1>7, <1>b, <1>d DEF AddLock, Take, Start, IInv, TypeOK, LockInv
<1>8. ASSUME NEW t \in Threads, AddFinish(t)
      PROVE  \A u \in Threads : Good(u)'
  <2>1. owner[at[t]] = t /\ at[t] \in Loggers /\ from[t] = NoLogger
    <3>1. at[t] \in Loggers /\ from[t] = NoLogger
      BY <1>8 DEF AddFinish, Under, IInv, TypeOK, LockInv
    <3> QED BY <1>8, <3>1 DEF AddFinish, Under, IInv, LockInv, Holds
  <2>2. Good(t)'
    BY <1>8, <2>1 DEF AddFinish, Under, Return, IInv, TypeOK
  <2>3. \A l \in Loggers \ {at[t]} : m_appenders'[l] = m_appenders[l]
    BY <1>8, <2>1 DEF AddFinish, IInv, TypeOK
  <2> QED BY <1>8, <1>e, <2>1, <2>2, <2>3 DEF AddFinish, Return, IInv, TypeOK
<1>9. ASSUME NEW t \in Threads, NEW l \in Loggers, NEW a \in Appenders, DelLock(t, l, a)
      PROVE  \A u \in Threads : Good(u)'
  BY <1>9, <1>b, <1>d DEF DelLock, Take, Start, IInv, TypeOK, LockInv
<1>10. ASSUME NEW t \in Threads, DelFinish(t)
       PROVE  \A u \in Threads : Good(u)'
  <2>1. owner[at[t]] = t /\ at[t] \in Loggers /\ from[t] = NoLogger
    <3>1. at[t] \in Loggers /\ from[t] = NoLogger
      BY <1>10 DEF DelFinish, Under, IInv, TypeOK, LockInv
    <3> QED BY <1>10, <3>1 DEF DelFinish, Under, IInv, LockInv, Holds
  <2>2. Good(t)'
    BY <1>10, <2>1 DEF DelFinish, Under, Return, IInv, TypeOK
  <2>3. \A l \in Loggers \ {at[t]} : m_appenders'[l] = m_appenders[l]
    BY <1>10, <2>1 DEF DelFinish, IInv, TypeOK
  <2> QED BY <1>10, <1>e, <2>1, <2>2, <2>3 DEF DelFinish, Return, IInv, TypeOK
<1>11. ASSUME NEW t \in Threads, NEW l \in Loggers, ClearAppenders(t, l), NEW u \in Threads
       PROVE  Good(u)'
  <2>1. m_appenders' = [m_appenders EXCEPT ![l] = <<>>]
    BY <1>11 DEF ClearAppenders
  <2>2. Stand(u)' /\ Fell(u)'
    BY <1>11, <1>b, <2>1 DEF ClearAppenders, IInv, TypeOK, LockInv
  <2>3. Walk(u)'
    BY <1>11, <1>b, <2>1 DEF ClearAppenders, Inside, IInv, TypeOK, LockInv
  <2> QED BY <2>2, <2>3
<1>12. ASSUME NEW t \in Threads, Stray(t)
       PROVE  \A u \in Threads : Good(u)'
  <2>1. Good(t)'
    BY <1>12, <1>b DEF Stray, IInv, TypeOK, LockInv
  <2> QED BY <1>12, <1>d, <2>1 DEF Stray, IInv, TypeOK
<1>13. ASSUME NEW t \in Threads, NEW l \in Loggers, NEW f \in Formatters, FormatLock(t, l, f)
       PROVE  \A u \in Threads : Good(u)'
  BY <1>13, <1>b, <1>d DEF FormatLock, Take, Start, IInv, TypeOK, LockInv
<1>14. ASSUME NEW t \in Threads, FormatOne(t)
       PROVE  \A u \in Threads : Good(u)'
  <2>1. Good(t)'
    BY <1>14, <1>b DEF FormatOne, Under, IInv, TypeOK, LockInv
  <2> QED BY <1>14, <1>d, <2>1 DEF FormatOne, IInv, TypeOK
<1>15. ASSUME NEW t \in Threads, FormatDone(t)
       PROVE  \A u \in Threads : Good(u)'
  BY <1>15, <1>b, <1>d DEF FormatDone, Under, Return, IInv, TypeOK, LockInv
<1>16. CASE UNCHANGED <<m_appenders, frames>>
  BY <1>16, <1>c
<1> QED
  BY <1>1, <1>2, <1>3, <1>4, <1>5, <1>6, <1>7, <1>8, <1>9, <1>10, <1>11, <1>12,
     <1>13, <1>14, <1>15, <1>16
  DEF Next, ClearTogether, AppenderSetFormatter, SetLevel, AppenderSetLevel, vars

\* Unless clearAppenders runs meanwhile, an event goes to every appender of the
\* list, in order, once each, however many threads add, remove and log.
THEOREM WalksAreWhole == Spec => []WalkIsWhole
<1>1. Spec => []WalkInv
  BY WalkInit, WalkStep, Invariance, PTL DEF Spec
<1> QED BY <1>1, PTL DEF WalkInv

\* The root logger stands in for a logger only while that has no appender.
THEOREM RootOnlyStandsIn == Spec => []RootStandsIn
<1>1. Spec => []WalkInv
  BY WalkInit, WalkStep, Invariance, PTL DEF Spec
<1> QED BY <1>1, PTL DEF WalkInv

-----------------------------------------------------------------------------
(* Formatters are present *)

\* What FormattersPresent rests on: a formatter once present stays so, and
\* addAppender passes one on to an appender it found without.
PresentInv ==
  /\ FormattersPresent
  /\ \A t \in Threads : pc[t] = "add" => rest[t] \in {<<>>, <<obj[t]>>}
  /\ NoFormatter \notin Formatters =>
       /\ \A l \in Loggers : m_formatter[l] # NoFormatter
       /\ \A t \in Threads :
            pc[t] = "add" /\ rest[t] = <<>> => a_formatter[obj[t]] # NoFormatter

LEMMA PresentInit == Init => PresentInv
  BY LoggerAssumption, ToSetEmpty DEF Init, PresentInv, FormattersPresent

LEMMA PresentStep == IInv /\ PresentInv /\ [Next]_vars => PresentInv'
<1> SUFFICES ASSUME IInv, PresentInv, [Next]_vars PROVE PresentInv'
  OBVIOUS
<1> USE LoggerAssumption, ToSetEmpty DEF shared, levels, formats, frames
<1>a. \A l \in Loggers : m_appenders[l] \in Seq(Appenders) /\ ToSet(m_appenders[l]) \subseteq Appenders
  BY DEF IInv, TypeOK, ToSet
<1>b. \A t \in Threads : pc[t] = "add" => at[t] \in Loggers /\ obj[t] \in Appenders
  BY DEF IInv, TypeOK, LockInv
\* A step that changes no list and no call of addAppender, and that takes no
\* formatter away.
<1>c. ASSUME UNCHANGED <<m_appenders, m_formatter, obj>>,
             \A t \in Threads : pc'[t] = "add" => pc[t] = "add" /\ rest'[t] = rest[t],
             NoFormatter \notin Formatters =>
               \A a \in Appenders : a_formatter[a] # NoFormatter => a_formatter'[a] # NoFormatter
      PROVE  PresentInv'
  BY <1>a, <1>b, <1>c DEF PresentInv, FormattersPresent
<1>1. ASSUME NEW t \in Threads, NEW l \in Loggers, NEW e \in Levels, LogStatement(t, l, e)
      PROVE  PresentInv'
  BY <1>1 DEF LogStatement, Start, PresentInv, FormattersPresent, IInv, TypeOK, LockInv
<1>2. ASSUME NEW t \in Threads, LogCall(t)
      PROVE  PresentInv'
  BY <1>2 DEF LogCall, Under, PresentInv, FormattersPresent, IInv, TypeOK, LockInv
<1>3. ASSUME NEW t \in Threads, Enter(t)
      PROVE  PresentInv'
  BY <1>3 DEF Enter, Under, PresentInv, FormattersPresent, IInv, TypeOK, LockInv
<1>4. ASSUME NEW t \in Threads, Fallback(t)
      PROVE  PresentInv'
  BY <1>4 DEF Fallback, Under, PresentInv, FormattersPresent, IInv, TypeOK, LockInv
<1>5. ASSUME NEW t \in Threads, Output(t)
      PROVE  PresentInv'
  BY <1>5 DEF Output, Under, PresentInv, FormattersPresent, IInv, TypeOK, LockInv
<1>6. ASSUME NEW t \in Threads, Leave(t)
      PROVE  PresentInv'
  BY <1>6 DEF Leave, Under, Return, PresentInv, FormattersPresent, IInv, TypeOK, LockInv
<1>7. ASSUME NEW t \in Threads, NEW l \in Loggers, NEW a \in Appenders, AddLock(t, l, a)
      PROVE  PresentInv'
  BY <1>7 DEF AddLock, Take, Start, PresentInv, FormattersPresent, IInv, TypeOK, LockInv
<1>8. ASSUME NEW t \in Threads, AddFinish(t)
      PROVE  PresentInv'
  <2>1. at[t] \in Loggers /\ obj[t] \in Appenders
    BY <1>b, <1>8 DEF AddFinish, Under
  <2>2. \A l \in Loggers : ToSet(m_appenders'[l]) \subseteq ToSet(m_appenders[l]) \cup {obj[t]}
    <3>1. CASE m_appenders' = [m_appenders EXCEPT ![at[t]] = Append(@, obj[t])]
      <4>1. ToSet(Append(m_appenders[at[t]], obj[t])) \subseteq ToSet(m_appenders[at[t]]) \cup {obj[t]}
        BY <1>a, <2>1, ToSetAppend
      <4> QED BY <2>1, <3>1, <4>1 DEF IInv, TypeOK
    <3>2. CASE UNCHANGED m_appenders
      BY <3>2
    <3> QED BY <1>8, <3>1, <3>2 DEF AddFinish
  <2>3. ASSUME NoFormatter \notin Formatters
        PROVE  /\ a_formatter'[obj[t]] # NoFormatter
               /\ \A a \in Appenders : a_formatter[a] # NoFormatter => a_formatter'[a] # NoFormatter
    BY <1>8, <2>1, <2>3 DEF AddFinish, Under, PresentInv, IInv, TypeOK
  <2>4. FormattersPresent'
    BY <1>a, <2>2, <2>3 DEF PresentInv, FormattersPresent
  <2>5. \A u \in Threads : pc'[u] = "add" => pc[u] = "add" /\ obj'[u] = obj[u] /\ rest'[u] = rest[u]
    BY <1>8 DEF AddFinish, Under, Return, IInv, TypeOK
  <2> QED BY <1>8, <1>b, <2>3, <2>4, <2>5 DEF AddFinish, PresentInv
<1>9. ASSUME NEW t \in Threads, NEW l \in Loggers, NEW a \in Appenders, DelLock(t, l, a)
      PROVE  PresentInv'
  BY <1>9 DEF DelLock, Take, Start, PresentInv, FormattersPresent, IInv, TypeOK, LockInv
<1>10. ASSUME NEW t \in Threads, DelFinish(t)
      PROVE  PresentInv'
  <2>1. at[t] \in Loggers
    BY <1>10 DEF DelFinish, Under, IInv, TypeOK, LockInv
  <2>2. \A l \in Loggers : ToSet(m_appenders'[l]) \subseteq ToSet(m_appenders[l])
    <3>1. CASE UNCHANGED m_appenders
      BY <3>1
    <3>2. CASE \E i \in 1 .. Len(m_appenders[at[t]]) :
                 m_appenders' = [m_appenders EXCEPT ![at[t]] = RemoveAt(m_appenders[at[t]], i)]
      BY <1>a, <2>1, <3>2, RemoveAtFacts DEF IInv, TypeOK
    <3> QED BY <1>10, <3>1, <3>2 DEF DelFinish
  <2>3. FormattersPresent'
    BY <1>10, <2>2 DEF DelFinish, PresentInv, FormattersPresent
  <2>4. \A u \in Threads : pc'[u] = "add" => pc[u] = "add" /\ obj'[u] = obj[u]
    BY <1>10 DEF DelFinish, Under, Return, IInv, TypeOK
  <2> QED BY <1>10, <2>3, <2>4 DEF DelFinish, PresentInv
<1>11. ASSUME NEW t \in Threads, NEW l \in Loggers, ClearAppenders(t, l)
      PROVE  PresentInv'
  BY <1>11
    DEF ClearAppenders, Start, Inside, PresentInv, FormattersPresent, IInv, TypeOK, LockInv
<1>12. ASSUME NEW t \in Threads, Stray(t)
      PROVE  PresentInv'
  BY <1>12, <1>c DEF Stray, IInv, TypeOK
<1>13. ASSUME NEW t \in Threads, NEW l \in Loggers, NEW f \in Formatters, FormatLock(t, l, f)
      PROVE  PresentInv'
  BY <1>13 DEF FormatLock, Take, Start, PresentInv, FormattersPresent, IInv, TypeOK, LockInv
<1>14. ASSUME NEW t \in Threads, FormatOne(t)
      PROVE  PresentInv'
  BY <1>14 DEF FormatOne, Under, PresentInv, FormattersPresent, IInv, TypeOK, LockInv
<1>15. ASSUME NEW t \in Threads, FormatDone(t)
      PROVE  PresentInv'
  BY <1>15
    DEF FormatDone, Under, Return, PresentInv, FormattersPresent, IInv, TypeOK, LockInv
<1>16. ASSUME NEW t \in Threads, NEW a \in Appenders, NEW f \in Formatters, AppenderSetFormatter(t, a, f)
      PROVE  PresentInv'
  BY <1>16, <1>c DEF AppenderSetFormatter, IInv, TypeOK
<1>17. ASSUME NEW t \in Threads, NEW l \in Loggers, NEW v \in Levels, SetLevel(t, l, v)
      PROVE  PresentInv'
  BY <1>17 DEF SetLevel, Start, PresentInv, FormattersPresent, IInv, TypeOK, LockInv
<1>18. ASSUME NEW t \in Threads, NEW a \in Appenders, NEW v \in Levels, AppenderSetLevel(t, a, v)
      PROVE  PresentInv'
  BY <1>18 DEF AppenderSetLevel, Start, PresentInv, FormattersPresent, IInv, TypeOK, LockInv
<1>19. CASE UNCHANGED <<shared, frames>>
  BY <1>19, <1>c
<1> QED
  BY <1>1, <1>2, <1>3, <1>4, <1>5, <1>6, <1>7, <1>8, <1>9, <1>10, <1>11, <1>12, <1>13,
     <1>14, <1>15, <1>16, <1>17, <1>18, <1>19 DEF Next, ClearTogether, vars

\* As long as nobody passes a null formatter, no appender in a list is without
\* one: log never dereferences null, whatever addAppender and setFormatter race
\* with.
THEOREM FormattersArePresent == Spec => []FormattersPresent
<1>1. Spec => []PresentInv
  BY PresentInit, PresentStep, Invariance, PTL DEF Spec
<1> QED BY <1>1, PTL DEF PresentInv

-----------------------------------------------------------------------------
(* Formatters are kept *)

\* What OwnFormatterKept rests on: addAppender passes a formatter on only to
\* appenders it found without one, and they have none of their own by then
\* unless they were given it since.
OwnInv ==
  /\ OwnFormatterKept
  /\ \A a \in Appenders : m_have_formatter[a] <=> own[a] # NoFormatter
  /\ \A t \in Threads :
       pc[t] = "add" =>
         /\ rest[t] \in {<<>>, <<obj[t]>>}
         /\ rest[t] # <<>> /\ obj[t] \notin raced => ~m_have_formatter[obj[t]]

LEMMA OwnInit == Init => OwnInv
  BY LoggerAssumption DEF Init, OwnInv, OwnFormatterKept

LEMMA OwnStep == IInv /\ OwnInv /\ [Next]_vars => OwnInv'
<1> SUFFICES ASSUME IInv, OwnInv, [Next]_vars PROVE OwnInv'
  OBVIOUS
<1> USE LoggerAssumption DEF shared, levels, formats, frames
<1>b. \A t \in Threads : pc[t] = "add" => at[t] \in Loggers /\ obj[t] \in Appenders
  BY DEF IInv, TypeOK, LockInv
<1>c. ASSUME UNCHANGED formats,
             \A t \in Threads :
               pc'[t] = "add" => pc[t] = "add" /\ rest'[t] = rest[t] /\ obj'[t] = obj[t]
      PROVE  OwnInv'
  BY <1>c DEF OwnInv, OwnFormatterKept
<1>1. ASSUME NEW t \in Threads, NEW l \in Loggers, NEW e \in Levels, LogStatement(t, l, e)
      PROVE  OwnInv'
  BY <1>1, <1>c DEF LogStatement, Start, IInv, TypeOK
<1>2. ASSUME NEW t \in Threads, LogCall(t)
      PROVE  OwnInv'
  BY <1>2, <1>c DEF LogCall, Under, IInv, TypeOK
<1>3. ASSUME NEW t \in Threads, Enter(t)
      PROVE  OwnInv'
  BY <1>3, <1>c DEF Enter, Under, IInv, TypeOK
<1>4. ASSUME NEW t \in Threads, Fallback(t)
      PROVE  OwnInv'
  BY <1>4, <1>c DEF Fallback, Under, IInv, TypeOK
<1>5. ASSUME NEW t \in Threads, Output(t)
      PROVE  OwnInv'
  BY <1>5, <1>c DEF Output, Under, IInv, TypeOK
<1>6. ASSUME NEW t \in Threads, Leave(t)
      PROVE  OwnInv'
  BY <1>6, <1>c DEF Leave, Under, Return, IInv, TypeOK
<1>7. ASSUME NEW t \in Threads, NEW l \in Loggers, NEW a \in Appenders, AddLock(t, l, a)
      PROVE  OwnInv'
  <2>1. /\ UNCHANGED formats
        /\ pc' = [pc EXCEPT ![t] = "add"] /\ obj' = [obj EXCEPT ![t] = a]
        /\ rest' = [rest EXCEPT ![t] = IF a_formatter[a] = NoFormatter THEN <<a>> ELSE <<>>]
    BY <1>7 DEF AddLock, Take, Start
  <2>2. a \notin raced /\ a_formatter[a] = NoFormatter => ~m_have_formatter[a]
    BY DEF OwnInv, OwnFormatterKept
  <2> QED BY <2>1, <2>2 DEF OwnInv, OwnFormatterKept, IInv, TypeOK
<1>8. ASSUME NEW t \in Threads, AddFinish(t)
      PROVE  OwnInv'
  <2>1. /\ UNCHANGED <<m_have_formatter, own, raced>>
        /\ pc' = [pc EXCEPT ![t] = "idle"] /\ obj' = [obj EXCEPT ![t] = NoAppender]
        /\ rest' = [rest EXCEPT ![t] = <<>>]
    BY <1>8 DEF AddFinish, Return
  <2>2. ASSUME NEW a \in Appenders \ raced, m_have_formatter[a]
        PROVE  a_formatter'[a] = a_formatter[a]
    <3>1. rest[t] # <<a>>
      BY <1>8, <2>2 DEF AddFinish, Under, OwnInv
    <3> QED BY <1>8, <3>1 DEF AddFinish
  <2>3. OwnFormatterKept'
    BY <2>1, <2>2 DEF OwnInv, OwnFormatterKept
  <2> QED BY <2>1, <2>3 DEF OwnInv, IInv, TypeOK
<1>9. ASSUME NEW t \in Threads, NEW l \in Loggers, NEW a \in Appenders, DelLock(t, l, a)
      PROVE  OwnInv'
  BY <1>9, <1>c DEF DelLock, Take, Start, IInv, TypeOK
<1>10. ASSUME NEW t \in Threads, DelFinish(t)
      PROVE  OwnInv'
  BY <1>10, <1>c DEF DelFinish, Under, Return, IInv, TypeOK
<1>11. ASSUME NEW t \in Threads, NEW l \in Loggers, ClearAppenders(t, l)
      PROVE  OwnInv'
  BY <1>11, <1>c DEF ClearAppenders
<1>12. ASSUME NEW t \in Threads, Stray(t)
      PROVE  OwnInv'
  BY <1>12, <1>c DEF Stray, IInv, TypeOK
<1>13. ASSUME NEW t \in Threads, NEW l \in Loggers, NEW f \in Formatters, FormatLock(t, l, f)
      PROVE  OwnInv'
  BY <1>13 DEF FormatLock, Take, Start, OwnInv, OwnFormatterKept, IInv, TypeOK
<1>14. ASSUME NEW t \in Threads, FormatOne(t)
      PROVE  OwnInv'
  <2>1. /\ UNCHANGED <<m_have_formatter, own, raced, pc, obj>>
        /\ pc[t] = "format" /\ rest' = [rest EXCEPT ![t] = Tail(@)]
    BY <1>14 DEF FormatOne, Under
  <2>2. \A a \in Appenders : m_have_formatter[a] => a_formatter'[a] = a_formatter[a]
    BY <1>14 DEF FormatOne, IInv, TypeOK
  <2> QED BY <2>1, <2>2 DEF OwnInv, OwnFormatterKept, IInv, TypeOK
<1>15. ASSUME NEW t \in Threads, FormatDone(t)
      PROVE  OwnInv'
  BY <1>15, <1>c DEF FormatDone, Under, Return, IInv, TypeOK
<1>16. ASSUME NEW t \in Threads, NEW a \in Appenders, NEW f \in Formatters, AppenderSetFormatter(t, a, f)
      PROVE  OwnInv'
  <2>1. /\ UNCHANGED <<pc, obj, rest>>
        /\ a_formatter' = [a_formatter EXCEPT ![a] = f]
        /\ m_have_formatter' = [m_have_formatter EXCEPT ![a] = f # NoFormatter]
        /\ own' = [own EXCEPT ![a] = f]
        /\ raced' = IF Overtaken(a) THEN raced \cup {a} ELSE raced \ {a}
    BY <1>16 DEF AppenderSetFormatter
  <2>2. ASSUME NEW b \in Appenders PROVE m_have_formatter'[b] <=> own'[b] # NoFormatter
    <3>1. m_have_formatter[b] <=> own[b] # NoFormatter
      BY DEF OwnInv
    <3>2. m_have_formatter'[b] = IF b = a THEN f # NoFormatter ELSE m_have_formatter[b]
      BY <2>1 DEF IInv, TypeOK
    <3>3. own'[b] = IF b = a THEN f ELSE own[b]
      BY <2>1 DEF IInv, TypeOK
    <3> QED BY <3>1, <3>2, <3>3
  <2>3. OwnFormatterKept'
    BY <2>1 DEF OwnInv, OwnFormatterKept, IInv, TypeOK
  <2>4. ASSUME NEW u \in Threads, pc[u] = "add", rest[u] # <<>>, obj[u] \notin raced'
        PROVE  ~m_have_formatter'[obj[u]]
    <3>1. CASE obj[u] = a
      <4>1. Overtaken(a)
        BY <2>4, <3>1 DEF Overtaken
      <4> QED BY <2>1, <2>4, <3>1, <4>1
    <3>2. CASE obj[u] # a
      <4>1. obj[u] \notin raced /\ obj[u] \in Appenders
        BY <1>b, <2>1, <2>4, <3>2
      <4> QED BY <2>1, <2>4, <3>2, <4>1 DEF OwnInv, IInv, TypeOK
    <3> QED BY <3>1, <3>2
  <2> QED BY <2>1, <2>2, <2>3, <2>4 DEF OwnInv
<1>17. CASE UNCHANGED <<formats, frames>>
  BY <1>17, <1>c
<1> QED
  BY <1>1, <1>2, <1>3, <1>4, <1>5, <1>6, <1>7, <1>8, <1>9, <1>10, <1>11, <1>12, <1>13,
     <1>14, <1>15, <1>16, <1>17
  DEF Next, ClearTogether, SetLevel, AppenderSetLevel, vars

\* An appender keeps the formatter it was given itself, however many loggers
\* share it, whatever setFormatter and addAppender of theirs do meanwhile; only
\* one given while an addAppender is between its test and its copy may go.
THEOREM OwnFormattersAreKept == Spec => []OwnFormatterKept
<1>1. Spec => []OwnInv
  BY OwnInit, OwnStep, Invariance, PTL DEF Spec
<1> QED BY <1>1, PTL DEF OwnInv

-----------------------------------------------------------------------------
(* Careful appenders *)

\* What FormatterInherited rests on: a careful appender belongs to one logger,
\* and addAppender passes a formatter on to it exactly when it has none.
HomesAgree == \A l \in Loggers : \A a \in ToSet(m_appenders[l]) \cap Careful : home[a] = l

OwnAgrees == \A a \in Careful : home[a] = NoLogger => a_formatter[a] = own[a]

AddAgrees(t) ==
  pc[t] = "add" /\ obj[t] \in Careful =>
    /\ home[obj[t]] = at[t]
    /\ rest[t] = IF m_have_formatter[obj[t]] THEN <<>> ELSE <<obj[t]>>

FormatAgrees(t) ==
  pc[t] = "format" =>
    /\ \A a \in ToSet(rest[t]) \cap Careful : home[a] = at[t]
    /\ t \in torn => m_appenders[at[t]] = <<>>

CarefulInv ==
  /\ raced \cap Careful = {}
  /\ HomesAgree
  /\ OwnAgrees
  /\ \A t \in Threads : AddAgrees(t) /\ FormatAgrees(t)

CarefulAll == PresentInv /\ OwnInv /\ CarefulInv /\ FormatterInherited

LEMMA CarefulNotRaced ==
  ASSUME IInv, CarefulInv, [Next]_vars PROVE (raced \cap Careful = {})'
<1> USE LoggerAssumption DEF shared, formats
<1>1. CASE UNCHANGED raced
  BY <1>1 DEF CarefulInv
<1>2. ASSUME NEW t \in Threads, NEW a \in Appenders, NEW f \in Formatters, AppenderSetFormatter(t, a, f)
      PROVE  (raced \cap Careful = {})'
  <2>1. CASE a \in Careful
    <3>1. home[a] = NoLogger
      BY <1>2, <2>1 DEF AppenderSetFormatter
    <3>2. \A u \in Threads : pc[u] = "add" => at[u] # NoLogger
      BY DEF IInv, LockInv
    <3>3. ~ Overtaken(a)
      BY <2>1, <3>1, <3>2 DEF Overtaken, CarefulInv, AddAgrees
    <3> QED BY <1>2, <3>3 DEF AppenderSetFormatter, CarefulInv
  <2>2. CASE a \notin Careful
    BY <1>2, <2>2 DEF AppenderSetFormatter, CarefulInv
  <2> QED BY <2>1, <2>2
<1>3. ASSUME NEW t \in Threads,
             LogCall(t) \/ Enter(t) \/ Fallback(t) \/ Output(t) \/ Leave(t) \/ AddFinish(t)
               \/ DelFinish(t) \/ Stray(t) \/ FormatOne(t) \/ FormatDone(t)
      PROVE  UNCHANGED raced
  BY <1>3 DEF LogCall, Enter, Fallback, Output, Leave, AddFinish, DelFinish, Stray, FormatOne,
     FormatDone
<1>4. ASSUME NEW t \in Threads, NEW l \in Loggers,
             \/ \E e \in Levels : LogStatement(t, l, e) \/ SetLevel(t, l, e)
             \/ \E a \in Appenders : AddLock(t, l, a) \/ DelLock(t, l, a)
             \/ \E u \in Threads : ClearAppenders(t, l) \/ ClearTogether(t, u, l)
             \/ \E f \in Formatters : FormatLock(t, l, f)
      PROVE  UNCHANGED raced
  BY <1>4 DEF LogStatement, SetLevel, AddLock, DelLock, ClearAppenders, ClearTogether, FormatLock
<1>5. ASSUME NEW t \in Threads, NEW a \in Appenders, NEW v \in Levels, AppenderSetLevel(t, a, v)
      PROVE  UNCHANGED raced
  BY <1>5 DEF AppenderSetLevel
<1> QED BY <1>1, <1>2, <1>3, <1>4, <1>5 DEF Next, vars

LEMMA CarefulInit == Init => CarefulAll
  BY PresentInit, OwnInit, ToSetEmpty DEF Init, CarefulAll, CarefulInv, HomesAgree,
     OwnAgrees, AddAgrees, FormatAgrees, FormatterInherited, LoggerAssumption

LEMMA CarefulStep == IInv /\ CarefulAll /\ [Next]_vars => CarefulAll'
<1> DEFINE Calls == \A t \in Threads : AddAgrees(t) /\ FormatAgrees(t)
           Rest == HomesAgree /\ OwnAgrees /\ Calls /\ FormatterInherited
<1> SUFFICES ASSUME IInv, CarefulAll, [Next]_vars PROVE CarefulAll'
  OBVIOUS
<1>j. (raced \cap Careful = {})'
  BY CarefulNotRaced DEF CarefulAll
<1> SUFFICES Rest'
  BY <1>j, PresentStep, OwnStep DEF CarefulAll, CarefulInv
<1> USE LoggerAssumption, ToSetEmpty DEF shared, levels, formats, frames
<1>a. \A l \in Loggers : m_appenders[l] \in Seq(Appenders) /\ ToSet(m_appenders[l]) \subseteq Appenders
  BY DEF IInv, TypeOK, ToSet
<1>b. \A t \in Threads : pc[t] \in {"list", "add", "del", "format"} => at[t] \in Loggers
  BY DEF IInv, TypeOK, LockInv
<1>e. \A t \in Threads : pc[t] \in {"list", "add", "del", "format"} => owner[at[t]] = t
  BY <1>b DEF IInv, TypeOK, LockInv, Holds
<1>f. \A t \in Threads : pc[t] = "add" => obj[t] \in Appenders
  BY DEF IInv, TypeOK, LockInv
<1>c. Rest /\ \A a \in Appenders : m_have_formatter[a] <=> own[a] # NoFormatter
  BY DEF CarefulAll, CarefulInv, OwnInv
<1>h. \A t \in Threads : pc[t] = "add" => rest[t] \in {<<>>, <<obj[t]>>}
  BY DEF CarefulAll, OwnInv
<1>i. Careful \subseteq Appenders
  OBVIOUS
\* An appender that a step leaves attached, with its formatter and its logger's.
<1>g. ASSUME UNCHANGED m_have_formatter,
             \A u \in Threads : pc[u] = "format" =>
               pc'[u] = pc[u] /\ at'[u] = at[u] /\ rest'[u] = rest[u],
             NEW k \in Loggers, NEW a \in ToSet(m_appenders[k]) \cap Careful,
             a_formatter'[a] = a_formatter[a], m_formatter'[k] = m_formatter[k]
      PROVE  \/ m_have_formatter'[a]
             \/ a_formatter'[a] = m_formatter'[k]
             \/ \E u \in Threads : pc'[u] = "format" /\ at'[u] = k /\ a \in ToSet(rest'[u])
  <2>1. CASE \E u \in Threads : pc[u] = "format" /\ at[u] = k /\ a \in ToSet(rest[u])
    BY <1>g, <2>1
  <2>2. CASE m_have_formatter[a] \/ a_formatter[a] = m_formatter[k]
    BY <1>g, <2>2
  <2> QED BY <1>c, <2>1, <2>2 DEF FormatterInherited
\* A step that changes no list, no formatter and no call of addAppender or
\* setFormatter; it may end a setFormatter that has reached every appender.
<1>d. ASSUME UNCHANGED <<m_appenders, m_formatter, a_formatter, m_have_formatter, own, home>>,
             \A u \in Threads :
               /\ pc'[u] \in {"add", "format"} =>
                    /\ pc'[u] = pc[u] /\ at'[u] = at[u] /\ obj'[u] = obj[u]
                    /\ rest'[u] = rest[u] /\ (u \in torn' => u \in torn)
               /\ pc[u] = "format" => pc'[u] = "format" \/ rest[u] = <<>>
      PROVE  Rest'
  <2>1. (HomesAgree /\ OwnAgrees /\ Calls)'
    BY <1>c, <1>d DEF HomesAgree, OwnAgrees, AddAgrees, FormatAgrees
  <2>2. FormatterInherited'
    BY <1>c, <1>d DEF FormatterInherited
  <2> QED BY <2>1, <2>2
<1>1. ASSUME NEW t \in Threads, NEW l \in Loggers, NEW e \in Levels, LogStatement(t, l, e)
      PROVE  Rest'
  BY <1>1, <1>d DEF LogStatement, Start, IInv, TypeOK
<1>2. ASSUME NEW t \in Threads, LogCall(t)
      PROVE  Rest'
  BY <1>2, <1>d DEF LogCall, Under, IInv, TypeOK
<1>3. ASSUME NEW t \in Threads, Enter(t)
      PROVE  Rest'
  BY <1>3, <1>d DEF Enter, Under, IInv, TypeOK
<1>4. ASSUME NEW t \in Threads, Fallback(t)
      PROVE  Rest'
  BY <1>4, <1>d DEF Fallback, Under, IInv, TypeOK
<1>5. ASSUME NEW t \in Threads, Output(t)
      PROVE  Rest'
  BY <1>5, <1>d DEF Output, Under, IInv, TypeOK
<1>6. ASSUME NEW t \in Threads, Leave(t)
      PROVE  Rest'
  BY <1>6, <1>d DEF Leave, Under, Return, IInv, TypeOK
<1>7. ASSUME NEW t \in Threads, NEW l \in Loggers, NEW a \in Appenders, AddLock(t, l, a)
      PROVE  Rest'
  <2>1. /\ a \in Careful => home[a] = NoLogger
        /\ home' = [home EXCEPT ![a] = IF a \in Careful THEN l ELSE @]
    BY <1>7 DEF AddLock
  <2>2. /\ UNCHANGED <<m_appenders, m_formatter, a_formatter, m_have_formatter, own, torn>>
        /\ pc[t] = "idle" /\ pc' = [pc EXCEPT ![t] = "add"] /\ at' = [at EXCEPT ![t] = l]
        /\ obj' = [obj EXCEPT ![t] = a]
        /\ rest' = [rest EXCEPT ![t] = IF a_formatter[a] = NoFormatter THEN <<a>> ELSE <<>>]
    BY <1>7 DEF AddLock, Take, Start
  <2>3. HomesAgree'
    BY <1>c, <2>1, <2>2 DEF HomesAgree, IInv, TypeOK
  <2>4. OwnAgrees'
    BY <1>c, <2>1, <2>2 DEF OwnAgrees, IInv, TypeOK
  <2>5. AddAgrees(t)' /\ FormatAgrees(t)'
    BY <1>c, <2>1, <2>2 DEF OwnAgrees, AddAgrees, FormatAgrees, IInv, TypeOK
  <2>6. ASSUME NEW u \in Threads, u # t PROVE AddAgrees(u)' /\ FormatAgrees(u)'
    BY <1>b, <1>f, <1>c, <2>1, <2>2, <2>6 DEF AddAgrees, FormatAgrees, IInv, TypeOK
  <2>7. FormatterInherited'
    <3>1. \A u \in Threads : pc[u] = "format" =>
            pc'[u] = pc[u] /\ at'[u] = at[u] /\ rest'[u] = rest[u]
      BY <2>2 DEF IInv, TypeOK
    <3> QED BY <1>g, <2>2, <3>1 DEF FormatterInherited
  <2> QED BY <2>3, <2>4, <2>5, <2>6, <2>7
<1>8. ASSUME NEW t \in Threads, AddFinish(t)
      PROVE  Rest'
  <2> DEFINE l == at[t]
             x == obj[t]
  <2>1. /\ l \in Loggers /\ x \in Appenders /\ pc[t] = "add"
        /\ x \in Careful => home[x] = l
    BY <1>8, <1>b, <1>c, <1>f DEF AddFinish, Under, AddAgrees
  <2>2. /\ UNCHANGED <<m_formatter, m_have_formatter, own, home>>
        /\ pc' = [pc EXCEPT ![t] = "idle"] /\ at' = [at EXCEPT ![t] = NoLogger]
        /\ torn' = torn \ {t} /\ obj' = [obj EXCEPT ![t] = NoAppender]
        /\ rest' = [rest EXCEPT ![t] = <<>>]
    BY <1>8 DEF AddFinish, Return
  <2>3. /\ \A a \in Appenders \ {x} : a_formatter'[a] = a_formatter[a]
        /\ x \in Careful =>
             a_formatter'[x] = IF m_have_formatter[x] THEN a_formatter[x] ELSE m_formatter[l]
    <3>1. a_formatter' = [a \in Appenders |-> IF rest[t] = <<a>> THEN m_formatter[l]
                                                              ELSE a_formatter[a]]
      BY <1>8 DEF AddFinish
    <3>2. \A a \in Appenders \ {x} : rest[t] # <<a>>
      BY <1>h, <2>1
    <3>3. ASSUME x \in Careful PROVE rest[t] = <<x>> <=> ~m_have_formatter[x]
      <4>1. rest[t] = IF m_have_formatter[x] THEN <<>> ELSE <<x>>
        BY <1>c, <2>1, <3>3 DEF AddAgrees
      <4>2. <<>> # <<x>>
        OBVIOUS
      <4> QED BY <4>1, <4>2, Zenon
    <3> QED BY <2>1, <3>1, <3>2, <3>3
  <2>4. /\ ToSet(m_appenders'[l]) \subseteq ToSet(m_appenders[l]) \cup {x}
        /\ \A k \in Loggers \ {l} : m_appenders'[k] = m_appenders[k]
    <3>1. CASE m_appenders' = [m_appenders EXCEPT ![l] = Append(@, x)]
      <4>1. ToSet(Append(m_appenders[l], x)) \subseteq ToSet(m_appenders[l]) \cup {x}
        BY <1>a, <2>1, ToSetAppend
      <4> QED BY <2>1, <3>1, <4>1 DEF IInv, TypeOK
    <3>2. CASE UNCHANGED m_appenders
      BY <3>2
    <3> QED BY <1>8, <3>1, <3>2 DEF AddFinish
  <2> HIDE DEF l, x
  <2>5. HomesAgree'
    BY <1>c, <2>1, <2>2, <2>4 DEF HomesAgree
  <2>6. OwnAgrees'
    BY <1>c, <1>i, <2>1, <2>2, <2>3 DEF OwnAgrees, IInv, TypeOK
  <2>7. ASSUME NEW u \in Threads PROVE AddAgrees(u)' /\ FormatAgrees(u)'
    <3>1. CASE u = t
      BY <2>2, <3>1 DEF AddAgrees, FormatAgrees, IInv, TypeOK
    <3>2. CASE u # t
      <4>1. pc[u] = "format" => at[u] \in Loggers \ {l}
        BY <1>b, <1>e, <2>1, <3>2 DEF l
      <4> QED BY <1>c, <2>2, <2>4, <3>2, <4>1 DEF AddAgrees, FormatAgrees, IInv, TypeOK
    <3> QED BY <3>1, <3>2
  <2>8. FormatterInherited'
    <3> SUFFICES ASSUME NEW k \in Loggers, NEW a \in ToSet(m_appenders'[k]) \cap Careful,
                        ~m_have_formatter[a]
                 PROVE  \/ a_formatter'[a] = m_formatter[k]
                        \/ \E u \in Threads : pc'[u] = "format" /\ at'[u] = k /\ a \in ToSet(rest'[u])
      BY <2>2 DEF FormatterInherited
    <3>1. CASE a = x
      <4>1. k = l
        BY <2>1, <2>2, <2>5, <3>1 DEF HomesAgree
      <4> QED BY <2>1, <2>3, <3>1, <4>1 DEF IInv, TypeOK
    <3>2. CASE a # x
      <4>1. a \in ToSet(m_appenders[k]) /\ a \in Appenders
        BY <1>a, <2>1, <2>4, <3>2
      <4>2. a_formatter'[a] = a_formatter[a]
        BY <2>1, <2>3, <3>2, <4>1 DEF IInv, TypeOK
      <4>3. \A u \in Threads : pc[u] = "format" =>
              pc'[u] = pc[u] /\ at'[u] = at[u] /\ rest'[u] = rest[u]
        BY <2>1, <2>2 DEF IInv, TypeOK
      <4> QED BY <1>g, <2>2, <4>1, <4>2, <4>3
    <3> QED BY <3>1, <3>2
  <2> QED BY <2>5, <2>6, <2>7, <2>8
<1>9. ASSUME NEW t \in Threads, NEW l \in Loggers, NEW a \in Appenders, DelLock(t, l, a)
      PROVE  Rest'
  BY <1>9, <1>d DEF DelLock, Take, Start, IInv, TypeOK
<1>10. ASSUME NEW t \in Threads, DelFinish(t)
      PROVE  Rest'
  <2>1. /\ UNCHANGED <<m_formatter, a_formatter, m_have_formatter, own, home, rest>>
        /\ pc[t] = "del" /\ pc' = [pc EXCEPT ![t] = "idle"]
        /\ at' = [at EXCEPT ![t] = NoLogger]
        /\ torn' = torn \ {t} /\ obj' = [obj EXCEPT ![t] = NoAppender]
    BY <1>10 DEF DelFinish, Under, Return
  <2>2. at[t] \in Loggers
    BY <1>b, <2>1
  <2>3. /\ \A k \in Loggers : ToSet(m_appenders'[k]) \subseteq ToSet(m_appenders[k])
        /\ \A k \in Loggers \ {at[t]} : m_appenders'[k] = m_appenders[k]
    <3>1. CASE UNCHANGED m_appenders
      BY <3>1
    <3>2. CASE \E i \in 1 .. Len(m_appenders[at[t]]) :
                 m_appenders' = [m_appenders EXCEPT ![at[t]] = RemoveAt(m_appenders[at[t]], i)]
      BY <1>a, <2>2, <3>2, RemoveAtFacts DEF IInv, TypeOK
    <3> QED BY <1>10, <3>1, <3>2 DEF DelFinish
  <2>4. HomesAgree' /\ OwnAgrees'
    BY <1>c, <2>1, <2>3 DEF HomesAgree, OwnAgrees
  <2>5. ASSUME NEW u \in Threads PROVE AddAgrees(u)' /\ FormatAgrees(u)'
    <3>1. CASE u = t
      BY <2>1, <3>1 DEF AddAgrees, FormatAgrees, IInv, TypeOK
    <3>2. CASE u # t
      <4>1. pc[u] = "format" => at[u] \in Loggers \ {at[t]}
        BY <1>b, <1>e, <2>1, <3>2
      <4> QED BY <1>c, <2>1, <2>3, <3>2, <4>1 DEF AddAgrees, FormatAgrees, IInv, TypeOK
    <3> QED BY <3>1, <3>2
  <2>6. FormatterInherited'
    <3>1. \A u \in Threads : pc[u] = "format" =>
            pc'[u] = pc[u] /\ at'[u] = at[u] /\ rest'[u] = rest[u]
      BY <2>1 DEF IInv, TypeOK
    <3> QED BY <1>g, <2>1, <2>3, <3>1 DEF FormatterInherited
  <2> QED BY <2>4, <2>5, <2>6
<1>11. ASSUME NEW t \in Threads, NEW l \in Loggers, ClearAppenders(t, l)
      PROVE  Rest'
  <2>1. /\ UNCHANGED <<m_formatter, a_formatter, m_have_formatter, own, home, pc, at, obj, rest>>
        /\ m_appenders' = [m_appenders EXCEPT ![l] = <<>>]
        /\ torn' = torn \cup {u \in Threads : Inside(u, l)}
    BY <1>11 DEF ClearAppenders
  <2>2. \A k \in Loggers : m_appenders'[k] = IF k = l THEN <<>> ELSE m_appenders[k]
    BY <2>1 DEF IInv, TypeOK
  <2>3. HomesAgree' /\ OwnAgrees'
    BY <1>c, <2>1, <2>2 DEF HomesAgree, OwnAgrees
  <2>4. Calls'
    BY <1>b, <1>c, <2>1, <2>2 DEF AddAgrees, FormatAgrees, Inside
  <2>5. FormatterInherited'
    BY <1>c, <2>1, <2>2 DEF FormatterInherited
  <2> QED BY <2>3, <2>4, <2>5
<1>12. ASSUME NEW t \in Threads, Stray(t)
      PROVE  Rest'
  <2>1. /\ UNCHANGED <<m_appenders, m_formatter, a_formatter, m_have_formatter, own, home,
                       pc, at, obj, torn>>
        /\ t \in torn
        /\ \/ UNCHANGED rest
           \/ pc[t] \in {"list", "format"} /\ rest' = [rest EXCEPT ![t] = <<>>]
    BY <1>12 DEF Stray
  <2>2. HomesAgree' /\ OwnAgrees'
    BY <1>c, <2>1 DEF HomesAgree, OwnAgrees
  <2>3. ASSUME NEW u \in Threads PROVE AddAgrees(u)' /\ FormatAgrees(u)'
    <3>1. pc[u] = "add" => rest'[u] = rest[u]
      BY <2>1 DEF IInv, TypeOK
    <3>2. rest'[u] \in {rest[u], <<>>}
      BY <2>1 DEF IInv, TypeOK
    <3>3. AddAgrees(u)'
      BY <1>c, <2>1, <3>1 DEF AddAgrees
    <3>4. FormatAgrees(u)'
      BY <1>c, <2>1, <3>2 DEF FormatAgrees
    <3> QED BY <3>3, <3>4
  <2>4. FormatterInherited'
    <3> SUFFICES ASSUME NEW l \in Loggers, NEW a \in ToSet(m_appenders[l]) \cap Careful,
                        ~m_have_formatter[a], a_formatter[a] # m_formatter[l]
                 PROVE  \E u \in Threads : pc[u] = "format" /\ at[u] = l /\ a \in ToSet(rest'[u])
      BY <2>1 DEF FormatterInherited
    <3>1. PICK u \in Threads : pc[u] = "format" /\ at[u] = l /\ a \in ToSet(rest[u])
      BY <1>c DEF FormatterInherited
    <3>2. u # t
      BY <1>c, <2>1, <3>1 DEF FormatAgrees
    <3> QED BY <2>1, <3>1, <3>2 DEF IInv, TypeOK
  <2> QED BY <2>2, <2>3, <2>4
<1>13. ASSUME NEW t \in Threads, NEW l \in Loggers, NEW f \in Formatters, FormatLock(t, l, f)
      PROVE  Rest'
  <2>1. /\ UNCHANGED <<m_appenders, a_formatter, m_have_formatter, own, home, obj, torn>>
        /\ m_formatter' = [m_formatter EXCEPT ![l] = f]
        /\ pc[t] = "idle" /\ pc' = [pc EXCEPT ![t] = "format"]
        /\ at' = [at EXCEPT ![t] = l]
        /\ rest' = [rest EXCEPT ![t] = m_appenders[l]]
    BY <1>13 DEF FormatLock, Take, Start
  <2>2. HomesAgree' /\ OwnAgrees'
    BY <1>c, <2>1 DEF HomesAgree, OwnAgrees
  <2>3. ASSUME NEW u \in Threads PROVE AddAgrees(u)' /\ FormatAgrees(u)'
    <3>1. CASE u = t
      <4>1. t \notin torn
        BY <2>1 DEF IInv, LockInv
      <4> QED BY <1>c, <2>1, <3>1, <4>1
                DEF HomesAgree, AddAgrees, FormatAgrees, IInv, TypeOK
    <3>2. CASE u # t
      BY <1>c, <2>1, <3>2 DEF AddAgrees, FormatAgrees, IInv, TypeOK
    <3> QED BY <3>1, <3>2
  <2>4. FormatterInherited'
    <3> SUFFICES ASSUME NEW k \in Loggers, NEW a \in ToSet(m_appenders[k]) \cap Careful,
                        ~m_have_formatter[a]
                 PROVE  \/ a_formatter[a] = m_formatter'[k]
                        \/ \E u \in Threads : pc'[u] = "format" /\ at'[u] = k /\ a \in ToSet(rest'[u])
      BY <2>1 DEF FormatterInherited
    <3>1. CASE k = l
      BY <2>1, <3>1 DEF IInv, TypeOK
    <3>2. CASE k # l
      <4>1. m_formatter'[k] = m_formatter[k] /\ a_formatter'[a] = a_formatter[a]
        BY <2>1, <3>2 DEF IInv, TypeOK
      <4>2. \A u \in Threads : pc[u] = "format" =>
              pc'[u] = pc[u] /\ at'[u] = at[u] /\ rest'[u] = rest[u]
        BY <2>1 DEF IInv, TypeOK
      <4> QED BY <1>g, <2>1, <4>1, <4>2
    <3> QED BY <3>1, <3>2
  <2> QED BY <2>2, <2>3, <2>4
<1>14. ASSUME NEW t \in Threads, FormatOne(t)
      PROVE  Rest'
  <2> DEFINE l == at[t]
             x == Head(rest[t])
  <2>1. pc[t] = "format" /\ l \in Loggers /\ rest[t] \in Seq(Appenders) /\ rest[t] # <<>>
    BY <1>14, <1>b DEF FormatOne, Under, IInv, TypeOK
  <2>2. /\ x \in Appenders /\ x \in ToSet(rest[t])
        /\ ToSet(Tail(rest[t])) \subseteq ToSet(rest[t])
        /\ ToSet(rest[t]) = {x} \cup ToSet(Tail(rest[t]))
    BY <2>1, ToSetWalk, HeadTailProperties
  <2>3. /\ UNCHANGED <<m_appenders, m_formatter, m_have_formatter, own, home, pc, at, obj, torn>>
        /\ a_formatter' = [a_formatter EXCEPT ![x] = IF m_have_formatter[x] THEN @ ELSE m_formatter[l]]
        /\ rest' = [rest EXCEPT ![t] = Tail(@)]
    BY <1>14 DEF FormatOne
  <2>4. x \in Careful => home[x] = l
    BY <1>c, <2>1, <2>2 DEF FormatAgrees
  <2> HIDE DEF l, x
  <2>5. HomesAgree' /\ OwnAgrees'
    BY <1>c, <2>1, <2>2, <2>3, <2>4
      DEF HomesAgree, OwnAgrees, IInv, TypeOK
  <2>6. Calls'
    BY <1>c, <2>1, <2>2, <2>3 DEF AddAgrees, FormatAgrees, IInv, TypeOK
  <2>7. FormatterInherited'
    <3> SUFFICES ASSUME NEW k \in Loggers, NEW a \in ToSet(m_appenders[k]) \cap Careful,
                        ~m_have_formatter[a]
                 PROVE  \/ a_formatter'[a] = m_formatter[k]
                        \/ \E u \in Threads : pc[u] = "format" /\ at[u] = k /\ a \in ToSet(rest'[u])
      BY <2>3 DEF FormatterInherited
    <3>1. CASE a = x
      <4>1. k = l
        BY <1>c, <2>4, <3>1 DEF HomesAgree
      <4> QED BY <2>2, <2>3, <3>1, <4>1 DEF IInv, TypeOK
    <3>2. CASE a # x
      <4>1. a_formatter'[a] = a_formatter[a]
        BY <1>a, <2>3, <3>2 DEF IInv, TypeOK
      <4>2. \A u \in Threads : a \in ToSet(rest[u]) => a \in ToSet(rest'[u])
        BY <2>2, <2>3, <3>2 DEF IInv, TypeOK
      <4> QED BY <1>c, <4>1, <4>2 DEF FormatterInherited
    <3> QED BY <3>1, <3>2
  <2> QED BY <2>5, <2>6, <2>7
<1>15. ASSUME NEW t \in Threads, FormatDone(t)
      PROVE  Rest'
  BY <1>15, <1>d DEF FormatDone, Under, Return, IInv, TypeOK
<1>16. ASSUME NEW t \in Threads, NEW a \in Appenders, NEW f \in Formatters, AppenderSetFormatter(t, a, f)
      PROVE  Rest'
  <2>1. /\ UNCHANGED <<m_appenders, m_formatter, home, pc, at, obj, rest, torn>>
        /\ a \in Careful => home[a] = NoLogger
        /\ a_formatter' = [a_formatter EXCEPT ![a] = f]
        /\ m_have_formatter' = [m_have_formatter EXCEPT ![a] = f # NoFormatter]
        /\ own' = [own EXCEPT ![a] = f]
    BY <1>16 DEF AppenderSetFormatter
  <2>2. \A k \in Loggers : a \notin ToSet(m_appenders[k]) \cap Careful
    BY <1>c, <2>1 DEF HomesAgree
  <2>3. HomesAgree' /\ OwnAgrees'
    BY <1>c, <2>1 DEF HomesAgree, OwnAgrees, IInv, TypeOK
  <2>4. Calls'
    BY <1>b, <1>f, <1>c, <2>1 DEF AddAgrees, FormatAgrees, IInv, TypeOK
  <2>5. FormatterInherited'
    BY <1>a, <1>c, <2>1, <2>2 DEF FormatterInherited, IInv, TypeOK
  <2> QED BY <2>3, <2>4, <2>5
<1>17. ASSUME NEW t \in Threads, NEW l \in Loggers, NEW v \in Levels, SetLevel(t, l, v)
      PROVE  Rest'
  BY <1>17, <1>d DEF SetLevel, Start, IInv, TypeOK
<1>18. ASSUME NEW t \in Threads, NEW a \in Appenders, NEW v \in Levels, AppenderSetLevel(t, a, v)
      PROVE  Rest'
  BY <1>18, <1>d DEF AppenderSetLevel, Start, IInv, TypeOK
<1>19. CASE UNCHANGED <<shared, frames>>
  BY <1>19, <1>d
<1> QED
  BY <1>1, <1>2, <1>3, <1>4, <1>5, <1>6, <1>7, <1>8, <1>9, <1>10, <1>11, <1>12, <1>13,
     <1>14, <1>15, <1>16, <1>17, <1>18, <1>19 DEF Next, ClearTogether, vars

\* addAppender and setFormatter keep every careful appender without a formatter
\* of its own on its logger's, at any moment of any interleaving, whatever is
\* done with the other appenders.
THEOREM FormattersAreInherited == Spec => []FormatterInherited
<1>1. Spec => []CarefulAll
  BY CarefulInit, CarefulStep, Invariance, PTL DEF Spec
<1> QED BY <1>1, PTL DEF CarefulAll

-----------------------------------------------------------------------------
(* Logger implements EventDelivery *)

\* What EventDelivery sees of logger l, but for its list, stays.
Stays(l) ==
  /\ Who'[l] = Who[l]
  /\ Got'[l] = Got[l]
  /\ l \in Struck' <=> l \in Struck

LEMMA AllStay ==
  ASSUME UNCHANGED m_appenders, \A l \in Loggers : Stays(l)
  PROVE  UNCHANGED Delivery!delivery
<1>1. Who' = Who
  BY DEF Stays, Who
<1>2. Got' = Got
  BY DEF Stays, Got
<1>3. Struck' = Struck
  BY DEF Stays, Struck
<1> QED BY <1>1, <1>2, <1>3 DEF Delivery!delivery

\* A step of t leaves alone what the other threads are at.
OnlyMoves(t) ==
  \A u \in Threads \ {t} :
    /\ pc'[u] = pc[u] /\ at'[u] = at[u] /\ seen'[u] = seen[u]
    /\ u \in torn' <=> u \in torn

LEMMA OthersStay ==
  ASSUME TypeOK, NEW t \in Threads, OnlyMoves(t),
         NEW l \in Loggers, owner[l] # t, owner'[l] = owner[l]
  PROVE  Stays(l)
<1>1. owner[l] = NoThread \/ owner[l] \in Threads \ {t}
  BY DEF TypeOK
<1> QED BY <1>1 DEF OnlyMoves, Stays, Who, Got, Struck, Busy, AtOwnList

\* A logger whose lock is free or serves another call is not busy.
LEMMA NotBusy ==
  ASSUME NEW l \in Loggers,
         owner[l] = NoThread \/ pc[owner[l]] \notin {"list", "fallback", "enter"}
  PROVE  Who[l] = NoThread /\ Got[l] = <<>> /\ l \notin Struck
  BY DEF Who, Got, Struck, Busy, AtOwnList

LEMMA NotBusyNext ==
  ASSUME NEW l \in Loggers,
         owner'[l] = NoThread \/ pc'[owner'[l]] \notin {"list", "fallback", "enter"}
  PROVE  Who'[l] = NoThread /\ Got'[l] = <<>> /\ l \notin Struck'
  BY DEF Who, Got, Struck, Busy, AtOwnList

\* Whose lock t holds.
LEMMA Owned ==
  ASSUME IInv, NEW t \in Threads, NEW l \in Loggers
  PROVE  /\ owner[l] = t <=> Holds(t, l)
         /\ pc[t] \in {"idle", "event"} => owner[l] # t
         /\ pc[t] \in {"add", "del", "format", "fallback"} => (owner[l] = t <=> at[t] = l)
         /\ pc[t] = "list" => owner[l] = t <=> l \in {at[t], from[t]}
         /\ pc[t] = "enter" => owner[l] = t <=> l = from[t]
  BY LoggerAssumption DEF IInv, LockInv, TypeOK, Holds

\* The next appender of a walk is the next of the list.
LEMMA WalkNext ==
  ASSUME NEW S, NEW s \in Seq(S), NEW r \in Seq(S), r # <<>>
  PROVE  Len(s) < Len(s \o r) /\ Head(r) = (s \o r)[Len(s) + 1]
  OBVIOUS

LEMMA DeliveryInit == Init => Delivery!Init
<1> SUFFICES ASSUME Init PROVE Delivery!Init
  OBVIOUS
<1>1. ASSUME NEW l \in Loggers PROVE ~Busy(l)
  BY DEF Init, Busy
<1>2. Who = [l \in Loggers |-> NoThread] /\ Got = [l \in Loggers |-> <<>>] /\ Struck = {}
  BY <1>1 DEF Who, Got, Struck, AtOwnList
<1> QED BY <1>2 DEF Init, Delivery!Init

\* A call that takes the lock for something else than an event.
LEMMA TakeStays ==
  ASSUME IInv, NEW t \in Threads, NEW k \in Loggers, NEW op \in {"add", "del", "format"},
         Take(t, k, op), UNCHANGED m_appenders
  PROVE  UNCHANGED Delivery!delivery
<1> USE DEF IInv, TypeOK
<1>1. OnlyMoves(t)
  BY DEF Take, Start, OnlyMoves
<1>2. /\ pc[t] = "idle" /\ owner[k] = NoThread /\ owner' = [owner EXCEPT ![k] = t]
      /\ pc' = [pc EXCEPT ![t] = op]
  BY DEF Take, Start, Lock
<1>3. ASSUME NEW l \in Loggers PROVE Stays(l)
  <2>1. CASE l = k
    <3>1. owner'[l] = t /\ pc'[t] \notin {"list", "fallback", "enter"}
      BY <1>2, <2>1
    <3> QED BY <1>2, <2>1, <3>1, NotBusy, NotBusyNext DEF Stays
  <2>2. CASE l # k
    BY <1>1, <1>2, <2>2, Owned, OthersStay
  <2> QED BY <2>1, <2>2
<1> QED BY <1>3, AllStay

\* A call other than a log call returns: its logger was not busy and is not.
LEMMA ReleaseStays ==
  ASSUME IInv, NEW t \in Threads, pc[t] \in {"add", "del", "format"},
         Return(t), Unlock(at[t]), UNCHANGED seen
  PROVE  /\ at[t] \in Loggers /\ Who[at[t]] = NoThread
         /\ \A l \in Loggers : Stays(l)
<1> USE DEF IInv, TypeOK
<1>1. at[t] \in Loggers
  BY DEF LockInv
<1>2. owner[at[t]] = t
  BY <1>1, Owned
<1>3. OnlyMoves(t)
  BY DEF Return, OnlyMoves
<1>4. ASSUME NEW l \in Loggers PROVE Stays(l)
  <2>1. CASE l = at[t]
    <3>1. owner'[l] = NoThread
      BY <2>1 DEF Unlock
    <3> QED BY <1>2, <2>1, <3>1, NotBusy, NotBusyNext DEF Stays
  <2>2. CASE l # at[t]
    <3>1. owner[l] # t
      BY <2>2, Owned
    <3> QED BY <1>3, <2>2, <3>1, OthersStay DEF Unlock
  <2> QED BY <2>1, <2>2
<1> QED BY <1>1, <1>2, <1>4, NotBusy

LEMMA DeliveryStep ==
  ASSUME IInv, IInv', WalkInv, [Next]_vars
  PROVE  [Delivery!Next]_(Delivery!delivery)
<1> DEFINE Quiet == UNCHANGED Delivery!delivery
<1> SUFFICES Delivery!Next \/ Quiet
  OBVIOUS
<1> USE LoggerAssumption DEF shared, levels, formats, frames
<1>a. TypeOK /\ LockInv
  BY DEF IInv
\* t holds no lock and its step takes none.
<1>b. ASSUME NEW t \in Threads, pc[t] \in {"idle", "event"}, OnlyMoves(t),
             UNCHANGED <<owner, m_appenders>>
      PROVE  Quiet
  BY <1>a, <1>b, Owned, OthersStay, AllStay
\* What EventDelivery looks at stays.
<1>c. ASSUME UNCHANGED <<owner, pc, at, seen, torn, m_appenders>>
      PROVE  Quiet
  <2>1. \A l \in Loggers : Stays(l)
    BY <1>c DEF Stays, Who, Got, Struck, Busy, AtOwnList
  <2> QED BY <1>c, <2>1, AllStay
<1>1. ASSUME NEW t \in Threads, NEW l \in Loggers, NEW e \in Levels, LogStatement(t, l, e)
      PROVE  Quiet
  BY <1>1, <1>a, <1>b DEF LogStatement, Start, OnlyMoves, TypeOK
<1>2. ASSUME NEW t \in Threads, LogCall(t) PROVE Quiet
  BY <1>2, <1>a, <1>b DEF LogCall, Under, OnlyMoves, TypeOK
<1>3. ASSUME NEW t \in Threads, Enter(t) PROVE Delivery!Next
  <2> DEFINE l == at[t]
  <2>1. /\ l \in Loggers /\ pc[t] = "enter" /\ owner[l] = NoThread
        /\ owner' = [owner EXCEPT ![l] = t]
        /\ at' = at /\ torn' = torn /\ m_appenders' = m_appenders
        /\ pc'[t] \in {"list", "fallback"} /\ seen'[t] = <<>> /\ t \notin torn
    <3>1. pc[t] = "enter" /\ l \in Loggers /\ t \notin torn
      <4>1. pc[t] = "enter"
        BY <1>3 DEF Enter, Under
      <4>2. l \in Loggers \cup {NoLogger}
        BY <1>a DEF TypeOK
      <4> QED BY <1>a, <4>1, <4>2 DEF LockInv
    <3> QED BY <1>3, <1>a, <3>1 DEF Enter, Lock, TypeOK
  <2>2. OnlyMoves(t)
    BY <1>3, <1>a DEF Enter, OnlyMoves, TypeOK
  <2>3. Who[l] = NoThread /\ Got[l] = <<>> /\ l \notin Struck
    BY <2>1, NotBusy
  <2>4. Who'[l] = t /\ Got'[l] = <<>> /\ l \notin Struck'
    BY <2>1, <1>a DEF Who, Got, Struck, Busy, AtOwnList, TypeOK
  <2>5. ASSUME NEW k \in Loggers \ {l} PROVE Stays(k)
    <3>1. owner'[k] = owner[k]
      BY <2>1, <1>a DEF TypeOK
    <3>2. CASE owner[k] # t
      BY <1>a, <2>2, <3>1, <3>2, OthersStay
    <3>3. CASE owner[k] = t
      <4>1. at[t] # k /\ pc'[t] \in {"list", "fallback"}
        BY <2>1
      <4> QED BY <2>1, <3>1, <3>3, <4>1 DEF Stays, Who, Got, Struck, Busy, AtOwnList
    <3> QED BY <3>2, <3>3
  <2>6. ASSUME NEW k \in Loggers, Who[k] = t PROVE l = Root /\ m_appenders[k] = <<>>
    <3>1. owner[k] = t
      BY <2>6 DEF Who
    <3>2. from[t] = k
      BY <2>1, <3>1, Owned
    <3> QED BY <3>2, <1>a DEF LockInv, WalkInv, RootStandsIn
  <2>7. Who' = [Who EXCEPT ![l] = t] /\ Got' = Got /\ Struck' = Struck
    BY <2>1, <2>3, <2>4, <2>5 DEF Stays, Who, Got, Struck
  <2>8. Delivery!Begin(t, l)
    BY <2>1, <2>3, <2>6, <2>7 DEF Delivery!Begin
  <2> QED BY <2>1, <2>8 DEF Delivery!Next
<1>4. ASSUME NEW t \in Threads, Fallback(t) PROVE Quiet
  <2> DEFINE l == at[t]
  <2>1. /\ l \in Loggers /\ l # Root /\ pc[t] = "fallback" /\ owner[l] = t /\ owner' = owner
        /\ torn' = torn /\ t \notin torn /\ seen' = seen /\ seen[t] = <<>>
        /\ \/ pc'[t] = "list" /\ at'[t] = l
           \/ pc'[t] = "enter" /\ at'[t] = Root
    <3>1. pc[t] = "fallback"
      BY <1>4 DEF Fallback, Under
    <3>2. l \in Loggers /\ l # Root /\ t \notin torn /\ seen[t] = <<>>
      <4>1. t \notin torn /\ l # NoLogger /\ l # Root
        BY <3>1, <1>a DEF LockInv
      <4>2. seen[t] = <<>>
        BY <3>1 DEF WalkInv
      <4> QED BY <1>a, <4>1, <4>2 DEF TypeOK
    <3>3. owner[l] = t
      BY <3>1, <3>2, Owned
    <3> QED BY <1>4, <1>a, <3>1, <3>2, <3>3 DEF Fallback, TypeOK
  <2>2. OnlyMoves(t)
    BY <1>4, <1>a DEF Fallback, OnlyMoves, TypeOK
  <2>3. ASSUME NEW k \in Loggers PROVE Stays(k)
    <3>1. CASE k = l
      BY <2>1, <3>1 DEF Stays, Who, Got, Struck, Busy, AtOwnList
    <3>2. CASE k # l
      BY <1>a, <2>1, <2>2, <3>2, Owned, OthersStay
    <3> QED BY <3>1, <3>2
  <2> QED BY <1>4, <2>3, AllStay DEF Fallback
<1>5. ASSUME NEW t \in Threads, Output(t) PROVE Delivery!Next
  <2> DEFINE l == at[t]
             a == Head(rest[t])
  <2>1. pc[t] = "list" /\ l \in Loggers /\ rest[t] \in Seq(Appenders) /\ rest[t] # <<>>
    BY <1>5, <1>a DEF Output, Under, LockInv, TypeOK
  <2>2. owner[l] = t /\ Who[l] = t /\ Got[l] = seen[t]
    BY <2>1, <1>a, Owned DEF Who, Got, Busy, AtOwnList
  <2>3. a \in Appenders
    BY <2>1
  <2>4. /\ seen' = [seen EXCEPT ![t] = Append(seen[t], a)]
        /\ UNCHANGED <<owner, pc, at, torn, m_appenders>>
    BY <1>5 DEF Output
  <2>5. OnlyMoves(t)
    BY <2>4 DEF OnlyMoves
  <2>6. ASSUME NEW k \in Loggers \ {l} PROVE Stays(k)
    BY <2>4 DEF Stays, Who, Got, Struck, Busy, AtOwnList
  <2>7. Got' = [Got EXCEPT ![l] = Append(@, a)]
    <3>1. Got'[l] = Append(seen[t], a)
      BY <1>a, <2>1, <2>2, <2>4 DEF Got, Busy, AtOwnList, TypeOK
    <3> QED BY <2>2, <2>6, <3>1 DEF Got, Stays
  <2>8. Who' = Who /\ Struck' = Struck
    BY <2>4 DEF Who, Struck, Busy, AtOwnList
  <2>9. \/ Len(seen[t]) < Len(m_appenders[l]) /\ a = m_appenders[l][Len(seen[t]) + 1]
        \/ l \in Struck
    <3>1. CASE t \in torn
      BY <2>1, <2>2, <3>1 DEF Struck, AtOwnList, Busy
    <3>2. CASE t \notin torn
      <4>1. seen[t] \o rest[t] = m_appenders[l] /\ seen[t] \in Seq(Appenders)
        BY <1>a, <2>1, <3>2 DEF WalkInv, WalkIsWhole, TypeOK
      <4> QED BY <2>1, <4>1, WalkNext
    <3> QED BY <3>1, <3>2
  <2>10. Delivery!Hand(l, a)
    BY <2>2, <2>4, <2>7, <2>8, <2>9 DEF Delivery!Hand
  <2> QED BY <2>1, <2>3, <2>10 DEF Delivery!Next
<1>6. ASSUME NEW t \in Threads, Leave(t) PROVE Delivery!Next
  <2> DEFINE l == at[t]
  <2>1. pc[t] = "list" /\ l \in Loggers /\ rest[t] = <<>> /\ seen[t] \in Seq(Appenders)
    BY <1>6, <1>a DEF Leave, Under, LockInv, TypeOK
  <2>2. owner[l] = t /\ Who[l] = t /\ Got[l] = seen[t]
    BY <2>1, <1>a, Owned DEF Who, Got, Busy, AtOwnList
  <2>3. /\ owner' = [owner EXCEPT ![l] = NoThread] /\ m_appenders' = m_appenders
        /\ seen' = [seen EXCEPT ![t] = <<>>] /\ torn' = torn \ {t}
    BY <1>6 DEF Leave, Unlock, Return
  <2>4. OnlyMoves(t)
    BY <1>6, <1>a, <2>3 DEF Leave, Return, OnlyMoves, TypeOK
  <2>5. Who'[l] = NoThread /\ Got'[l] = <<>> /\ l \notin Struck'
    BY <2>1, <2>3, <1>a, NotBusyNext DEF TypeOK
  <2>6. ASSUME NEW k \in Loggers \ {l} PROVE Stays(k)
    <3>1. owner'[k] = owner[k]
      BY <2>3
    <3>2. CASE owner[k] # t
      BY <1>a, <2>4, <3>1, <3>2, OthersStay
    <3>3. CASE owner[k] = t
      <4>1. from[t] = k
        BY <2>1, <3>3, Owned
      <4>2. pc'[t] = "list" /\ at'[t] = k
        <5>1. from[t] # NoLogger
          BY <4>1, LoggerAssumption
        <5>2. pc' = pc /\ at' = [at EXCEPT ![t] = from[t]]
          BY <1>6, <5>1 DEF Leave
        <5> QED BY <1>a, <2>1, <4>1, <5>2 DEF TypeOK
      <4>3. seen'[t] = <<>> /\ t \notin torn'
        BY <2>3, <1>a DEF TypeOK
      <4> QED BY <2>1, <3>1, <3>3, <4>2, <4>3 DEF Stays, Who, Got, Struck, Busy, AtOwnList
    <3> QED BY <3>2, <3>3
  <2>7. /\ Who' = [Who EXCEPT ![l] = NoThread] /\ Got' = [Got EXCEPT ![l] = <<>>]
        /\ Struck' = Struck \ {l}
    <3>1. Who' = [Who EXCEPT ![l] = NoThread]
      BY <2>5, <2>6 DEF Stays, Who
    <3>2. Got' = [Got EXCEPT ![l] = <<>>]
      BY <2>5, <2>6 DEF Stays, Got
    <3>3. Struck' = Struck \ {l}
      BY <2>5, <2>6 DEF Stays, Struck
    <3> QED BY <3>1, <3>2, <3>3
  <2>8. Got[l] = m_appenders[l] \/ l \in Struck
    <3>1. CASE t \in torn
      BY <2>1, <2>2, <3>1 DEF Struck, AtOwnList, Busy
    <3>2. CASE t \notin torn
      <4>1. seen[t] \o rest[t] = m_appenders[l]
        BY <2>1, <3>2 DEF WalkInv, WalkIsWhole
      <4>2. seen[t] \o <<>> = seen[t]
        BY <2>1, ConcatEmptySeq
      <4> QED BY <2>1, <2>2, <4>1, <4>2
    <3> QED BY <3>1, <3>2
  <2>9. l # Root => Who[Root] # t
    <3> SUFFICES ASSUME l # Root, Who[Root] = t PROVE FALSE
      OBVIOUS
    <3>1. owner[Root] = t
      BY DEF Who
    <3>2. from[t] = Root
      BY <2>1, <3>1, Owned
    <3> QED BY <3>2, <1>a DEF LockInv
  <2>10. Delivery!End(l)
    BY <2>2, <2>3, <2>7, <2>8, <2>9 DEF Delivery!End
  <2> QED BY <2>1, <2>10 DEF Delivery!Next
<1>7. ASSUME NEW t \in Threads, NEW l \in Loggers, NEW a \in Appenders, AddLock(t, l, a)
      PROVE  Quiet
  BY <1>7, TakeStays DEF AddLock
<1>8. ASSUME NEW t \in Threads, AddFinish(t) PROVE Delivery!Next \/ Quiet
  <2>1. /\ pc[t] = "add" /\ Return(t) /\ Unlock(at[t]) /\ UNCHANGED seen
        /\ \/ m_appenders' = [m_appenders EXCEPT ![at[t]] = Append(@, obj[t])]
           \/ UNCHANGED m_appenders
    BY <1>8 DEF AddFinish, Under
  <2>2. obj[t] \in Appenders
    BY <2>1, <1>a DEF LockInv, TypeOK
  <2>3. at[t] \in Loggers /\ Who[at[t]] = NoThread /\ \A l \in Loggers : Stays(l)
    BY <2>1, ReleaseStays
  <2>4. Who' = Who /\ Got' = Got /\ Struck' = Struck
    BY <2>3 DEF Stays, Who, Got, Struck
  <2>5. CASE UNCHANGED m_appenders
    BY <2>3, <2>5, AllStay
  <2>6. CASE m_appenders' = [m_appenders EXCEPT ![at[t]] = Append(@, obj[t])]
    BY <2>2, <2>3, <2>4, <2>6 DEF Delivery!Next, Delivery!Attach
  <2> QED BY <2>1, <2>5, <2>6
<1>9. ASSUME NEW t \in Threads, NEW l \in Loggers, NEW a \in Appenders, DelLock(t, l, a)
      PROVE  Quiet
  BY <1>9, TakeStays DEF DelLock
<1>10. ASSUME NEW t \in Threads, DelFinish(t) PROVE Delivery!Next \/ Quiet
  <2>1. /\ pc[t] = "del" /\ Return(t) /\ Unlock(at[t]) /\ UNCHANGED seen
        /\ \/ \E k \in 1 .. Len(m_appenders[at[t]]) :
                m_appenders' =
                  [m_appenders EXCEPT ![at[t]] = RemoveAt(m_appenders[at[t]], k)]
           \/ UNCHANGED m_appenders
    BY <1>10 DEF DelFinish, Under
  <2>2. at[t] \in Loggers /\ Who[at[t]] = NoThread /\ \A l \in Loggers : Stays(l)
    BY <2>1, ReleaseStays
  <2>3. Who' = Who /\ Got' = Got /\ Struck' = Struck
    BY <2>2 DEF Stays, Who, Got, Struck
  <2>4. CASE UNCHANGED m_appenders
    BY <2>2, <2>4, AllStay
  <2>5. ASSUME NEW k \in 1 .. Len(m_appenders[at[t]]),
               m_appenders' = [m_appenders EXCEPT ![at[t]] = RemoveAt(m_appenders[at[t]], k)]
        PROVE  Delivery!Next
    <3>1. Delivery!Detach(at[t], k)
      BY <2>2, <2>3, <2>5 DEF Delivery!Detach, RemoveAt
    <3> QED BY <2>2, <3>1 DEF Delivery!Next
  <2> QED BY <2>1, <2>4, <2>5
<1>11. ASSUME NEW t \in Threads, NEW l \in Loggers, ClearAppenders(t, l)
       PROVE  Delivery!Next \/ Quiet
  <2>1. /\ m_appenders' = [m_appenders EXCEPT ![l] = <<>>]
        /\ torn' = torn \cup {u \in Threads : Inside(u, l)}
        /\ UNCHANGED <<owner, pc, at, seen>>
    BY <1>11 DEF ClearAppenders
  <2>2. Who' = Who /\ Got' = Got
    BY <2>1 DEF Who, Got, Busy, AtOwnList
  <2>3. ASSUME NEW k \in Loggers \ {l} PROVE k \in Struck' <=> k \in Struck
    BY <2>1 DEF Struck, Inside, Busy, AtOwnList
  <2>4. CASE Who[l] = NoThread
    <3>1. ~Busy(l)
      BY <1>a, <2>4 DEF Who, Busy, TypeOK
    <3>2. Struck' = Struck
      BY <2>1, <2>3, <3>1 DEF Struck, AtOwnList, Busy
    <3>3. Delivery!Clear(l)
      BY <2>1, <2>2, <2>4, <3>2 DEF Delivery!Clear
    <3> QED BY <3>3 DEF Delivery!Next
  <2>5. CASE Who[l] # NoThread /\ Inside(Who[l], l)
    <3>1. owner[l] = Who[l] /\ Busy(l) /\ owner[l] \in Threads
      BY <1>a, <2>5 DEF Who, TypeOK
    <3>2. l \in Struck'
      BY <2>1, <2>5, <3>1 DEF Struck, Inside, AtOwnList, Busy
    <3>3. Struck' = Struck \cup {l}
      BY <2>3, <3>2 DEF Struck
    <3>4. Delivery!Clear(l)
      BY <2>1, <2>2, <2>5, <3>3 DEF Delivery!Clear
    <3> QED BY <3>4 DEF Delivery!Next
  <2>6. CASE Who[l] # NoThread /\ ~Inside(Who[l], l)
    <3>1. owner[l] = Who[l] /\ Busy(l) /\ owner[l] \in Threads
      BY <1>a, <2>6 DEF Who, TypeOK
    <3>2. (pc[owner[l]] = "fallback" /\ at[owner[l]] = l) \/ from[owner[l]] = l
      BY <2>6, <3>1, <1>a DEF Inside, Busy, LockInv, Holds
    <3>3. m_appenders[l] = <<>>
      BY <3>1, <3>2 DEF WalkInv, RootStandsIn
    <3>4. m_appenders' = m_appenders
      BY <1>a, <2>1, <3>3 DEF TypeOK
    <3>5. owner[l] \in torn' => owner[l] \in torn
      BY <2>1, <2>6, <3>1
    <3>6. Struck' = Struck
      BY <2>1, <2>3, <3>5 DEF Struck, AtOwnList, Busy
    <3> QED BY <2>2, <3>4, <3>6 DEF Delivery!delivery
  <2> QED BY <2>4, <2>5, <2>6
<1>12. ASSUME NEW t \in Threads, Stray(t) PROVE Quiet
  BY <1>12, <1>c DEF Stray
<1>13. ASSUME NEW t \in Threads, NEW l \in Loggers, NEW f \in Formatters, FormatLock(t, l, f)
       PROVE  Quiet
  BY <1>13, TakeStays DEF FormatLock
<1>14. ASSUME NEW t \in Threads, FormatOne(t) PROVE Quiet
  BY <1>14, <1>c DEF FormatOne
<1>15. ASSUME NEW t \in Threads, FormatDone(t) PROVE Quiet
  <2>1. pc[t] = "format" /\ Return(t) /\ Unlock(at[t]) /\ UNCHANGED <<seen, m_appenders>>
    BY <1>15 DEF FormatDone, Under
  <2> QED BY <2>1, ReleaseStays, AllStay
<1>16. ASSUME UNCHANGED <<m_appenders, owner, frames>> PROVE Quiet
  BY <1>16, <1>c
<1> HIDE DEF Quiet
<1> QED
  BY <1>1, <1>2, <1>3, <1>4, <1>5, <1>6, <1>7, <1>8, <1>9, <1>10, <1>11, <1>12,
     <1>13, <1>14, <1>15, <1>16
  DEF Next, ClearTogether, AppenderSetFormatter, SetLevel, AppenderSetLevel, vars

\* The code with its spin locks, walks and root implements the specification
\* without them: each logger delivers one event at a time, to its whole list, and
\* a logger without appenders waits for the root.
THEOREM ImplementsDelivery == Spec => DeliverySpec
<1>1. Spec => []WalkInv
  BY WalkInit, WalkStep, Invariance, PTL DEF Spec
<1>2. IInv /\ IInv' /\ WalkInv /\ [Next]_vars => [Delivery!Next]_(Delivery!delivery)
  BY DeliveryStep
<1> QED
  BY <1>1, <1>2, DeliveryInit, Invariance, PTL DEF Spec, DeliverySpec, Delivery!Spec
=============================================================================

------------------------- MODULE LexicalCastProofs -------------------------
(***************************************************************************)
(* Theorems about LexicalCast, for all types and all values of them.       *)
(*                                                                         *)
(* The casts recurse over the type, the reader of a LogDefine over its     *)
(* appenders.  LeastNat and Induct give the induction, Unfold the equation *)
(* of a cast: one level in terms of the casts of the next.  FileIsRead and *)
(* ComesBack then go over the length of the type, and Invariance over the  *)
(* steps.                                                                  *)
(***************************************************************************)
EXTENDS LexicalCast, FiniteSetTheorems, WellFoundedInduction, TLAPS

-----------------------------------------------------------------------------
(* Induction *)

\* A set of numbers that is not empty has a least one: the intervals from 0 to
\* a number of the set are finite, and one is minimal for strict inclusion.
LEMMA LeastNat ==
  ASSUME NEW T \in SUBSET Nat, T # {}
  PROVE  \E m \in T : \A n \in T : m <= n
<1> DEFINE U == {0 .. n : n \in T}
<1>1. U \subseteq FiniteSubsetsOf(Nat)
  <2>1. ASSUME NEW n \in T PROVE 0 .. n \in FiniteSubsetsOf(Nat)
    <3>1. IsFiniteSet(0 .. n)
      BY FS_Interval
    <3> QED BY <3>1 DEF FiniteSubsetsOf
  <2> QED BY <2>1
<1>2. U # {}
  OBVIOUS
<1>3. PICK x \in U : \A y \in U : ~ (<<y, x>> \in StrictSubsetOrdering(Nat))
  <2> HIDE DEF U
  <2> QED BY <1>1, <1>2, WFMin, FS_StrictSubsetOrderingWellFounded
<1>4. PICK m \in T : x = 0 .. m
  OBVIOUS
<1>5. ASSUME NEW n \in T, ~(m <= n) PROVE FALSE
  <2>1. 0 .. n \in U
    OBVIOUS
  <2>2. <<0 .. n, x>> \in StrictSubsetOrdering(Nat)
    BY <1>4, <1>5 DEF StrictSubsetOrdering
  <2> QED BY <1>3, <2>1, <2>2
<1> QED BY <1>5

\* Induction, for a set of numbers instead of a predicate.
LEMMA Induct ==
  ASSUME NEW S \in SUBSET Nat, 0 \in S, \A n \in S : n + 1 \in S
  PROVE  S = Nat
<1> SUFFICES ASSUME Nat \ S # {} PROVE FALSE
  OBVIOUS
<1>1. PICK m \in Nat \ S : \A n \in Nat \ S : m <= n
  BY LeastNat
<1>2. m # 0 /\ m - 1 \in Nat /\ ~(m <= m - 1)
  OBVIOUS
<1>3. m - 1 \in S
  BY <1>1, <1>2
<1> QED BY <1>3

-----------------------------------------------------------------------------
(* The equations of the recursive functions *)

\* One turn of the loop over "appenders".
Turn(list, n, old) == IF Usable(list[n]) THEN Append(old, ReadAppender(list[n])) ELSE old

\* The loop has its equation.
LEMMA ReadingDef ==
  ASSUME NEW list, Len(list) \in Nat
  PROVE  /\ Reading(list)[0] = <<>>
         /\ \A n \in Nat : n < Len(list) =>
              Reading(list)[n + 1] = Turn(list, n + 1, Reading(list)[n])
<1> DEFINE Loop(f, k) == f = [n \in 0 .. k |-> IF n = 0 THEN <<>> ELSE Turn(list, n, f[n - 1])]
           S == {k \in Nat : \E f : Loop(f, k)}
<1>1. 0 \in S
  <2>1. Loop([n \in 0 .. 0 |-> <<>>], 0)
    OBVIOUS
  <2> QED BY <2>1
<1>2. ASSUME NEW k \in S PROVE k + 1 \in S
  <2>1. PICK f : Loop(f, k)
    OBVIOUS
  <2> DEFINE g == [n \in 0 .. k + 1 |-> IF n = k + 1 THEN Turn(list, n, f[k]) ELSE f[n]]
  <2>2. Loop(g, k + 1)
    BY <2>1
  <2> HIDE DEF Loop
  <2> QED BY <2>2
<1>3. S = Nat
  <2> HIDE DEF S
  <2> QED BY <1>1, <1>2, Induct DEF S
<1>4. \E f : Loop(f, Len(list))
  BY <1>3
<1>5. Loop(Reading(list), Len(list))
  BY <1>4 DEF Reading, Turn
<1> QED BY <1>5

InnerEquation(what, T, x) ==
  /\ Inner(what, T, x)[0] = {x}
  /\ \A n \in 1 .. Len(T) :
       Inner(what, T, x)[n] = PartsOf(what, From(T, n - 1), Inner(what, T, x)[n - 1])

LevelsEquation(what, T, x) ==
  /\ Levels(what, T, x)[0] = <<>>
  /\ \A n \in 1 .. Len(T) :
       Levels(what, T, x)[n] =
         OnEach(what, From(T, Len(T) - n), Inner(what, T, x)[Len(T) - n],
                Levels(what, T, x)[n - 1])

\* So have the parts n levels down,
LEMMA InnerDef ==
  ASSUME NEW what, NEW T, Len(T) \in Nat, NEW x
  PROVE  InnerEquation(what, T, x)
<1> DEFINE Start == {x}
           Step(old, n) == PartsOf(what, From(T, n - 1), old)
           Loop(f, k) == f = [n \in 0 .. k |-> IF n = 0 THEN Start ELSE Step(f[n - 1], n)]
           S == {k \in Nat : \E f : Loop(f, k)}
<1>1. 0 \in S
  <2>1. Loop([n \in 0 .. 0 |-> Start], 0)
    OBVIOUS
  <2> QED BY <2>1
<1>2. ASSUME NEW k \in S PROVE k + 1 \in S
  <2> HIDE DEF Step, Start
  <2>1. PICK f : Loop(f, k)
    OBVIOUS
  <2> DEFINE g == [n \in 0 .. k + 1 |-> IF n = k + 1 THEN Step(f[k], n) ELSE f[n]]
  <2>2. Loop(g, k + 1)
    BY <2>1
  <2> HIDE DEF Loop
  <2> QED BY <2>2
<1>3. S = Nat
  <2> HIDE DEF S
  <2> QED BY <1>1, <1>2, Induct DEF S
<1>4. \E f : Loop(f, Len(T))
  BY <1>3
<1>5. Loop(Inner(what, T, x), Len(T))
  BY <1>4 DEF Inner
<1> HIDE DEF Start, Step
<1>6. /\ Inner(what, T, x)[0] = Start
      /\ \A n \in 1 .. Len(T) : Inner(what, T, x)[n] = Step(Inner(what, T, x)[n - 1], n)
  BY <1>5
<1> QED BY <1>6 DEF Start, Step, InnerEquation

\* and what all the levels say of them.
LEMMA LevelsDef ==
  ASSUME NEW what, NEW T, Len(T) \in Nat, NEW x
  PROVE  LevelsEquation(what, T, x)
<1> DEFINE Step(old, n) ==
             OnEach(what, From(T, Len(T) - n), Inner(what, T, x)[Len(T) - n], old)
           Loop(f, k) == f = [n \in 0 .. k |-> IF n = 0 THEN <<>> ELSE Step(f[n - 1], n)]
           S == {k \in Nat : \E f : Loop(f, k)}
<1>1. 0 \in S
  <2>1. Loop([n \in 0 .. 0 |-> <<>>], 0)
    OBVIOUS
  <2> QED BY <2>1
<1>2. ASSUME NEW k \in S PROVE k + 1 \in S
  <2> HIDE DEF Step
  <2>1. PICK f : Loop(f, k)
    OBVIOUS
  <2> DEFINE g == [n \in 0 .. k + 1 |-> IF n = k + 1 THEN Step(f[k], n) ELSE f[n]]
  <2>2. Loop(g, k + 1)
    BY <2>1
  <2> HIDE DEF Loop
  <2> QED BY <2>2
<1>3. S = Nat
  <2> HIDE DEF S
  <2> QED BY <1>1, <1>2, Induct DEF S
<1>4. \E f : Loop(f, Len(T))
  BY <1>3
<1>5. Loop(Levels(what, T, x), Len(T))
  BY <1>4 DEF Levels
<1> HIDE DEF Step
<1>6. /\ Levels(what, T, x)[0] = <<>>
      /\ \A n \in 1 .. Len(T) : Levels(what, T, x)[n] = Step(Levels(what, T, x)[n - 1], n)
  BY <1>5
<1> QED BY <1>6 DEF Step, LevelsEquation

-----------------------------------------------------------------------------
(* One level of a cast *)

LEMMA FromTail ==
  ASSUME NEW S, NEW T \in Seq(S), T # <<>>
  PROVE  /\ Len(T) \in Nat \ {0} /\ Tail(T) \in Seq(S) /\ Len(Tail(T)) = Len(T) - 1
         /\ From(T, 0) = T
         /\ \A n \in 0 .. Len(T) - 1 : From(Tail(T), n) = From(T, n + 1)
<1>1. Len(T) \in Nat \ {0} /\ Tail(T) \in Seq(S) /\ Len(Tail(T)) = Len(T) - 1
  OBVIOUS
<1>2. From(T, 0) = T
  BY DEF From
<1>3. ASSUME NEW n \in 0 .. Len(T) - 1 PROVE From(Tail(T), n) = From(T, n + 1)
  BY <1>1 DEF From
<1> QED BY <1>1, <1>2, <1>3

\* A cast of a container is one level of it, given the casts of its parts.
LEMMA Unfold ==
  ASSUME NEW what, NEW S, NEW T \in Seq(S), T # <<>>, NEW x
  PROVE  AllLevels(what, T, x) =
           OneLevel(what, T, x, [p \in Parts(what, T, x) |-> AllLevels(what, Tail(T), p)])
<1> DEFINE L == Len(T)
           R == Tail(T)
<1>1. /\ L \in Nat \ {0} /\ R \in Seq(S) /\ Len(R) = L - 1
      /\ From(T, 0) = T
      /\ \A n \in 0 .. L - 1 : From(R, n) = From(T, n + 1)
  BY FromTail
<1>2. InnerEquation(what, T, x)
  BY <1>1, InnerDef
<1>3. LevelsEquation(what, T, x)
  BY <1>1, LevelsDef
<1>4. ASSUME NEW p \in Parts(what, T, x)
      PROVE  Levels(what, T, x)[L - 1][p] = AllLevels(what, R, p)
  <2>1. InnerEquation(what, R, p)
    BY <1>1, InnerDef
  <2>2. LevelsEquation(what, R, p)
    BY <1>1, LevelsDef
  <2> HIDE DEF R
  <2>3. \A k \in Nat : k + 1 <= L - 1 =>
          Inner(what, R, p)[k + 1] = PartsOf(what, From(R, k), Inner(what, R, p)[k])
    BY <1>1, <2>1 DEF InnerEquation
  <2> DEFINE I == {j \in Nat : j <= L - 1 =>
                     Inner(what, R, p)[j] \subseteq Inner(what, T, x)[j + 1]}
  <2>4. I = Nat
    <3>1. 0 \in I
      <4>1. Inner(what, R, p)[0] = {p}
        BY <2>1 DEF InnerEquation
      <4>2. Inner(what, T, x)[0] = {x}
        BY <1>2 DEF InnerEquation
      <4>3. Inner(what, T, x)[1] = PartsOf(what, From(T, 0), Inner(what, T, x)[0])
        <5>1. 1 \in 1 .. L /\ 1 - 1 = 0
          BY <1>1
        <5> QED BY <1>2, <5>1 DEF InnerEquation
      <4> QED BY <1>1, <1>4, <4>1, <4>2, <4>3 DEF PartsOf
    <3>2. ASSUME NEW j \in I PROVE j + 1 \in I
      <4> SUFFICES ASSUME j + 1 <= L - 1
                   PROVE  Inner(what, R, p)[j + 1] \subseteq Inner(what, T, x)[j + 2]
        BY <1>1
      <4>1. Inner(what, R, p)[j] \subseteq Inner(what, T, x)[j + 1]
        BY <1>1
      <4>2. Inner(what, R, p)[j + 1]
              = PartsOf(what, From(R, j), Inner(what, R, p)[j])
        BY <2>3
      <4>3. Inner(what, T, x)[j + 2]
              = PartsOf(what, From(T, j + 1), Inner(what, T, x)[j + 1])
        BY <1>1, <1>2 DEF InnerEquation
      <4>4. From(R, j) = From(T, j + 1)
        BY <1>1
      <4> QED BY <4>1, <4>2, <4>3, <4>4 DEF PartsOf
    <3> HIDE DEF I
    <3>3. I \in SUBSET Nat
      BY DEF I
    <3> QED BY <3>1, <3>2, <3>3, Induct
  <2> DEFINE J == {n \in Nat : n <= L - 1 =>
                     \A y \in Inner(what, R, p)[L - 1 - n] :
                       Levels(what, R, p)[n][y] = Levels(what, T, x)[n][y]}
  <2>5. J = Nat
    <3>1. 0 \in J
      <4>1. Levels(what, R, p)[0] = <<>> /\ Levels(what, T, x)[0] = <<>>
        BY <1>3, <2>2 DEF LevelsEquation
      <4> QED BY <4>1
    <3>2. ASSUME NEW n \in J PROVE n + 1 \in J
      <4> SUFFICES ASSUME n + 1 <= L - 1, NEW y \in Inner(what, R, p)[L - 1 - (n + 1)]
                   PROVE  Levels(what, R, p)[n + 1][y] = Levels(what, T, x)[n + 1][y]
        OBVIOUS
      <4> DEFINE j == L - 1 - (n + 1)
                 rest == From(T, j + 1)
      <4>1. j \in Nat /\ j + 1 = L - (n + 1) /\ j + 1 = L - 1 - n /\ j <= L - 1 /\ j + 1 <= L - 1
        BY <1>1
      <4>2. From(R, j) = rest
        BY <1>1, <4>1
      <4>3. y \in Inner(what, T, x)[j + 1]
        BY <2>4, <4>1
      <4>4. Inner(what, R, p)[j + 1]
              = PartsOf(what, From(R, j), Inner(what, R, p)[j])
        BY <2>3, <4>1
      <4>5. Parts(what, rest, y) \subseteq Inner(what, R, p)[j + 1]
        BY <4>2, <4>4 DEF PartsOf
      <4>6. \A q \in Parts(what, rest, y) :
              Levels(what, R, p)[n][q] = Levels(what, T, x)[n][q]
        BY <1>1, <4>1, <4>5
      <4>7. Levels(what, R, p)[n + 1][y] =
              OneLevel(what, rest, y, [q \in Parts(what, rest, y) |-> Levels(what, R, p)[n][q]])
        <5>1. Levels(what, R, p)[n + 1] =
                OnEach(what, rest, Inner(what, R, p)[j], Levels(what, R, p)[n])
          BY <1>1, <2>2, <4>1, <4>2 DEF LevelsEquation
        <5> QED BY <5>1 DEF OnEach
      <4>8. Levels(what, T, x)[n + 1][y] =
              OneLevel(what, rest, y, [q \in Parts(what, rest, y) |-> Levels(what, T, x)[n][q]])
        <5>1. Levels(what, T, x)[n + 1] =
                OnEach(what, rest, Inner(what, T, x)[j + 1], Levels(what, T, x)[n])
          BY <1>1, <1>3, <4>1 DEF LevelsEquation
        <5> QED BY <4>3, <5>1 DEF OnEach
      <4>9. [q \in Parts(what, rest, y) |-> Levels(what, R, p)[n][q]]
              = [q \in Parts(what, rest, y) |-> Levels(what, T, x)[n][q]]
        BY <4>6
      <4> QED BY <4>7, <4>8, <4>9
    <3> HIDE DEF J
    <3>3. J \in SUBSET Nat
      BY DEF J
    <3> QED BY <3>1, <3>2, <3>3, Induct
  <2>6. p \in Inner(what, R, p)[L - 1 - (L - 1)]
    BY <1>1, <2>1 DEF InnerEquation
  <2>7. L - 1 \in J
    BY <1>1, <2>5
  <2>8. Levels(what, R, p)[L - 1][p] = Levels(what, T, x)[L - 1][p]
    BY <1>1, <2>6, <2>7
  <2> QED BY <1>1, <2>8 DEF AllLevels
<1>5. x \in Inner(what, T, x)[L - L]
  BY <1>1, <1>2 DEF InnerEquation
<1>6. Levels(what, T, x)[L][x] =
        OneLevel(what, From(T, L - L), x,
                 [p \in Parts(what, From(T, L - L), x) |-> Levels(what, T, x)[L - 1][p]])
  <2>1. Levels(what, T, x)[L] =
          OnEach(what, From(T, L - L), Inner(what, T, x)[L - L], Levels(what, T, x)[L - 1])
    BY <1>1, <1>3 DEF LevelsEquation
  <2> QED BY <1>5, <2>1 DEF OnEach
<1>7. From(T, L - L) = T
  BY <1>1
<1>8. [p \in Parts(what, T, x) |-> Levels(what, T, x)[L - 1][p]]
        = [p \in Parts(what, T, x) |-> AllLevels(what, R, p)]
  BY <1>4
<1> QED BY <1>6, <1>7, <1>8 DEF AllLevels

-----------------------------------------------------------------------------
(* Texts of nodes *)

LEMMA SeqText ==
  ASSUME NEW S, NEW s \in Seq(S)
  PROVE  /\ Emit(SeqNode(s)) = LayoutText(SeqNode(s))
         /\ Items(LayoutText(SeqNode(s))) = s
<1>1. Emit(SeqNode(s)) = LayoutText(SeqNode(s))
  BY DEF Emit, SeqNode, Null
<1>2. Load(LayoutText(SeqNode(s))) = SeqNode(s)
  BY DEF Load, LayoutText, IsPlain
<1>3. Items(LayoutText(SeqNode(s))) = s
  BY <1>2 DEF Items, SeqNode, Null
<1> QED BY <1>1, <1>3

LEMMA MapText ==
  ASSUME NEW S, NEW D, NEW f \in [D -> S]
  PROVE  /\ Emit(MapNode(f)) = LayoutText(MapNode(f))
         /\ Load(LayoutText(MapNode(f))) = MapNode(f)
         /\ Entries(LayoutText(MapNode(f))) = f
<1>1. Emit(MapNode(f)) = LayoutText(MapNode(f))
  BY DEF Emit, MapNode, Null
<1>2. Load(LayoutText(MapNode(f))) = MapNode(f)
  BY DEF Load, LayoutText, IsPlain
<1>3. Entries(LayoutText(MapNode(f))) = f
  BY <1>2 DEF Entries, MapNode, Null
<1> QED BY <1>1, <1>2, <1>3

\* SetToSeq has the elements of the set.
LEMMA SeqOfSet ==
  ASSUME NEW S, IsFiniteSet(S)
  PROVE  /\ SetToSeq(S) \in Seq(S)
         /\ {SetToSeq(S)[k] : k \in DOMAIN SetToSeq(S)} = S
<1> DEFINE n == Cardinality(S)
<1>1. n \in Nat /\ ExistsBijection(1 .. n, S)
  BY FS_CardinalityType
<1>2. \E f \in [1 .. n -> S] : IsInjective(f)
  BY <1>1 DEF ExistsBijection, Bijection, Injection, IsInjective
<1>3. SetToSeq(S) \in [1 .. n -> S] /\ IsInjective(SetToSeq(S))
  BY <1>2 DEF SetToSeq
<1>4. SetToSeq(S) \in Injection(1 .. n, S)
  BY <1>3 DEF Injection
<1>5. IsFiniteSet(1 .. n) /\ Cardinality(1 .. n) = n
  BY <1>1, FS_Interval
<1>6. SetToSeq(S) \in Surjection(1 .. n, S)
  BY <1>4, <1>5, FS_Injection
<1>7. \A e \in S : \E k \in 1 .. n : SetToSeq(S)[k] = e
  BY <1>6 DEF Surjection
<1> QED BY <1>1, <1>3, <1>7

LEMMA FiniteImage ==
  ASSUME NEW S, IsFiniteSet(S), NEW f, DOMAIN f = S
  PROVE  IsFiniteSet({f[e] : e \in S})
<1> DEFINE T == {f[e] : e \in S}
           g == [e \in S |-> f[e]]
<1>1. g \in Surjection(S, T)
  BY DEF Surjection
<1> HIDE DEF g, T
<1>2. IsFiniteSet(T)
  BY <1>1, FS_Surjection
<1> QED BY <1>2 DEF T

-----------------------------------------------------------------------------
(* LogDefines *)

LEMMA LevelNamesRead ==
  ASSUME NEW level \in 0 .. 5
  PROVE  LevelOf(LevelText(level)) = level
BY DEF LevelOf, LevelText, LevelNames, UNKNOW

LEMMA AppenderIsRead ==
  ASSUME NEW a, IsAppenderDefine(a)
  PROVE  Usable(LayoutOfAppender(a)) /\ ReadAppender(LayoutOfAppender(a)) = a
BY DEF IsAppenderDefine, LayoutOfAppender, Usable, ReadAppender, Get, UNKNOW

LEMMA AppenderComesBack ==
  ASSUME NEW a, IsAppenderDefine(a)
  PROVE  /\ Usable(WriteAppender(a)) <=> a.type = 2
         /\ a.type = 2 => ReadAppender(WriteAppender(a)) = a
<1> DEFINE node == WriteAppender(a)
<1>1. /\ a.type \in {1, 2}
      /\ a = [type |-> a.type, level |-> UNKNOW, formatter |-> a.formatter, file |-> a.file]
      /\ a.type = 2 => a.file = ""
  BY DEF IsAppenderDefine
<1>2. /\ "type" \in DOMAIN node
      /\ node["type"] = IF a.type = 1 THEN "FileAppender" ELSE "StdoutLogAppender"
  BY <1>1 DEF WriteAppender
<1>3. Get(node, "formatter") = a.formatter
  BY DEF WriteAppender, Get
<1>4. Usable(node) <=> a.type = 2
  <2>1. CASE a.type = 1
    BY <1>2, <2>1 DEF Usable
  <2>2. CASE a.type = 2
    BY <1>2, <2>2 DEF Usable
  <2> QED BY <1>1, <2>1, <2>2
<1>5. ASSUME a.type = 2 PROVE ReadAppender(node) = a
  BY <1>1, <1>2, <1>3, <1>5 DEF ReadAppender
<1> QED BY <1>4, <1>5

\* The loop over "appenders", for a layout and for what is written.
LEMMA LayoutIsRead ==
  ASSUME NEW S, \A a \in S : IsAppenderDefine(a), NEW s \in Seq(S)
  PROVE  LET list == [k \in DOMAIN s |-> LayoutOfAppender(s[k])] IN
           Len(list) = Len(s) /\ Reading(list)[Len(list)] = s
<1> DEFINE list == [k \in DOMAIN s |-> LayoutOfAppender(s[k])]
<1>1. Len(s) \in Nat /\ DOMAIN s = 1 .. Len(s) /\ \A n \in 1 .. Len(s) : s[n] \in S
  OBVIOUS
<1>2. Len(list) = Len(s) /\ \A n \in 1 .. Len(s) : list[n] = LayoutOfAppender(s[n])
  BY <1>1
<1> HIDE DEF list
<1>3. /\ Reading(list)[0] = <<>>
      /\ \A n \in Nat : n < Len(s) =>
           Reading(list)[n + 1] = Turn(list, n + 1, Reading(list)[n])
  <2>1. Len(list) \in Nat
    BY <1>1, <1>2
  <2> QED BY <1>2, <2>1, ReadingDef
<1> DEFINE I == {n \in Nat : n <= Len(s) => Reading(list)[n] = SubSeq(s, 1, n)}
<1>4. 0 \in I
  <2>1. Reading(list)[0] = <<>>
    BY <1>3
  <2>2. SubSeq(s, 1, 0) = <<>>
    OBVIOUS
  <2> QED BY <2>1, <2>2
<1>5. ASSUME NEW n \in I PROVE n + 1 \in I
  <2> SUFFICES ASSUME n + 1 <= Len(s) PROVE Reading(list)[n + 1] = SubSeq(s, 1, n + 1)
    OBVIOUS
  <2>1. n + 1 \in 1 .. Len(s) /\ Reading(list)[n] = SubSeq(s, 1, n)
    BY <1>1
  <2>2. Usable(list[n + 1]) /\ ReadAppender(list[n + 1]) = s[n + 1]
    BY <1>1, <1>2, <2>1, AppenderIsRead
  <2>3. Reading(list)[n + 1] = Append(Reading(list)[n], s[n + 1])
    <3>1. Reading(list)[n + 1] = Turn(list, n + 1, Reading(list)[n])
      <4>1. n \in Nat /\ n < Len(s)
        BY <1>1
      <4> QED BY ONLY <1>3, <4>1
    <3> QED BY <2>2, <3>1 DEF Turn
  <2>4. Append(SubSeq(s, 1, n), s[n + 1]) = SubSeq(s, 1, n + 1)
    BY <1>1, <2>1
  <2> QED BY <2>1, <2>3, <2>4
<1>6. I = Nat
  <2> HIDE DEF I
  <2> QED BY <1>4, <1>5, Induct DEF I
<1>7. Reading(list)[Len(s)] = SubSeq(s, 1, Len(s))
  BY <1>1, <1>6
<1>8. SubSeq(s, 1, Len(s)) = s
  OBVIOUS
<1> QED BY <1>2, <1>7, <1>8 DEF list

LEMMA WrittenIsRead ==
  ASSUME NEW S, \A a \in S : IsAppenderDefine(a), NEW s \in Seq(S)
  PROVE  LET list == [k \in DOMAIN s |-> WriteAppender(s[k])] IN
           /\ Len(list) = Len(s)
           /\ Reading(list)[Len(list)] \in Seq({a \in S : a.type = 2})
           /\ (\A k \in DOMAIN s : s[k].type = 2) => Reading(list)[Len(list)] = s
<1> DEFINE list == [k \in DOMAIN s |-> WriteAppender(s[k])]
           Kept == {a \in S : a.type = 2}
<1>1. Len(s) \in Nat /\ DOMAIN s = 1 .. Len(s) /\ \A n \in 1 .. Len(s) : s[n] \in S
  OBVIOUS
<1>2. Len(list) = Len(s) /\ \A n \in 1 .. Len(s) : list[n] = WriteAppender(s[n])
  BY <1>1
<1> HIDE DEF list
<1>3. /\ Reading(list)[0] = <<>>
      /\ \A n \in Nat : n < Len(s) =>
           Reading(list)[n + 1] = Turn(list, n + 1, Reading(list)[n])
  <2>1. Len(list) \in Nat
    BY <1>1, <1>2
  <2> QED BY <1>2, <2>1, ReadingDef
<1> DEFINE I == {n \in Nat : n <= Len(s) =>
                   /\ Reading(list)[n] \in Seq(Kept)
                   /\ (\A k \in 1 .. n : s[k].type = 2) => Reading(list)[n] = SubSeq(s, 1, n)}
<1>4. 0 \in I
  <2>1. Reading(list)[0] = <<>>
    BY <1>1, <1>3
  <2>2. <<>> \in Seq(Kept) /\ SubSeq(s, 1, 0) = <<>>
    OBVIOUS
  <2> QED BY <2>1, <2>2
<1>5. ASSUME NEW n \in I PROVE n + 1 \in I
  <2> SUFFICES ASSUME n + 1 <= Len(s)
               PROVE  /\ Reading(list)[n + 1] \in Seq(Kept)
                      /\ (\A k \in 1 .. n + 1 : s[k].type = 2) =>
                           Reading(list)[n + 1] = SubSeq(s, 1, n + 1)
    OBVIOUS
  <2>1. /\ n + 1 \in 1 .. Len(s) /\ Reading(list)[n] \in Seq(Kept)
        /\ (\A k \in 1 .. n : s[k].type = 2) => Reading(list)[n] = SubSeq(s, 1, n)
    BY <1>1
  <2>2. /\ Usable(list[n + 1]) <=> s[n + 1].type = 2
        /\ s[n + 1].type = 2 => ReadAppender(list[n + 1]) = s[n + 1]
    BY <1>1, <1>2, <2>1, AppenderComesBack
  <2>3. Reading(list)[n + 1] =
          IF s[n + 1].type = 2 THEN Append(Reading(list)[n], s[n + 1]) ELSE Reading(list)[n]
    <3>1. Reading(list)[n + 1] = Turn(list, n + 1, Reading(list)[n])
      <4>1. n \in Nat /\ n < Len(s)
        BY <1>1
      <4> QED BY ONLY <1>3, <4>1
    <3> QED BY <2>2, <3>1 DEF Turn
  <2>4. Append(SubSeq(s, 1, n), s[n + 1]) = SubSeq(s, 1, n + 1)
    BY <1>1, <2>1
  <2>5. Reading(list)[n + 1] \in Seq(Kept)
    <3>1. CASE s[n + 1].type = 2
      <4>1. s[n + 1] \in Kept
        BY <1>1, <2>1, <3>1
      <4> HIDE DEF Kept
      <4> QED BY <2>1, <2>3, <3>1, <4>1
    <3>2. CASE s[n + 1].type # 2
      BY <2>1, <2>3, <3>2
    <3> QED BY <3>1, <3>2
  <2>6. ASSUME \A k \in 1 .. n + 1 : s[k].type = 2
        PROVE  Reading(list)[n + 1] = SubSeq(s, 1, n + 1)
    <3>1. s[n + 1].type = 2 /\ \A k \in 1 .. n : s[k].type = 2
      BY <1>1, <2>1, <2>6
    <3> QED BY <2>1, <2>3, <2>4, <3>1
  <2> QED BY <2>5, <2>6
<1>6. I = Nat
  <2> HIDE DEF I
  <2> QED BY <1>4, <1>5, Induct DEF I
<1>7. /\ Reading(list)[Len(s)] \in Seq(Kept)
      /\ (\A k \in 1 .. Len(s) : s[k].type = 2) => Reading(list)[Len(s)] = SubSeq(s, 1, Len(s))
  <2>1. Len(s) \in I
    BY <1>1, <1>6
  <2> QED BY <2>1
<1>8. SubSeq(s, 1, Len(s)) = s
  OBVIOUS
<1> QED BY <1>1, <1>2, <1>7, <1>8 DEF list

\* A definition is read as a file describes it,
THEOREM DefineIsRead ==
  ASSUME NEW d, IsDefine(d)
  PROVE  /\ "name" \in DOMAIN LayoutOfDefine(d)
         /\ FromYaml(LayoutOfDefine(d)) = d
<1> DEFINE S == ToSet(d.appenders)
           node == LayoutOfDefine(d)
           list == [k \in DOMAIN d.appenders |-> LayoutOfAppender(d.appenders[k])]
<1>1. /\ d = [name |-> d.name, level |-> d.level, formatter |-> d.formatter,
              appenders |-> d.appenders]
      /\ d.level \in 0 .. 5 /\ d.appenders \in Seq(S)
      /\ \A a \in S : IsAppenderDefine(a)
  BY DEF IsDefine
<1>2. LevelOf(LevelText(d.level)) = d.level
  BY <1>1, LevelNamesRead
<1>3. Reading(list)[Len(list)] = d.appenders
  BY <1>1, LayoutIsRead
<1> HIDE DEF list
<1>4. node = [name |-> d.name, level |-> LevelText(d.level), formatter |-> d.formatter,
              appenders |-> list]
  BY DEF LayoutOfDefine, list
<1> HIDE DEF node
<1>5. ReadAppenders(node) = d.appenders
  BY <1>3, <1>4 DEF ReadAppenders
<1>6. Get(node, "level") = LevelText(d.level) /\ Get(node, "formatter") = d.formatter
  BY <1>4 DEF Get
<1> QED BY <1>1, <1>2, <1>4, <1>5, <1>6 DEF FromYaml, node

\* and comes back from its own string without its formatter and file appenders.
THEOREM DefineComesBack ==
  ASSUME NEW d, IsDefine(d)
  PROVE  LET e == FromYaml(ToYaml(d)) IN
           /\ "name" \in DOMAIN ToYaml(d)
           /\ IsDefine(e) /\ e.formatter = ""
           /\ \A k \in DOMAIN e.appenders : e.appenders[k].type = 2
           /\ e = d <=> /\ d.formatter = ""
                       /\ \A k \in DOMAIN d.appenders : d.appenders[k].type = 2
<1> DEFINE S == ToSet(d.appenders)
           node == ToYaml(d)
           e == FromYaml(node)
           list == [k \in DOMAIN d.appenders |-> WriteAppender(d.appenders[k])]
<1>1. /\ d = [name |-> d.name, level |-> d.level, formatter |-> d.formatter,
              appenders |-> d.appenders]
      /\ d.level \in 0 .. 5 /\ d.appenders \in Seq(S)
      /\ \A a \in S : IsAppenderDefine(a)
  BY DEF IsDefine
<1>2. LevelOf(LevelText(d.level)) = d.level
  BY <1>1, LevelNamesRead
<1>3. /\ Reading(list)[Len(list)] \in Seq({a \in S : a.type = 2})
      /\ (\A k \in DOMAIN d.appenders : d.appenders[k].type = 2) =>
           Reading(list)[Len(list)] = d.appenders
  BY <1>1, WrittenIsRead
<1>4. d.appenders = <<>> => list = <<>>
  OBVIOUS
<1> HIDE DEF list
<1>5. /\ "name" \in DOMAIN node /\ node["name"] = d.name
      /\ Get(node, "level") = LevelText(d.level)
      /\ Get(node, "formatter") = ""
  BY DEF ToYaml, Get
<1>6. ReadAppenders(node) = Reading(list)[Len(list)]
  <2>1. /\ "appenders" \in DOMAIN node <=> d.appenders # <<>>
        /\ d.appenders # <<>> => node["appenders"] = list
    BY DEF ToYaml, list
  <2> QED BY <1>4, <2>1 DEF ReadAppenders
<1> HIDE DEF node
<1>7. e = [name |-> d.name, level |-> d.level, formatter |-> "",
           appenders |-> Reading(list)[Len(list)]]
  BY <1>2, <1>5, <1>6 DEF FromYaml
<1> HIDE DEF e
<1>9. /\ e.appenders \in Seq(ToSet(e.appenders))
      /\ \A a \in ToSet(e.appenders) : IsAppenderDefine(a)
      /\ \A k \in DOMAIN e.appenders : e.appenders[k].type = 2
  <2> DEFINE r == Reading(list)[Len(list)]
  <2>1. r \in Seq({a \in S : a.type = 2})
    BY <1>3
  <2> HIDE DEF S, r
  <2>2. \A a \in ToSet(r) : a \in S /\ a.type = 2
    BY <2>1 DEF ToSet
  <2>3. r \in Seq(ToSet(r))
    BY <2>1 DEF ToSet
  <2>4. e.appenders = r
    BY <1>7 DEF r
  <2> QED BY <1>1, <2>2, <2>3, <2>4 DEF ToSet
<1>10. IsDefine(e)
  BY <1>1, <1>7, <1>9 DEF IsDefine
<1>11. ASSUME d.formatter = "", \A k \in DOMAIN d.appenders : d.appenders[k].type = 2
       PROVE  e = d
  BY <1>1, <1>3, <1>7, <1>11
<1>12. ASSUME e = d
       PROVE  d.formatter = "" /\ \A k \in DOMAIN d.appenders : d.appenders[k].type = 2
  <2>1. e.formatter = ""
    BY <1>7
  <2> QED BY <1>9, <1>12, <2>1
<1>13. e.formatter = ""
  BY <1>7
<1> QED BY <1>5, <1>9, <1>10, <1>11, <1>12, <1>13 DEF e, node

-----------------------------------------------------------------------------
(* Types, and the casts of each of them *)

LEMMA TypeCases ==
  ASSUME NEW T, IsType(T)
  PROVE  /\ T \in Seq(Leaves \cup Containers) /\ T # <<>> /\ Len(T) \in Nat \ {0}
         /\ Len(T) = 1 => Head(T) \in Leaves /\ Tail(T) = <<>>
         /\ Len(T) > 1 => /\ Head(T) \in Containers /\ IsType(Tail(T))
                          /\ Len(Tail(T)) = Len(T) - 1
         /\ Tail(T) = <<"LogDefine">> <=>
              Len(T) = 2 /\ Head(Tail(T)) = "LogDefine"
<1> DEFINE L == Len(T)
           R == Tail(T)
<1>1. /\ T \in Seq(Leaves \cup Containers) /\ T # <<>>
      /\ \A i \in 1 .. L : T[i] \in Leaves <=> i = L
  BY DEF IsType
<1>2. /\ L \in Nat \ {0} /\ R \in Seq(Leaves \cup Containers)
      /\ Len(R) = L - 1 /\ Head(T) = T[1]
      /\ \A i \in 1 .. L - 1 : R[i] = T[i + 1]
      /\ \A i \in 1 .. L : T[i] \in Leaves \cup Containers
  BY <1>1
<1>3. T[1] \in Leaves <=> 1 = L
  <2> HIDE DEF L
  <2>1. 1 \in 1 .. L
    BY <1>2
  <2> QED BY <1>1, <2>1
<1>4. ASSUME L = 1 PROVE R = <<>>
  <2>1. R \in Seq(Leaves \cup Containers) /\ Len(R) = 0
    BY <1>2, <1>4
  <2> HIDE DEF R
  <2> QED BY <2>1
<1>5. ASSUME L > 1 PROVE IsType(R)
  <2>1. ASSUME NEW i \in 1 .. Len(R) PROVE R[i] \in Leaves <=> i = Len(R)
    <3>1. i \in Nat /\ i + 1 \in 1 .. L
      BY <1>2
    <3> HIDE DEF L, R
    <3>2. R[i] = T[i + 1]
      BY <1>2
    <3>3. T[i + 1] \in Leaves <=> i + 1 = L
      BY <1>1, <3>1
    <3> QED BY <1>2, <3>1, <3>2, <3>3
  <2>2. R # <<>>
    <3>1. Len(R) # 0
      BY <1>2, <1>5
    <3> HIDE DEF R
    <3> QED BY <3>1
  <2> HIDE DEF R
  <2> QED BY <1>2, <2>1, <2>2 DEF IsType
<1>6. R = <<"LogDefine">> <=> L = 2 /\ Head(R) = "LogDefine"
  <2>1. R \in Seq(Leaves \cup Containers) /\ Len(R) = L - 1 /\ L \in Nat
    BY <1>2
  <2> HIDE DEF R, L
  <2>2. ASSUME R = <<"LogDefine">> PROVE Len(R) = 1 /\ Head(R) = "LogDefine"
    BY <2>2
  <2>3. ASSUME Len(R) = 1, Head(R) = "LogDefine" PROVE R = <<"LogDefine">>
    BY <2>1, <2>3
  <2> QED BY <2>1, <2>2, <2>3
<1>7. T[1] \in Leaves \cup Containers
  BY <1>2
<1>8. L > 1 => T[1] \in Containers
  BY <1>3, <1>7
<1> HIDE DEF L, R
<1>9. /\ L = 1 => T[1] \in Leaves /\ R = <<>>
      /\ L > 1 => T[1] \in Containers /\ IsType(R) /\ Len(R) = L - 1
  BY <1>2, <1>3, <1>4, <1>5, <1>8
<1> QED BY <1>1, <1>2, <1>6, <1>9 DEF L, R

\* Leaves and containers are told apart by the length.
LEMMA HeadCases ==
  ASSUME NEW T, IsType(T)
  PROVE  \/ Len(T) = 1 /\ Head(T) \in {"int", "string", "LogDefine"}
         \/ Len(T) > 1 /\ Head(T) \in {"list", "set", "map"}
<1>1. Len(T) = 1 \/ Len(T) > 1
  <2>1. Len(T) \in Nat \ {0}
    BY TypeCases
  <2>2. \A n \in Nat \ {0} : n = 1 \/ n > 1
    OBVIOUS
  <2> QED BY <2>1, <2>2
<1>2. CASE Len(T) = 1
  <2>1. Head(T) \in Leaves
    BY <1>2, TypeCases
  <2> QED BY <1>2, <2>1 DEF Leaves
<1>3. CASE Len(T) > 1
  <2>1. Head(T) \in Containers
    BY <1>3, TypeCases
  <2> QED BY <1>3, <2>1 DEF Containers
<1> QED BY <1>1, <1>2, <1>3

LEMMA ContainerHead ==
  ASSUME NEW T, IsType(T), Len(T) > 1
  PROVE  Head(T) \in {"list", "set", "map"}
<1>1. Head(T) \in Containers
  BY TypeCases
<1> QED BY <1>1 DEF Containers

LEMMA PartsIs ==
  ASSUME NEW T, IsType(T), NEW x
  PROVE  /\ Len(T) > 1 => \A what : what \notin {"FromStr", "Casts"} =>
                            Parts(what, T, x) = Elements(T, x)
         /\ \A what \in {"FromStr", "Casts"} :
              /\ Head(T) = "map" =>
                   Parts(what, T, x) = {Emit(Entries(x)[k]) : k \in DOMAIN Entries(x)}
              /\ Head(T) \in {"list", "set"} =>
                   Parts(what, T, x) = {Emit(Items(x)[k]) : k \in DOMAIN Items(x)}
<1>1. Len(T) \in Nat
  BY TypeCases
<1>2. Len(T) > 1 => Len(T) # 1
  BY <1>1
<1>3. Head(T) \in {"map", "list", "set"} => Len(T) # 1
  BY <1>2, HeadCases
<1>4. ASSUME Len(T) # 1, NEW what
      PROVE  Parts(what, T, x) =
               IF what \notin {"FromStr", "Casts"} THEN Elements(T, x)
               ELSE IF Head(T) = "map" THEN {Emit(Entries(x)[k]) : k \in DOMAIN Entries(x)}
               ELSE {Emit(Items(x)[k]) : k \in DOMAIN Items(x)}
  BY <1>4 DEF Parts
<1>5. ASSUME Head(T) = "map", NEW what \in {"FromStr", "Casts"}
      PROVE  Parts(what, T, x) = {Emit(Entries(x)[k]) : k \in DOMAIN Entries(x)}
  BY <1>3, <1>4, <1>5
<1>6. ASSUME Head(T) \in {"list", "set"}, NEW what \in {"FromStr", "Casts"}
      PROVE  Parts(what, T, x) = {Emit(Items(x)[k]) : k \in DOMAIN Items(x)}
  <2>1. Head(T) # "map"
    BY <1>6
  <2> QED BY <1>3, <1>4, <1>6, <2>1
<1> QED BY <1>2, <1>4, <1>5, <1>6

ToStrEquation(T, v) ==
  LET R == Tail(T) IN
  /\ Head(T) \in {"int", "string"} => ToStr(T, v) = v
  /\ Head(T) = "LogDefine" => ToStr(T, v) = LayoutText(MapNode(ToYaml(v)))
  /\ Head(T) = "list" =>
       ToStr(T, v) = Emit(SeqNode([k \in DOMAIN v |-> Item(ToStr(R, v[k]))]))
  /\ Head(T) = "set" =>
       ToStr(T, v) = Emit(SeqNode(SetToSeq({Item(ToStr(R, e)) : e \in v})))
  /\ Head(T) = "map" =>
       ToStr(T, v) = Emit(MapNode([k \in DOMAIN v |-> Entry(ToStr(R, v[k]))]))

LEMMA ToStrIs ==
  ASSUME NEW T, IsType(T), NEW v
  PROVE  ToStrEquation(T, v)
<1> DEFINE R == Tail(T)
           str == [p \in Parts("ToStr", T, v) |-> AllLevels("ToStr", R, p)]
<1>1. ToStr(T, v) = ToStrWith(T, v, str)
  <2>1. AllLevels("ToStr", T, v) = OneLevel("ToStr", T, v, str)
    BY TypeCases, Unfold
  <2> QED BY <2>1 DEF OneLevel, ToStr
<1>2. Len(T) > 1 => Parts("ToStr", T, v) = Elements(T, v)
  BY PartsIs
<1>3. \A e \in Parts("ToStr", T, v) : str[e] = ToStr(R, e)
  BY DEF ToStr
<1> HIDE DEF str, R
<1>4. CASE Head(T) \in {"int", "string", "LogDefine"}
  BY <1>1, <1>4 DEF ToStrWith, ToStrEquation
<1>5. CASE Head(T) = "list"
  <2>1. \A k \in DOMAIN v : str[v[k]] = ToStr(R, v[k])
    BY <1>2, <1>3, <1>5, HeadCases DEF Elements
  <2>2. ToStrWith(T, v, str) = Emit(SeqNode([k \in DOMAIN v |-> Item(str[v[k]])]))
    BY <1>5 DEF ToStrWith
  <2>3. [k \in DOMAIN v |-> Item(str[v[k]])] = [k \in DOMAIN v |-> Item(ToStr(R, v[k]))]
    BY <2>1
  <2> QED BY <1>1, <1>5, <2>2, <2>3 DEF R, ToStrEquation
<1>6. CASE Head(T) = "set"
  <2>1. \A e \in v : str[e] = ToStr(R, e)
    BY <1>2, <1>3, <1>6, HeadCases DEF Elements
  <2>2. ToStrWith(T, v, str) = Emit(SeqNode(SetToSeq({Item(str[e]) : e \in v})))
    BY <1>6 DEF ToStrWith
  <2>3. {Item(str[e]) : e \in v} = {Item(ToStr(R, e)) : e \in v}
    BY <2>1
  <2> QED BY <1>1, <1>6, <2>2, <2>3 DEF R, ToStrEquation
<1>7. CASE Head(T) = "map"
  <2>1. \A k \in DOMAIN v : str[v[k]] = ToStr(R, v[k])
    BY <1>2, <1>3, <1>7, HeadCases DEF Elements
  <2>2. ToStrWith(T, v, str) = Emit(MapNode([k \in DOMAIN v |-> Entry(str[v[k]])]))
    BY <1>7 DEF ToStrWith
  <2>3. [k \in DOMAIN v |-> Entry(str[v[k]])] = [k \in DOMAIN v |-> Entry(ToStr(R, v[k]))]
    BY <2>1
  <2> QED BY <1>1, <1>7, <2>2, <2>3 DEF R, ToStrEquation
<1> QED BY <1>4, <1>5, <1>6, <1>7, HeadCases DEF R, ToStrEquation

LayoutEquation(T, v) ==
  LET R == Tail(T) IN
  /\ Head(T) \in {"int", "string"} => Layout(T, v) = Scalar(v)
  /\ Head(T) = "LogDefine" => Layout(T, v) = MapNode(LayoutOfDefine(v))
  /\ Head(T) = "list" => Layout(T, v) = SeqNode([k \in DOMAIN v |-> Layout(R, v[k])])
  /\ Head(T) = "set" => Layout(T, v) = SeqNode(SetToSeq({Layout(R, e) : e \in v}))
  /\ Head(T) = "map" => Layout(T, v) = MapNode([k \in DOMAIN v |-> Layout(R, v[k])])

LEMMA LayoutIs ==
  ASSUME NEW T, IsType(T), NEW v
  PROVE  LayoutEquation(T, v)
<1> DEFINE R == Tail(T)
           node == [p \in Parts("Layout", T, v) |-> AllLevels("Layout", R, p)]
<1>1. Layout(T, v) = LayoutWith(T, v, node)
  <2>1. AllLevels("Layout", T, v) = OneLevel("Layout", T, v, node)
    BY TypeCases, Unfold
  <2> QED BY <2>1 DEF OneLevel, Layout
<1>2. Len(T) > 1 => Parts("Layout", T, v) = Elements(T, v)
  BY PartsIs
<1>3. \A e \in Parts("Layout", T, v) : node[e] = Layout(R, e)
  BY DEF Layout
<1> HIDE DEF node, R
<1>4. CASE Head(T) \in {"int", "string", "LogDefine"}
  BY <1>1, <1>4 DEF LayoutWith, LayoutEquation
<1>5. CASE Head(T) = "list"
  <2>1. \A k \in DOMAIN v : node[v[k]] = Layout(R, v[k])
    BY <1>2, <1>3, <1>5, HeadCases DEF Elements
  <2>2. LayoutWith(T, v, node) = SeqNode([k \in DOMAIN v |-> node[v[k]]])
    BY <1>5 DEF LayoutWith
  <2>3. [k \in DOMAIN v |-> node[v[k]]] = [k \in DOMAIN v |-> Layout(R, v[k])]
    BY <2>1
  <2> QED BY <1>1, <1>5, <2>2, <2>3 DEF R, LayoutEquation
<1>6. CASE Head(T) = "set"
  <2>1. \A e \in v : node[e] = Layout(R, e)
    BY <1>2, <1>3, <1>6, HeadCases DEF Elements
  <2>2. LayoutWith(T, v, node) = SeqNode(SetToSeq({node[e] : e \in v}))
    BY <1>6 DEF LayoutWith
  <2>3. {node[e] : e \in v} = {Layout(R, e) : e \in v}
    BY <2>1
  <2> QED BY <1>1, <1>6, <2>2, <2>3 DEF R, LayoutEquation
<1>7. CASE Head(T) = "map"
  <2>1. \A k \in DOMAIN v : node[v[k]] = Layout(R, v[k])
    BY <1>2, <1>3, <1>7, HeadCases DEF Elements
  <2>2. LayoutWith(T, v, node) = MapNode([k \in DOMAIN v |-> node[v[k]]])
    BY <1>7 DEF LayoutWith
  <2>3. [k \in DOMAIN v |-> node[v[k]]] = [k \in DOMAIN v |-> Layout(R, v[k])]
    BY <2>1
  <2> QED BY <1>1, <1>7, <2>2, <2>3 DEF R, LayoutEquation
<1> QED BY <1>4, <1>5, <1>6, <1>7, HeadCases DEF R, LayoutEquation

FromStrEquation(T, t) ==
  LET R == Tail(T)
      elements == [k \in DOMAIN Items(t) |-> FromStr(R, Emit(Items(t)[k]))]
  IN
  /\ Head(T) \in {"int", "string"} => FromStr(T, t) = t
  /\ Head(T) = "LogDefine" => FromStr(T, t) = FromYaml(Load(t).entries)
  /\ Head(T) = "list" => FromStr(T, t) = elements
  /\ Head(T) = "set" =>
       FromStr(T, t) = IF R = <<"LogDefine">> THEN FirstOfEachName(elements)
                       ELSE ToSet(elements)
  /\ Head(T) = "map" =>
       FromStr(T, t) = [k \in DOMAIN Entries(t) |-> FromStr(R, Emit(Entries(t)[k]))]

LEMMA FromStrIs ==
  ASSUME NEW T, IsType(T), NEW t
  PROVE  FromStrEquation(T, t)
<1> DEFINE R == Tail(T)
           elements == [k \in DOMAIN Items(t) |-> FromStr(R, Emit(Items(t)[k]))]
           val == [p \in Parts("FromStr", T, t) |-> AllLevels("FromStr", R, p)]
           parts == [k \in DOMAIN Items(t) |-> val[Emit(Items(t)[k])]]
<1>1. FromStr(T, t) = FromStrWith(T, t, val)
  <2>1. AllLevels("FromStr", T, t) = OneLevel("FromStr", T, t, val)
    BY TypeCases, Unfold
  <2> QED BY <2>1 DEF OneLevel, FromStr
<1>2. \A e \in Parts("FromStr", T, t) : val[e] = FromStr(R, e)
  BY DEF FromStr
<1>3. ASSUME Head(T) \in {"list", "set"} PROVE parts = elements
  <2>1. Parts("FromStr", T, t) = {Emit(Items(t)[k]) : k \in DOMAIN Items(t)}
    BY <1>3, PartsIs
  <2> HIDE DEF val, R
  <2>2. \A k \in DOMAIN Items(t) : val[Emit(Items(t)[k])] = FromStr(R, Emit(Items(t)[k]))
    BY <1>2, <2>1
  <2> QED BY <2>2
<1>4. ASSUME Head(T) = "map"
      PROVE  [k \in DOMAIN Entries(t) |-> val[Emit(Entries(t)[k])]]
               = [k \in DOMAIN Entries(t) |-> FromStr(R, Emit(Entries(t)[k]))]
  <2>1. Parts("FromStr", T, t) = {Emit(Entries(t)[k]) : k \in DOMAIN Entries(t)}
    BY <1>4, PartsIs
  <2> HIDE DEF val, R
  <2>2. \A k \in DOMAIN Entries(t) :
          val[Emit(Entries(t)[k])] = FromStr(R, Emit(Entries(t)[k]))
    BY <1>2, <2>1
  <2> QED BY <2>2
<1> HIDE DEF val, elements
<1>5. Head(T) \in {"int", "string"} => FromStr(T, t) = t
  BY <1>1 DEF FromStrWith
<1>6. Head(T) = "LogDefine" => FromStr(T, t) = FromYaml(Load(t).entries)
  BY <1>1 DEF FromStrWith
<1>7. Head(T) = "list" => FromStr(T, t) = elements
  BY <1>1, <1>3 DEF FromStrWith
<1>8. Head(T) = "set" =>
        FromStr(T, t) = IF R = <<"LogDefine">> THEN FirstOfEachName(elements)
                        ELSE ToSet(elements)
  BY <1>1, <1>3 DEF FromStrWith
<1>9. Head(T) = "map" =>
        FromStr(T, t) = [k \in DOMAIN Entries(t) |-> FromStr(R, Emit(Entries(t)[k]))]
  BY <1>1, <1>4 DEF FromStrWith
<1> QED BY <1>5, <1>6, <1>7, <1>8, <1>9 DEF elements, FromStrEquation

LEMMA CastsIs ==
  ASSUME NEW T, IsType(T), NEW t
  PROVE  LET R == Tail(T) IN
         /\ Head(T) = "int" => (Casts(T, t) <=> t \in Ints)
         /\ Head(T) = "string" => Casts(T, t)
         /\ Head(T) = "LogDefine" =>
              (Casts(T, t) <=> Load(t).kind = "map" /\ Readable(Load(t).entries))
         /\ Head(T) \in {"list", "set"} =>
              (Casts(T, t) <=> \A k \in DOMAIN Items(t) : Casts(R, Emit(Items(t)[k])))
         /\ Head(T) = "map" =>
              (Casts(T, t) <=> \A k \in DOMAIN Entries(t) : Casts(R, Emit(Entries(t)[k])))
<1> DEFINE R == Tail(T)
           casts == [p \in Parts("Casts", T, t) |-> AllLevels("Casts", R, p)]
<1>1. Casts(T, t) = CastsWith(T, t, casts)
  <2>1. AllLevels("Casts", T, t) = OneLevel("Casts", T, t, casts)
    BY TypeCases, Unfold
  <2> QED BY <2>1 DEF OneLevel, Casts
<1>2. \A e \in Parts("Casts", T, t) : casts[e] = Casts(R, e)
  BY DEF Casts
<1>3. ASSUME Head(T) \in {"list", "set"}
      PROVE  \A k \in DOMAIN Items(t) : casts[Emit(Items(t)[k])] = Casts(R, Emit(Items(t)[k]))
  <2>1. Parts("Casts", T, t) = {Emit(Items(t)[k]) : k \in DOMAIN Items(t)}
    BY <1>3, PartsIs
  <2> HIDE DEF casts, R
  <2> QED BY <1>2, <2>1
<1>4. ASSUME Head(T) = "map"
      PROVE  \A k \in DOMAIN Entries(t) :
               casts[Emit(Entries(t)[k])] = Casts(R, Emit(Entries(t)[k]))
  <2>1. Parts("Casts", T, t) = {Emit(Entries(t)[k]) : k \in DOMAIN Entries(t)}
    BY <1>4, PartsIs
  <2> HIDE DEF casts, R
  <2> QED BY <1>2, <2>1
<1> HIDE DEF casts
<1>5. CASE Head(T) \in {"int", "string", "LogDefine"}
  BY <1>1, <1>5 DEF CastsWith
<1>6. CASE Head(T) \in {"list", "set"}
  BY <1>1, <1>3, <1>6 DEF CastsWith
<1>7. CASE Head(T) = "map"
  BY <1>1, <1>4, <1>7 DEF CastsWith
<1> QED BY <1>5, <1>6, <1>7, HeadCases

LEMMA HoldsQuotableIs ==
  ASSUME NEW T, IsType(T), NEW v
  PROVE  /\ Len(T) = 1 => (HoldsQuotable(T, v) <=> Head(T) = "string" /\ ~IsPlain(v))
         /\ Len(T) > 1 => (HoldsQuotable(T, v) <=>
                             \E e \in Elements(T, v) : HoldsQuotable(Tail(T), e))
<1> DEFINE R == Tail(T)
           holds == [p \in Parts("HoldsQuotable", T, v) |-> AllLevels("HoldsQuotable", R, p)]
<1>1. HoldsQuotable(T, v) = HoldsQuotableWith(T, v, holds)
  <2>1. AllLevels("HoldsQuotable", T, v) = OneLevel("HoldsQuotable", T, v, holds)
    BY TypeCases, Unfold
  <2> QED BY <2>1 DEF OneLevel, HoldsQuotable
<1>2. Len(T) > 1 => \A e \in Elements(T, v) : holds[e] = HoldsQuotable(R, e)
  BY PartsIs DEF HoldsQuotable
<1>3. Len(T) \in Nat /\ (Len(T) = 1 => ~(Len(T) > 1))
  BY TypeCases
<1> HIDE DEF holds
<1>4. Len(T) = 1 => (HoldsQuotable(T, v) <=> Head(T) = "string" /\ ~IsPlain(v))
  BY <1>1, <1>3 DEF HoldsQuotableWith
<1>5. ASSUME Len(T) > 1
      PROVE  HoldsQuotable(T, v) <=> \E e \in Elements(T, v) : HoldsQuotable(R, e)
  <2>1. HoldsQuotable(T, v) <=> \E e \in Elements(T, v) : holds[e]
    BY <1>1, <1>5 DEF HoldsQuotableWith
  <2> QED BY <1>2, <1>5, <2>1
<1> QED BY <1>4, <1>5

LEMMA SurvivesIs ==
  ASSUME NEW T, IsType(T), NEW v
  PROVE  LET R == Tail(T) IN
         /\ Head(T) = "map" => (Survives(T, v) <=> \A e \in Elements(T, v) : Survives(R, e))
         /\ Head(T) \in {"list", "set"} =>
              (Survives(T, v) <=>
                 \A e \in Elements(T, v) :
                   IF Len(T) > 2 THEN e = Empty(R)
                   ELSE R # <<"LogDefine">> /\ (R = <<"string">> => IsPlain(e)))
         /\ Head(T) = "LogDefine" =>
              (Survives(T, v) <=>
                 v.formatter = "" /\ \A k \in DOMAIN v.appenders : v.appenders[k].type = 2)
         /\ Head(T) \in {"int", "string"} => Survives(T, v)
<1> DEFINE R == Tail(T)
           survives == [p \in Parts("Survives", T, v) |-> AllLevels("Survives", R, p)]
<1>1. Survives(T, v) = SurvivesWith(T, v, survives)
  <2>1. AllLevels("Survives", T, v) = OneLevel("Survives", T, v, survives)
    BY TypeCases, Unfold
  <2> QED BY <2>1 DEF OneLevel, Survives
<1>2. Len(T) > 1 => \A e \in Elements(T, v) : survives[e] = Survives(R, e)
  BY PartsIs DEF Survives
<1> HIDE DEF survives
<1> QED BY <1>1, <1>2, HeadCases DEF SurvivesWith

LEMMA RefusedIs ==
  ASSUME NEW T, IsType(T), NEW v
  PROVE  LET R == Tail(T) IN
         /\ Head(T) = "map" => (Refused(T, v) <=> \E e \in Elements(T, v) : Refused(R, e))
         /\ Head(T) # "map" =>
              (Refused(T, v) <=> R = <<"LogDefine">> /\ Elements(T, v) # {})
<1> DEFINE R == Tail(T)
           refused == [p \in Parts("Refused", T, v) |-> AllLevels("Refused", R, p)]
<1>1. Refused(T, v) = RefusedWith(T, v, refused)
  <2>1. AllLevels("Refused", T, v) = OneLevel("Refused", T, v, refused)
    BY TypeCases, Unfold
  <2> QED BY <2>1 DEF OneLevel, Refused
<1>2. Len(T) > 1 => \A e \in Elements(T, v) : refused[e] = Refused(R, e)
  BY PartsIs DEF Refused
<1> HIDE DEF refused
<1> QED BY <1>1, <1>2, HeadCases DEF RefusedWith

LEMMA IsValueIs ==
  ASSUME NEW T, IsType(T), NEW v
  PROVE  LET R == Tail(T) IN
         /\ Head(T) = "int" => (IsValue(T, v) <=> v \in Ints)
         /\ Head(T) = "string" =>
              (IsValue(T, v) <=>
                 v.quotes = 0 /\ DOMAIN v \in {{"quotes", "plain"}, {"quotes", "yaml"}})
         /\ Head(T) = "LogDefine" => (IsValue(T, v) <=> IsDefine(v))
         /\ Head(T) = "list" =>
              (IsValue(T, v) <=> /\ \A e \in Elements(T, v) : IsValue(R, e)
                                 /\ v \in Seq(Elements(T, v)))
         /\ Head(T) = "set" =>
              (IsValue(T, v) <=> /\ \A e \in Elements(T, v) : IsValue(R, e)
                                 /\ IsFiniteSet(v)
                                 /\ R = <<"LogDefine">> =>
                                      \A d, e \in v : d.name = e.name => d = e)
         /\ Head(T) = "map" =>
              (IsValue(T, v) <=> /\ \A e \in Elements(T, v) : IsValue(R, e)
                                 /\ v \in [DOMAIN v -> Elements(T, v)])
<1> DEFINE R == Tail(T)
           is == [p \in Parts("IsValue", T, v) |-> AllLevels("IsValue", R, p)]
<1>1. IsValue(T, v) = IsValueWith(T, v, is)
  <2>1. AllLevels("IsValue", T, v) = OneLevel("IsValue", T, v, is)
    BY TypeCases, Unfold
  <2> QED BY <2>1 DEF OneLevel, IsValue
<1>2. Len(T) > 1 => \A e \in Elements(T, v) : is[e] = IsValue(R, e)
  BY PartsIs DEF IsValue
<1>3. Len(T) \in Nat /\ (Len(T) = 1 => ~(Len(T) > 1))
  BY TypeCases
<1> HIDE DEF is, R
<1>4. ASSUME Len(T) > 1
      PROVE  (\A e \in Elements(T, v) : is[e]) <=> \A e \in Elements(T, v) : IsValue(R, e)
  BY <1>2, <1>4
<1>5. CASE Head(T) \in {"int", "string", "LogDefine"}
  BY <1>1, <1>3, <1>5, HeadCases DEF IsValueWith
<1>6. CASE Head(T) = "list"
  <2>1. IsValue(T, v) <=> /\ \A e \in Elements(T, v) : IsValue(R, e)
                          /\ v \in Seq(Elements(T, v))
    BY <1>1, <1>4, <1>6, HeadCases DEF IsValueWith
  <2> QED BY <1>6, <2>1 DEF R
<1>7. CASE Head(T) = "set"
  <2>1. IsValue(T, v) <=> /\ \A e \in Elements(T, v) : is[e]
                          /\ IsFiniteSet(v)
                          /\ R = <<"LogDefine">> =>
                               \A d, e \in v : d.name = e.name => d = e
    BY <1>1, <1>7, HeadCases DEF IsValueWith, R
  <2> QED BY <1>4, <1>7, <2>1, HeadCases DEF R
<1>8. CASE Head(T) = "map"
  <2>1. IsValue(T, v) <=> /\ \A e \in Elements(T, v) : IsValue(R, e)
                          /\ v \in [DOMAIN v -> Elements(T, v)]
    BY <1>1, <1>4, <1>8, HeadCases DEF IsValueWith
  <2> QED BY <1>8, <2>1 DEF R
<1> QED BY <1>5, <1>6, <1>7, <1>8, HeadCases

-----------------------------------------------------------------------------
(* A file is read *)

\* In a sequence of definitions with one of each name, all are the first.
LEMMA AllAreFirst ==
  ASSUME NEW n \in Nat, NEW ds, DOMAIN ds = 1 .. n,
         \A j, k \in 1 .. n : ds[j].name = ds[k].name => ds[j] = ds[k]
  PROVE  FirstOfEachName(ds) = {ds[k] : k \in 1 .. n}
<1>1. ASSUME NEW k \in 1 .. n PROVE ds[k] \in FirstOfEachName(ds)
  <2> DEFINE Same == {j \in 1 .. n : ds[j].name = ds[k].name}
  <2>1. Same \in SUBSET Nat /\ Same # {}
    OBVIOUS
  <2>2. PICK m \in Same : \A j \in Same : m <= j
    <3> HIDE DEF Same
    <3> QED BY <2>1, LeastNat
  <2>3. \A j \in 1 .. m - 1 : ds[j].name # ds[m].name
    BY <2>2
  <2>4. ds[m] = ds[k]
    OBVIOUS
  <2> QED BY <2>3, <2>4 DEF FirstOfEachName
<1>2. FirstOfEachName(ds) \subseteq {ds[k] : k \in 1 .. n}
  BY DEF FirstOfEachName
<1> QED BY <1>1, <1>2

\* What reading a file makes of v: v itself, or no value a file describes.
ReadsFile(T, v) ==
  LET t == Emit(Layout(T, v)) IN
  /\ Casts(T, t)
  /\ ~HoldsQuotable(T, v) => FromStr(T, t) = v
  /\ HoldsQuotable(T, v) => ~IsValue(T, FromStr(T, t))

LEMMA LeafIsRead ==
  ASSUME NEW T, IsType(T), Len(T) = 1, NEW v, IsValue(T, v)
  PROVE  ReadsFile(T, v)
<1> DEFINE t == Emit(Layout(T, v))
<1>1. HoldsQuotable(T, v) <=> Head(T) = "string" /\ ~IsPlain(v)
  BY HoldsQuotableIs
<1>2. CASE Head(T) = "int"
  <2>1. v \in Ints
    BY <1>2, IsValueIs
  <2>2. Layout(T, v) = Scalar(v)
    BY <1>2, LayoutIs DEF LayoutEquation
  <2>3. t = v
    BY <2>1, <2>2, LexicalCastAssumption DEF Emit, Scalar
  <2>4. Casts(T, t) /\ FromStr(T, t) = v
    BY <1>2, <2>1, <2>3, CastsIs, FromStrIs DEF FromStrEquation
  <2> QED BY <1>1, <1>2, <2>4 DEF ReadsFile
<1>3. CASE Head(T) = "string"
  <2>1. v.quotes = 0 /\ DOMAIN v \in {{"quotes", "plain"}, {"quotes", "yaml"}}
    BY <1>3, IsValueIs
  <2>2. Layout(T, v) = Scalar(v)
    BY <1>3, LayoutIs DEF LayoutEquation
  <2>3. Casts(T, t) /\ FromStr(T, t) = t
    BY <1>3, CastsIs, FromStrIs DEF FromStrEquation
  <2>4. CASE IsPlain(v)
    <3>1. t = v
      BY <2>2, <2>4 DEF Emit, Scalar
    <3> QED BY <1>1, <2>3, <2>4, <3>1 DEF ReadsFile
  <2>5. CASE ~IsPlain(v)
    <3>1. t = [v EXCEPT !.quotes = @ + 1]
      BY <2>2, <2>5 DEF Emit, Scalar
    <3>2. t.quotes = 1
      BY <2>1, <3>1
    <3>3. ~IsValue(T, t)
      BY <1>3, <3>2, IsValueIs
    <3> QED BY <1>1, <1>3, <2>3, <2>5, <3>3 DEF ReadsFile
  <2> QED BY <2>4, <2>5
<1>4. CASE Head(T) = "LogDefine"
  <2> DEFINE node == LayoutOfDefine(v)
  <2>1. IsDefine(v)
    BY <1>4, IsValueIs
  <2>2. "name" \in DOMAIN node /\ FromYaml(node) = v
    BY <2>1, DefineIsRead
  <2>3. node \in [DOMAIN node -> {node[key] : key \in DOMAIN node}]
    BY DEF LayoutOfDefine
  <2> HIDE DEF node
  <2>4. /\ Emit(MapNode(node)) = LayoutText(MapNode(node))
        /\ Load(LayoutText(MapNode(node))) = MapNode(node)
    BY <2>3, MapText
  <2>5. t = LayoutText(MapNode(node))
    BY <1>4, <2>4, LayoutIs DEF LayoutEquation, node
  <2>6. Load(t).kind = "map" /\ Load(t).entries = node
    BY <2>2, <2>4, <2>5 DEF MapNode
  <2>7. Casts(T, t) /\ FromStr(T, t) = v
    <3> HIDE DEF t
    <3>1. Casts(T, t)
      BY <1>4, <2>2, <2>6, CastsIs DEF Readable
    <3>2. FromStr(T, t) = v
      BY <1>4, <2>2, <2>6, FromStrIs DEF FromStrEquation
    <3> QED BY <3>1, <3>2
  <2>8. ~HoldsQuotable(T, v)
    BY <1>1, <1>4
  <2> QED BY <2>7, <2>8 DEF ReadsFile
<1>5. Head(T) \in {"int", "string", "LogDefine"}
  <2>1. ~(Len(T) > 1)
    OBVIOUS
  <2> QED BY <2>1, HeadCases
<1> QED BY <1>2, <1>3, <1>4, <1>5

LEMMA ListIsRead ==
  ASSUME NEW T, IsType(T), Head(T) = "list", NEW v, IsValue(T, v),
         \A e : IsValue(Tail(T), e) => ReadsFile(Tail(T), e)
  PROVE  ReadsFile(T, v)
<1> DEFINE R == Tail(T)
           items == [k \in DOMAIN v |-> Layout(R, v[k])]
           t == LayoutText(SeqNode(items))
           w == [k \in DOMAIN v |-> FromStr(R, Emit(Layout(R, v[k])))]
<1>1. v \in Seq(Elements(T, v)) /\ \A e \in Elements(T, v) : ReadsFile(R, e)
  BY IsValueIs
<1>2. Elements(T, v) = {v[k] : k \in DOMAIN v}
  BY DEF Elements
<1>3. items \in Seq({Layout(R, e) : e \in Elements(T, v)})
  BY <1>1, <1>2
<1>4. Emit(SeqNode(items)) = t /\ Items(t) = items
  <2> HIDE DEF items
  <2> QED BY <1>3, SeqText
<1>5. Emit(Layout(T, v)) = t
  BY <1>4, LayoutIs DEF LayoutEquation
<1> HIDE DEF t
<1>6. Casts(T, t)
  <2>1. \A k \in DOMAIN v : Casts(R, Emit(Layout(R, v[k])))
    BY <1>1, <1>2 DEF ReadsFile
  <2>2. \A k \in DOMAIN items : Casts(R, Emit(items[k]))
    BY <2>1
  <2> QED BY <1>4, <2>2, CastsIs
<1>7. FromStr(T, t) = w
  <2>1. FromStr(T, t) = [k \in DOMAIN Items(t) |-> FromStr(R, Emit(Items(t)[k]))]
    <3>1. FromStrEquation(T, t)
      BY FromStrIs
    <3> QED BY <3>1 DEF FromStrEquation
  <2> QED BY <1>4, <2>1
<1>8. Len(T) > 1
  BY HeadCases
<1>9. HoldsQuotable(T, v) <=> \E k \in DOMAIN v : HoldsQuotable(R, v[k])
  BY <1>2, <1>8, HoldsQuotableIs
<1>10. ASSUME ~HoldsQuotable(T, v) PROVE w = v
  <2>1. \A k \in DOMAIN v : FromStr(R, Emit(Layout(R, v[k]))) = v[k]
    BY <1>1, <1>2, <1>9, <1>10 DEF ReadsFile
  <2> QED BY <1>1, <2>1
<1>11. ASSUME HoldsQuotable(T, v) PROVE ~IsValue(T, w)
  <2>1. PICK k \in DOMAIN v : ~IsValue(R, FromStr(R, Emit(Layout(R, v[k]))))
    BY <1>1, <1>2, <1>9, <1>11 DEF ReadsFile
  <2>2. w[k] \in Elements(T, w) /\ ~IsValue(R, w[k])
    BY <2>1 DEF Elements
  <2> HIDE DEF w
  <2> QED BY <2>2, IsValueIs
<1> QED BY <1>5, <1>6, <1>7, <1>10, <1>11 DEF ReadsFile

LEMMA MapIsRead ==
  ASSUME NEW T, IsType(T), Head(T) = "map", NEW v, IsValue(T, v),
         \A e : IsValue(Tail(T), e) => ReadsFile(Tail(T), e)
  PROVE  ReadsFile(T, v)
<1> DEFINE R == Tail(T)
           entries == [k \in DOMAIN v |-> Layout(R, v[k])]
           t == LayoutText(MapNode(entries))
           w == [k \in DOMAIN v |-> FromStr(R, Emit(Layout(R, v[k])))]
<1>1. v \in [DOMAIN v -> Elements(T, v)] /\ \A e \in Elements(T, v) : ReadsFile(R, e)
  BY IsValueIs
<1>2. Elements(T, v) = {v[k] : k \in DOMAIN v}
  BY DEF Elements
<1>3. entries \in [DOMAIN v -> {Layout(R, e) : e \in Elements(T, v)}]
  BY <1>1, <1>2
<1>4. Emit(MapNode(entries)) = t /\ Entries(t) = entries
  <2> HIDE DEF entries
  <2> QED BY <1>3, MapText
<1>5. Emit(Layout(T, v)) = t
  BY <1>4, LayoutIs DEF LayoutEquation
<1> HIDE DEF t
<1>6. Casts(T, t)
  <2>1. \A k \in DOMAIN v : Casts(R, Emit(Layout(R, v[k])))
    BY <1>1, <1>2 DEF ReadsFile
  <2>2. \A k \in DOMAIN entries : Casts(R, Emit(entries[k]))
    BY <2>1
  <2> QED BY <1>4, <2>2, CastsIs
<1>7. FromStr(T, t) = w
  <2>1. FromStr(T, t) = [k \in DOMAIN Entries(t) |-> FromStr(R, Emit(Entries(t)[k]))]
    <3>1. FromStrEquation(T, t)
      BY FromStrIs
    <3> QED BY <3>1 DEF FromStrEquation
  <2> QED BY <1>4, <2>1
<1>8. Len(T) > 1
  BY HeadCases
<1>9. HoldsQuotable(T, v) <=> \E k \in DOMAIN v : HoldsQuotable(R, v[k])
  BY <1>2, <1>8, HoldsQuotableIs
<1>10. ASSUME ~HoldsQuotable(T, v) PROVE w = v
  <2>1. \A k \in DOMAIN v : FromStr(R, Emit(Layout(R, v[k]))) = v[k]
    BY <1>1, <1>2, <1>9, <1>10 DEF ReadsFile
  <2> QED BY <1>1, <2>1
<1>11. ASSUME HoldsQuotable(T, v) PROVE ~IsValue(T, w)
  <2>1. PICK k \in DOMAIN v : ~IsValue(R, FromStr(R, Emit(Layout(R, v[k]))))
    BY <1>1, <1>2, <1>9, <1>11 DEF ReadsFile
  <2>2. w[k] \in Elements(T, w) /\ ~IsValue(R, w[k])
    BY <2>1 DEF Elements
  <2> HIDE DEF w
  <2> QED BY <2>2, IsValueIs
<1> QED BY <1>5, <1>6, <1>7, <1>10, <1>11 DEF ReadsFile

LEMMA SetIsRead ==
  ASSUME NEW T, IsType(T), Head(T) = "set", NEW v, IsValue(T, v),
         \A e : IsValue(Tail(T), e) => ReadsFile(Tail(T), e)
  PROVE  ReadsFile(T, v)
<1> DEFINE R == Tail(T)
           nodes == {Layout(R, e) : e \in v}
           items == SetToSeq(nodes)
           t == LayoutText(SeqNode(items))
           w == [k \in DOMAIN items |-> FromStr(R, Emit(items[k]))]
           back == {FromStr(R, Emit(Layout(R, e))) : e \in v}
<1>1. /\ IsFiniteSet(v) /\ \A e \in v : IsValue(R, e) /\ ReadsFile(R, e)
      /\ R = <<"LogDefine">> => \A d, e \in v : d.name = e.name => d = e
  BY IsValueIs DEF Elements
<1>2. IsFiniteSet(nodes)
  <2> DEFINE f == [e \in v |-> Layout(R, e)]
  <2>1. nodes = {f[e] : e \in v}
    OBVIOUS
  <2>2. DOMAIN f = v
    OBVIOUS
  <2> HIDE DEF f
  <2>3. IsFiniteSet({f[e] : e \in v})
    BY <1>1, <2>2, FiniteImage
  <2> QED BY <2>1, <2>3
<1>3. items \in Seq(nodes) /\ {items[k] : k \in DOMAIN items} = nodes
  <2> HIDE DEF nodes
  <2> QED BY <1>2, SeqOfSet
<1>4. Emit(SeqNode(items)) = t /\ Items(t) = items
  <2> HIDE DEF items, nodes
  <2> QED BY <1>3, SeqText
<1>5. Emit(Layout(T, v)) = t
  BY <1>4, LayoutIs DEF LayoutEquation
<1> HIDE DEF t, items
<1>6. /\ \A k \in DOMAIN items : \E e \in v : items[k] = Layout(R, e)
      /\ \A e \in v : \E k \in DOMAIN items : items[k] = Layout(R, e)
  BY <1>3
<1>7. Casts(T, t)
  <2>1. \A k \in DOMAIN items : Casts(R, Emit(items[k]))
    BY <1>1, <1>6 DEF ReadsFile
  <2> QED BY <1>4, <2>1, CastsIs
<1>8. FromStr(T, t) = IF R = <<"LogDefine">> THEN FirstOfEachName(w) ELSE ToSet(w)
  <2>1. FromStrEquation(T, t)
    BY FromStrIs
  <2>2. FromStr(T, t) =
          LET elements == [k \in DOMAIN Items(t) |-> FromStr(R, Emit(Items(t)[k]))] IN
            IF R = <<"LogDefine">> THEN FirstOfEachName(elements) ELSE ToSet(elements)
    BY <2>1 DEF FromStrEquation
  <2> QED BY <1>4, <2>2
<1>9. {w[k] : k \in DOMAIN w} = back
  BY <1>6
<1>10. Len(T) > 1
  BY HeadCases
<1>11. HoldsQuotable(T, v) <=> \E e \in v : HoldsQuotable(R, e)
  BY <1>10, HoldsQuotableIs DEF Elements
<1>12. (~HoldsQuotable(T, v)) => back = v
  <2> SUFFICES ASSUME ~HoldsQuotable(T, v) PROVE back = v
    OBVIOUS
  <2>1. \A e \in v : FromStr(R, Emit(Layout(R, e))) = e
    BY <1>1, <1>11 DEF ReadsFile
  <2> QED BY <2>1
<1>13. CASE R = <<"LogDefine">>
  <2>1. ~HoldsQuotable(T, v)
    <3>1. IsType(R) /\ Len(R) = 1 /\ Head(R) = "LogDefine"
      BY <1>10, <1>13, TypeCases
    <3>2. \A e \in v : ~HoldsQuotable(R, e)
      BY <3>1, HoldsQuotableIs
    <3> QED BY <1>11, <3>2
  <2>2. back = v
    BY <1>12, <2>1
  <2>3. Len(items) \in Nat /\ DOMAIN w = 1 .. Len(items)
    BY <1>3
  <2>4. \A k \in 1 .. Len(items) : w[k] \in v
    BY <1>9, <2>2, <2>3
  <2> HIDE DEF w
  <2>5. \A j, k \in 1 .. Len(items) : w[j].name = w[k].name => w[j] = w[k]
    BY <1>1, <1>13, <2>4
  <2>6. FirstOfEachName(w) = {w[k] : k \in 1 .. Len(items)}
    BY <2>3, <2>5, AllAreFirst
  <2>7. FromStr(T, t) = v
    BY <1>8, <1>9, <1>13, <2>2, <2>3, <2>6
  <2> QED BY <1>5, <1>7, <2>1, <2>7 DEF ReadsFile
<1>14. CASE R # <<"LogDefine">>
  <2>1. FromStr(T, t) = back
    BY <1>8, <1>9, <1>14 DEF ToSet
  <2>2. ASSUME HoldsQuotable(T, v) PROVE ~IsValue(T, back)
    <3>1. PICK e \in v : ~IsValue(R, FromStr(R, Emit(Layout(R, e))))
      BY <1>1, <1>11, <2>2 DEF ReadsFile
    <3>2. \E b \in back : ~IsValue(R, b)
      BY <3>1
    <3> HIDE DEF back
    <3> QED BY <3>2, IsValueIs DEF Elements
  <2> HIDE DEF back
  <2> QED BY <1>5, <1>7, <1>12, <2>1, <2>2 DEF ReadsFile
<1> QED BY <1>13, <1>14

\* A value without strings that need quotes is read as the file has it, and one
\* with them is not; by induction over the length of the type.
THEOREM FileIsRead ==
  ASSUME NEW T, IsType(T), NEW v, IsValue(T, v)
  PROVE  ReadsFile(T, v)
<1> DEFINE S == {n \in Nat : \A U, x : IsType(U) /\ Len(U) = n /\ IsValue(U, x)
                                      => ReadsFile(U, x)}
<1>1. 0 \in S
  <2>1. \A U : IsType(U) => Len(U) # 0
    BY TypeCases
  <2> QED BY <2>1
<1>2. ASSUME NEW n \in S PROVE n + 1 \in S
  <2> SUFFICES ASSUME NEW U, NEW x, IsType(U), Len(U) = n + 1, IsValue(U, x)
               PROVE  ReadsFile(U, x)
    OBVIOUS
  <2>1. CASE Len(U) = 1
    BY <2>1, LeafIsRead
  <2>2. CASE Len(U) > 1
    <3>1. IsType(Tail(U)) /\ Len(Tail(U)) = n
      BY <2>2, TypeCases
    <3>2. \A e : IsValue(Tail(U), e) => ReadsFile(Tail(U), e)
      BY <3>1
    <3>3. CASE Head(U) = "list"
      BY <3>2, <3>3, ListIsRead
    <3>4. CASE Head(U) = "set"
      BY <3>2, <3>4, SetIsRead
    <3>5. CASE Head(U) = "map"
      BY <3>2, <3>5, MapIsRead
    <3>6. Head(U) \in {"list", "set", "map"}
      <4>1. Len(U) # 1
        BY <2>2
      <4> QED BY <4>1, HeadCases
    <3> QED BY <3>3, <3>4, <3>5, <3>6
  <2> QED BY <2>1, <2>2, HeadCases
<1>3. S = Nat
  <2> HIDE DEF S
  <2> QED BY <1>1, <1>2, Induct DEF S
<1>4. Len(T) \in Nat
  BY TypeCases
<1> QED BY <1>3, <1>4

-----------------------------------------------------------------------------
(* A value comes back from its own string, or something else does *)

\* The string of a container or a LogDefine is the layout of a node that is no
\* scalar.
LEMMA StringIsLayout ==
  ASSUME NEW T, IsType(T), Head(T) \notin {"int", "string"}, NEW v
  PROVE  \E node : node.kind # "scalar" /\ ToStr(T, v) = LayoutText(node)
<1>1. \A items : SeqNode(items).kind # "scalar" /\ Emit(SeqNode(items)) = LayoutText(SeqNode(items))
  BY DEF SeqNode, Null, Emit
<1>2. \A entries : /\ MapNode(entries).kind # "scalar"
                   /\ Emit(MapNode(entries)) = LayoutText(MapNode(entries))
  BY DEF MapNode, Null, Emit
<1>3. ToStrEquation(T, v)
  BY ToStrIs
<1>4. CASE Head(T) = "LogDefine"
  BY <1>2, <1>3, <1>4 DEF ToStrEquation
<1>5. CASE Head(T) = "list"
  BY <1>1, <1>3, <1>5 DEF ToStrEquation
<1>6. CASE Head(T) = "set"
  BY <1>1, <1>3, <1>6 DEF ToStrEquation
<1>7. CASE Head(T) = "map"
  BY <1>2, <1>3, <1>7 DEF ToStrEquation
<1> QED BY <1>4, <1>5, <1>6, <1>7, HeadCases

\* Put in as an item it is quoted, and read as a scalar.
LEMMA LayoutIsQuoted ==
  ASSUME NEW node
  PROVE  LET t == Emit(Item(LayoutText(node))) IN
           Load(t).kind = "scalar" /\ Items(t) = <<>> /\ Entries(t) = <<>>
<1> DEFINE t == Emit(Item(LayoutText(node)))
<1>1. t.quotes = 1 /\ ~IsPlain(t)
  BY DEF Emit, Item, Scalar, LayoutText, IsPlain
<1>2. Load(t).kind = "scalar"
  BY <1>1 DEF Load, Scalar
<1> QED BY <1>2 DEF Items, Entries

\* A scalar is an empty container, and no LogDefine.
LEMMA ScalarIsRead ==
  ASSUME NEW T, IsType(T), NEW t, Load(t).kind = "scalar"
  PROVE  /\ Len(T) > 1 => Casts(T, t) /\ FromStr(T, t) = Empty(T)
         /\ Head(T) = "LogDefine" => ~Casts(T, t)
<1>1. Items(t) = <<>> /\ Entries(t) = <<>>
  BY DEF Items, Entries
<1>2. Head(T) = "LogDefine" => ~Casts(T, t)
  BY CastsIs
<1>3. ASSUME Len(T) > 1 PROVE Casts(T, t) /\ FromStr(T, t) = Empty(T)
  <2>1. FromStrEquation(T, t)
    BY FromStrIs
  <2>2. Head(T) \in {"list", "set", "map"}
    BY <1>3, ContainerHead
  <2>3. Casts(T, t)
    BY <1>1, <2>2, CastsIs
  <2>4. CASE Head(T) = "list"
    <3> DEFINE elements == [k \in DOMAIN Items(t) |-> FromStr(Tail(T), Emit(Items(t)[k]))]
    <3>1. elements = <<>>
      BY <1>1
    <3>2. FromStr(T, t) = elements
      BY <2>1, <2>4 DEF FromStrEquation
    <3> QED BY <2>3, <2>4, <3>1, <3>2 DEF Empty
  <2>5. CASE Head(T) = "set"
    <3> DEFINE elements == [k \in DOMAIN Items(t) |-> FromStr(Tail(T), Emit(Items(t)[k]))]
    <3>1. elements = <<>>
      BY <1>1
    <3>2. FromStr(T, t) = IF Tail(T) = <<"LogDefine">> THEN FirstOfEachName(elements)
                          ELSE ToSet(elements)
      BY <2>1, <2>5 DEF FromStrEquation
    <3>3. FirstOfEachName(<<>>) = {} /\ ToSet(<<>>) = {}
      BY DEF FirstOfEachName, ToSet
    <3> QED BY <2>3, <2>5, <3>1, <3>2, <3>3 DEF Empty
  <2>6. CASE Head(T) = "map"
    <3> DEFINE elements == [k \in DOMAIN Entries(t) |-> FromStr(Tail(T), Emit(Entries(t)[k]))]
    <3>1. elements = <<>>
      BY <1>1
    <3>2. FromStr(T, t) = elements
      BY <2>1, <2>6 DEF FromStrEquation
    <3> QED BY <2>3, <2>6, <3>1, <3>2 DEF Empty
  <2> QED BY <2>2, <2>3, <2>4, <2>5, <2>6
<1> QED BY <1>2, <1>3

LEMMA EmptyIsValue ==
  ASSUME NEW T, IsType(T), Len(T) > 1
  PROVE  IsValue(T, Empty(T)) /\ ~HoldsQuotable(T, Empty(T))
<1>1. Head(T) \in {"list", "set", "map"}
  BY ContainerHead
<1>2. Elements(T, Empty(T)) = {}
  <2>1. CASE Head(T) = "set"
    BY <2>1 DEF Elements, Empty
  <2>2. CASE Head(T) \in {"list", "map"}
    <3>1. Empty(T) = <<>>
      BY <2>2 DEF Empty
    <3> QED BY <2>2, <3>1 DEF Elements
  <2> QED BY <1>1, <2>1, <2>2
<1>3. ~HoldsQuotable(T, Empty(T))
  BY <1>2, HoldsQuotableIs
<1>4. CASE Head(T) = "list"
  <2>1. Empty(T) \in Seq(Elements(T, Empty(T)))
    <3>1. Empty(T) = <<>>
      BY <1>4 DEF Empty
    <3> QED BY <3>1
  <2> QED BY <1>2, <1>3, <1>4, <2>1, IsValueIs
<1>5. CASE Head(T) = "set"
  <2>1. Empty(T) = {} /\ IsFiniteSet(Empty(T))
    BY <1>5, FS_EmptySet DEF Empty
  <2> QED BY <1>2, <1>3, <1>5, <2>1, IsValueIs
<1>6. CASE Head(T) = "map"
  <2>1. Empty(T) \in [DOMAIN Empty(T) -> Elements(T, Empty(T))]
    <3>1. Empty(T) = <<>>
      BY <1>6 DEF Empty
    <3> QED BY <3>1
  <2> QED BY <1>2, <1>3, <1>6, <2>1, IsValueIs
<1> QED BY <1>1, <1>4, <1>5, <1>6

\* What a list or a set has for its element e.
Part(T, e) == Emit(Item(ToStr(T, e)))

LEMMA PartIsRead ==
  ASSUME NEW T, IsType(T), NEW e, IsValue(T, e), ~HoldsQuotable(T, e)
  PROVE  /\ Head(T) \in {"int", "string"} =>
              /\ Part(T, e) = e /\ ToStr(T, e) = e /\ IsPlain(e)
              /\ Casts(T, e) /\ FromStr(T, e) = e
         /\ Head(T) = "LogDefine" => ~Casts(T, Part(T, e))
         /\ Len(T) > 1 => Casts(T, Part(T, e)) /\ FromStr(T, Part(T, e)) = Empty(T)
<1>1. ASSUME Head(T) \in {"int", "string"}
      PROVE  /\ Part(T, e) = e /\ ToStr(T, e) = e /\ IsPlain(e)
             /\ Casts(T, e) /\ FromStr(T, e) = e
  <2>1. ToStr(T, e) = e
    BY <1>1, ToStrIs DEF ToStrEquation
  <2>2. Len(T) = 1
    BY <1>1, HeadCases
  <2>3. IsPlain(e)
    <3>1. CASE Head(T) = "int"
      BY <3>1, IsValueIs, LexicalCastAssumption
    <3>2. CASE Head(T) = "string"
      BY <2>2, <3>2, HoldsQuotableIs
    <3> QED BY <1>1, <3>1, <3>2
  <2>4. Casts(T, e)
    BY <1>1, IsValueIs, CastsIs
  <2>5. FromStr(T, e) = e
    BY <1>1, FromStrIs DEF FromStrEquation
  <2> QED BY <2>1, <2>3, <2>4, <2>5 DEF Part, Item, Emit, Scalar
<1>2. ASSUME Head(T) \notin {"int", "string"} PROVE Load(Part(T, e)).kind = "scalar"
  BY <1>2, StringIsLayout, LayoutIsQuoted DEF Part
<1>3. Head(T) = "LogDefine" => ~Casts(T, Part(T, e))
  BY <1>2, ScalarIsRead
<1>4. Len(T) > 1 => Casts(T, Part(T, e)) /\ FromStr(T, Part(T, e)) = Empty(T)
  <2>1. Len(T) > 1 => Head(T) \notin {"int", "string"}
    BY ContainerHead
  <2> QED BY <1>2, <2>1, ScalarIsRead
<1> QED BY <1>1, <1>3, <1>4

\* What a map has for its element e.
LEMMA EntryIsKept ==
  ASSUME NEW T, IsType(T), NEW e, IsValue(T, e), ~HoldsQuotable(T, e)
  PROVE  Emit(Entry(ToStr(T, e))) = ToStr(T, e)
<1>1. CASE Head(T) \in {"int", "string"}
  <2>1. ToStr(T, e) = e /\ IsPlain(e)
    BY <1>1, PartIsRead
  <2> QED BY <2>1 DEF Entry, Load, Emit, Scalar
<1>2. CASE Head(T) \notin {"int", "string"}
  <2>1. PICK node : node.kind # "scalar" /\ ToStr(T, e) = LayoutText(node)
    BY <1>2, StringIsLayout
  <2>2. Load(LayoutText(node)) = node
    BY DEF Load, LayoutText, IsPlain
  <2> QED BY <2>1, <2>2 DEF Entry, Emit
<1> QED BY <1>1, <1>2

\* What the string of v is read as: if the string is not refused, something that
\* comes back from its own string, and v itself exactly if v survives.
ReturnsFrom(T, v) ==
  LET s == ToStr(T, v)
      w == FromStr(T, s)
  IN
  /\ Casts(T, s) <=> ~Refused(T, v)
  /\ ~Refused(T, v) =>
       /\ w = v <=> Survives(T, v)
       /\ IsValue(T, w) /\ ~HoldsQuotable(T, w) /\ Survives(T, w) /\ ~Refused(T, w)

LEMMA LeafComesBack ==
  ASSUME NEW T, IsType(T), Len(T) = 1, NEW v, IsValue(T, v), ~HoldsQuotable(T, v)
  PROVE  ReturnsFrom(T, v)
<1>1. Head(T) \in {"int", "string", "LogDefine"} /\ Tail(T) # <<"LogDefine">>
  <2>1. ~(Len(T) > 1) /\ Len(T) # 2
    OBVIOUS
  <2> QED BY <2>1, HeadCases, TypeCases
<1>2. \A x : ~Refused(T, x)
  BY <1>1, RefusedIs
<1>3. CASE Head(T) \in {"int", "string"}
  <2>1. ToStr(T, v) = v /\ Casts(T, v) /\ FromStr(T, v) = v
    BY <1>3, PartIsRead
  <2>2. Survives(T, v)
    BY <1>3, SurvivesIs
  <2> QED BY <1>2, <2>1, <2>2 DEF ReturnsFrom
<1>4. CASE Head(T) = "LogDefine"
  <2> DEFINE node == ToYaml(v)
             w == FromYaml(node)
  <2>1. IsDefine(v)
    BY <1>4, IsValueIs
  <2>2. /\ "name" \in DOMAIN node
        /\ IsDefine(w) /\ w.formatter = ""
        /\ \A k \in DOMAIN w.appenders : w.appenders[k].type = 2
        /\ w = v <=> /\ v.formatter = ""
                     /\ \A k \in DOMAIN v.appenders : v.appenders[k].type = 2
    BY <2>1, DefineComesBack
  <2>3. node \in [DOMAIN node -> {node[key] : key \in DOMAIN node}]
    BY DEF ToYaml
  <2>4. ToStr(T, v) = LayoutText(MapNode(node))
    BY <1>4, ToStrIs DEF ToStrEquation
  <2> HIDE DEF node
  <2>5. Load(LayoutText(MapNode(node))) = MapNode(node)
    BY <2>3, MapText
  <2>6. Load(ToStr(T, v)).kind = "map" /\ Load(ToStr(T, v)).entries = node
    <3>1. MapNode(node) = [kind |-> "map", entries |-> node]
      BY <2>2 DEF MapNode
    <3> QED BY <2>4, <2>5, <3>1
  <2>7. Casts(T, ToStr(T, v))
    BY <1>4, <2>2, <2>6, CastsIs DEF Readable
  <2>8. FromStr(T, ToStr(T, v)) = w
    BY <1>4, <2>6, FromStrIs DEF FromStrEquation
  <2> HIDE DEF w
  <2>9. (w = v <=> Survives(T, v)) /\ Survives(T, w)
    BY <1>4, <2>2, SurvivesIs
  <2>10. IsValue(T, w)
    BY <1>4, <2>2, IsValueIs
  <2>11. ~HoldsQuotable(T, w)
    BY <1>4, HoldsQuotableIs
  <2> QED BY <1>2, <2>7, <2>8, <2>9, <2>10, <2>11 DEF ReturnsFrom
<1> QED BY <1>1, <1>3, <1>4

\* Lists and sets, given what they have of their elements.
LEMMA ItemsComeBack ==
  ASSUME NEW T, IsType(T), Head(T) \in {"list", "set"},
         NEW v, IsValue(T, v), ~HoldsQuotable(T, v), NEW w,
         FromStr(T, ToStr(T, v)) = w,
         Casts(T, ToStr(T, v)) <=> \A e \in Elements(T, v) : Casts(Tail(T), Part(Tail(T), e)),
         Tail(T) # <<"LogDefine">> =>
           Elements(T, w) = {FromStr(Tail(T), Part(Tail(T), e)) : e \in Elements(T, v)},
         (\A e \in Elements(T, v) : FromStr(Tail(T), Part(Tail(T), e)) = e) => w = v,
         Tail(T) # <<"LogDefine">> /\ (\A b \in Elements(T, w) : IsValue(Tail(T), b)) =>
           IsValue(T, w)
  PROVE  ReturnsFrom(T, v)
<1> DEFINE R == Tail(T)
           E == Elements(T, v)
<1>1. Len(T) > 1 /\ Head(T) # "map"
  BY HeadCases
<1>2. IsType(R) /\ Len(R) = Len(T) - 1 /\ Len(T) \in Nat
  BY <1>1, TypeCases
<1>3. Len(R) = 1 => Len(T) = 2 /\ ~(Len(R) > 1) /\ ~(Len(T) > 2)
  <2>1. \A m \in Nat : \A n : n = m - 1 /\ n = 1 => m = 2 /\ ~(n > 1) /\ ~(m > 2)
    OBVIOUS
  <2> QED BY <1>2, <2>1
<1>4. \A e \in E : IsValue(R, e)
  BY IsValueIs
<1>5. \A e \in E : ~HoldsQuotable(R, e)
  BY <1>1, HoldsQuotableIs
<1>6. \A x : Refused(T, x) <=> R = <<"LogDefine">> /\ Elements(T, x) # {}
  BY <1>1, RefusedIs
<1>7. CASE R = <<"LogDefine">>
  <2>1. Len(R) = 1 /\ Head(R) = "LogDefine" /\ Len(T) = 2
    BY <1>2, <1>7, TypeCases
  <2>2. \A e \in E : ~Casts(R, Part(R, e))
    BY <1>2, <1>4, <1>5, <2>1, PartIsRead
  <2>3. Casts(T, ToStr(T, v)) <=> E = {}
    BY <2>2
  <2>4. CASE E = {}
    <3>1. w = v
      BY <2>4
    <3>2. Survives(T, v)
      BY <2>4, SurvivesIs
    <3> QED BY <1>6, <2>3, <2>4, <3>1, <3>2 DEF ReturnsFrom
  <2>5. CASE E # {}
    BY <1>6, <1>7, <2>3, <2>5 DEF ReturnsFrom
  <2> QED BY <2>4, <2>5
<1>8. CASE R # <<"LogDefine">> /\ Len(R) = 1
  <2>1. Head(R) \in {"int", "string"}
    <3>1. Len(T) = 2 /\ ~(Len(R) > 1)
      BY <1>8, <1>3
    <3>2. Head(R) # "LogDefine"
      BY <1>8, <3>1, TypeCases
    <3> QED BY <1>2, <3>1, <3>2, HeadCases
  <2>2. \A e \in E : /\ IsPlain(e) /\ Casts(R, Part(R, e))
                     /\ FromStr(R, Part(R, e)) = e
    BY <1>2, <1>4, <1>5, <2>1, PartIsRead
  <2>3. w = v /\ Casts(T, ToStr(T, v))
    BY <2>2
  <2>4. ~(Len(T) > 2)
    BY <1>8, <1>3
  <2>5. Survives(T, v)
    BY <1>8, <2>2, <2>4, SurvivesIs
  <2> QED BY <1>6, <1>8, <2>3, <2>5 DEF ReturnsFrom
<1>9. CASE Len(R) > 1
  <2>1. R # <<"LogDefine">> /\ Len(T) > 2
    <3>1. Len(T) # 2 /\ Len(T) > 2
      <4> HIDE DEF R
      <4> QED BY <1>2, <1>9
    <3> QED BY <3>1, TypeCases
  <2>2. \A e \in E : Casts(R, Part(R, e)) /\ FromStr(R, Part(R, e)) = Empty(R)
    BY <1>2, <1>4, <1>5, <1>9, PartIsRead
  <2>3. Casts(T, ToStr(T, v))
    BY <2>2
  <2>4. \A b \in Elements(T, w) : b = Empty(R)
    BY <2>1, <2>2
  <2>5. IsValue(R, Empty(R)) /\ ~HoldsQuotable(R, Empty(R))
    BY <1>2, <1>9, EmptyIsValue
  <2>6. IsValue(T, w)
    BY <2>1, <2>4, <2>5
  <2>7. ~HoldsQuotable(T, w)
    BY <1>1, <2>4, <2>5, HoldsQuotableIs
  <2>8. Survives(T, w)
    BY <2>1, <2>4, SurvivesIs
  <2>9. Survives(T, v) <=> \A e \in E : e = Empty(R)
    BY <2>1, SurvivesIs
  <2>10. ASSUME w = v PROVE Survives(T, v)
    BY <2>8, <2>10
  <2>11. ASSUME Survives(T, v) PROVE w = v
    BY <2>2, <2>9, <2>11
  <2> QED BY <1>6, <2>1, <2>3, <2>6, <2>7, <2>8, <2>10, <2>11 DEF ReturnsFrom
<1>10. Len(R) = 1 \/ Len(R) > 1
  BY <1>2, HeadCases
<1> QED BY <1>7, <1>8, <1>9, <1>10

LEMMA ListComesBack ==
  ASSUME NEW T, IsType(T), Head(T) = "list", NEW v, IsValue(T, v), ~HoldsQuotable(T, v)
  PROVE  ReturnsFrom(T, v)
<1> DEFINE R == Tail(T)
           items == [k \in DOMAIN v |-> Item(ToStr(R, v[k]))]
           s == LayoutText(SeqNode(items))
           w == [k \in DOMAIN v |-> FromStr(R, Part(R, v[k]))]
<1>1. v \in Seq(Elements(T, v)) /\ Elements(T, v) = {v[k] : k \in DOMAIN v}
  BY IsValueIs DEF Elements
<1>2. items \in Seq({Item(ToStr(R, e)) : e \in Elements(T, v)})
  BY <1>1
<1>3. Emit(SeqNode(items)) = s /\ Items(s) = items
  <2> HIDE DEF items
  <2> QED BY <1>2, SeqText
<1>4. ToStr(T, v) = s
  BY <1>3, ToStrIs DEF ToStrEquation
<1> HIDE DEF s
<1>5. \A k \in DOMAIN items : k \in DOMAIN v /\ Emit(items[k]) = Part(R, v[k])
  BY DEF Part
<1>6. FromStr(T, s) = w
  <2>1. FromStrEquation(T, s)
    BY FromStrIs
  <2>2. FromStr(T, s) = [k \in DOMAIN Items(s) |-> FromStr(R, Emit(Items(s)[k]))]
    BY <2>1 DEF FromStrEquation
  <2> QED BY <1>3, <1>5, <2>2
<1>7. Casts(T, s) <=> \A e \in Elements(T, v) : Casts(R, Part(R, e))
  <2>1. Casts(T, s) <=> \A k \in DOMAIN items : Casts(R, Emit(items[k]))
    BY <1>3, CastsIs
  <2> QED BY <1>1, <1>5, <2>1
<1>8. Elements(T, w) = {FromStr(R, Part(R, e)) : e \in Elements(T, v)}
  BY <1>1 DEF Elements
<1>9. (\A e \in Elements(T, v) : FromStr(R, Part(R, e)) = e) => w = v
  BY <1>1
<1>10. w \in Seq(Elements(T, w))
  <2>1. Elements(T, w) = {w[k] : k \in DOMAIN w}
    BY DEF Elements
  <2>2. Len(v) \in Nat /\ DOMAIN w = 1 .. Len(v)
    BY <1>1
  <2> QED BY <2>1, <2>2
<1> HIDE DEF w
<1>11. (\A b \in Elements(T, w) : IsValue(R, b)) => IsValue(T, w)
  BY <1>10, IsValueIs
<1> QED BY <1>4, <1>6, <1>7, <1>8, <1>9, <1>11, ItemsComeBack

LEMMA SetComesBack ==
  ASSUME NEW T, IsType(T), Head(T) = "set", NEW v, IsValue(T, v), ~HoldsQuotable(T, v)
  PROVE  ReturnsFrom(T, v)
<1> DEFINE R == Tail(T)
           nodes == {Item(ToStr(R, e)) : e \in v}
           items == SetToSeq(nodes)
           s == LayoutText(SeqNode(items))
           parts == [k \in DOMAIN items |-> FromStr(R, Emit(items[k]))]
           w == FromStr(T, s)
<1>1. IsFiniteSet(v) /\ \A x : Elements(T, x) = x
  BY IsValueIs DEF Elements
<1>2. IsFiniteSet(nodes)
  <2> DEFINE f == [e \in v |-> Item(ToStr(R, e))]
  <2>1. nodes = {f[e] : e \in v}
    OBVIOUS
  <2>2. DOMAIN f = v
    OBVIOUS
  <2> HIDE DEF f
  <2>3. IsFiniteSet({f[e] : e \in v})
    BY <1>1, <2>2, FiniteImage
  <2> QED BY <2>1, <2>3
<1>3. items \in Seq(nodes) /\ {items[k] : k \in DOMAIN items} = nodes
  <2> HIDE DEF nodes
  <2> QED BY <1>2, SeqOfSet
<1>4. Emit(SeqNode(items)) = s /\ Items(s) = items
  <2> HIDE DEF items, nodes
  <2> QED BY <1>3, SeqText
<1>5. ToStr(T, v) = s
  BY <1>4, ToStrIs DEF ToStrEquation
<1> HIDE DEF s, items
<1>6. /\ \A k \in DOMAIN items : \E e \in v : Emit(items[k]) = Part(R, e)
      /\ \A e \in v : \E k \in DOMAIN items : Emit(items[k]) = Part(R, e)
  BY <1>3 DEF Part
<1>7. w = IF R = <<"LogDefine">> THEN FirstOfEachName(parts) ELSE ToSet(parts)
  <2>1. FromStrEquation(T, s)
    BY FromStrIs
  <2>2. w = LET elements == [k \in DOMAIN Items(s) |-> FromStr(R, Emit(Items(s)[k]))] IN
              IF R = <<"LogDefine">> THEN FirstOfEachName(elements) ELSE ToSet(elements)
    BY <2>1 DEF FromStrEquation
  <2> QED BY <1>4, <2>2
<1>8. {parts[k] : k \in DOMAIN parts} = {FromStr(R, Part(R, e)) : e \in v}
  BY <1>6
<1>9. Casts(T, s) <=> \A e \in v : Casts(R, Part(R, e))
  <2>1. Casts(T, s) <=> \A k \in DOMAIN items : Casts(R, Emit(items[k]))
    BY <1>4, CastsIs
  <2> QED BY <1>6, <2>1
<1>10. R # <<"LogDefine">> => w = {FromStr(R, Part(R, e)) : e \in v}
  BY <1>7, <1>8 DEF ToSet
<1>11. (\A e \in v : FromStr(R, Part(R, e)) = e) => w = v
  <2> SUFFICES ASSUME \A e \in v : FromStr(R, Part(R, e)) = e PROVE w = v
    OBVIOUS
  <2>1. {FromStr(R, Part(R, e)) : e \in v} = v
    OBVIOUS
  <2>2. CASE R # <<"LogDefine">>
    BY <1>10, <2>1, <2>2
  <2>3. CASE R = <<"LogDefine">>
    <3>1. Len(items) \in Nat /\ DOMAIN parts = 1 .. Len(items)
      BY <1>3
    <3>2. \A k \in 1 .. Len(items) : parts[k] \in v
      BY <1>8, <2>1, <3>1
    <3>3. \A d, e \in v : d.name = e.name => d = e
      BY <2>3, IsValueIs
    <3>4. {parts[k] : k \in 1 .. Len(items)} = v
      BY <1>8, <2>1, <3>1
    <3> HIDE DEF parts, w
    <3>5. \A j, k \in 1 .. Len(items) : parts[j].name = parts[k].name => parts[j] = parts[k]
      BY <3>2, <3>3
    <3>6. FirstOfEachName(parts) = {parts[k] : k \in 1 .. Len(items)}
      BY <3>1, <3>5, AllAreFirst
    <3> QED BY <1>7, <2>3, <3>4, <3>6
  <2> QED BY <2>2, <2>3
<1>12. IsFiniteSet({FromStr(R, Part(R, e)) : e \in v})
  <2> DEFINE f == [e \in v |-> FromStr(R, Part(R, e))]
  <2>1. {FromStr(R, Part(R, e)) : e \in v} = {f[e] : e \in v}
    OBVIOUS
  <2>2. DOMAIN f = v
    OBVIOUS
  <2> HIDE DEF f
  <2>3. IsFiniteSet({f[e] : e \in v})
    BY <1>1, <2>2, FiniteImage
  <2> QED BY <2>1, <2>3
<1> HIDE DEF w
<1>13. R # <<"LogDefine">> /\ (\A b \in w : IsValue(R, b)) => IsValue(T, w)
  <2> SUFFICES ASSUME R # <<"LogDefine">>, \A b \in w : IsValue(R, b) PROVE IsValue(T, w)
    OBVIOUS
  <2>1. IsFiniteSet(w)
    BY <1>10, <1>12
  <2> QED BY <1>1, <2>1, IsValueIs
<1>14. FromStr(T, ToStr(T, v)) = w
  BY <1>5 DEF w
<1>15. /\ Elements(T, v) = v /\ Elements(T, w) = w
  BY <1>1
<1> QED BY <1>5, <1>9, <1>10, <1>11, <1>13, <1>14, <1>15, ItemsComeBack

LEMMA MapComesBack ==
  ASSUME NEW T, IsType(T), Head(T) = "map", NEW v, IsValue(T, v), ~HoldsQuotable(T, v),
         \A e : IsValue(Tail(T), e) /\ ~HoldsQuotable(Tail(T), e) => ReturnsFrom(Tail(T), e)
  PROVE  ReturnsFrom(T, v)
<1> DEFINE R == Tail(T)
           E == Elements(T, v)
           entries == [k \in DOMAIN v |-> Entry(ToStr(R, v[k]))]
           s == LayoutText(MapNode(entries))
           w == [k \in DOMAIN v |-> FromStr(R, ToStr(R, v[k]))]
<1>1. v \in [DOMAIN v -> E] /\ E = {v[k] : k \in DOMAIN v}
  <2>1. v \in [DOMAIN v -> E]
    BY IsValueIs
  <2> QED BY <2>1 DEF Elements
<1>2. entries \in [DOMAIN v -> {Entry(ToStr(R, e)) : e \in E}]
  BY <1>1
<1>3. Emit(MapNode(entries)) = s /\ Entries(s) = entries
  <2> HIDE DEF entries
  <2> QED BY <1>2, MapText
<1>4. ToStr(T, v) = s
  BY <1>3, ToStrIs DEF ToStrEquation
<1> HIDE DEF s
<1>5. Len(T) > 1 /\ IsType(R)
  BY HeadCases, TypeCases
<1>6. \A e \in E : IsValue(R, e) /\ ~HoldsQuotable(R, e) /\ ReturnsFrom(R, e)
  BY <1>5, IsValueIs, HoldsQuotableIs
<1>7. \A k \in DOMAIN entries : k \in DOMAIN v /\ Emit(entries[k]) = ToStr(R, v[k])
  BY <1>1, <1>5, <1>6, EntryIsKept
<1>8. FromStr(T, s) = w
  <2>1. FromStrEquation(T, s)
    BY FromStrIs
  <2>2. FromStr(T, s) = [k \in DOMAIN Entries(s) |-> FromStr(R, Emit(Entries(s)[k]))]
    BY <2>1 DEF FromStrEquation
  <2> QED BY <1>3, <1>7, <2>2
<1>9. Casts(T, s) <=> \A k \in DOMAIN v : Casts(R, ToStr(R, v[k]))
  <2>1. Casts(T, s) <=> \A k \in DOMAIN entries : Casts(R, Emit(entries[k]))
    BY <1>3, CastsIs
  <2> QED BY <1>7, <2>1
<1>10. Refused(T, v) <=> \E k \in DOMAIN v : Refused(R, v[k])
  BY <1>1, RefusedIs
<1>11. Casts(T, s) <=> ~Refused(T, v)
  BY <1>1, <1>6, <1>9, <1>10 DEF ReturnsFrom
<1>12. ASSUME ~Refused(T, v)
       PROVE  /\ w = v <=> Survives(T, v)
              /\ IsValue(T, w) /\ ~HoldsQuotable(T, w) /\ Survives(T, w) /\ ~Refused(T, w)
  <2>1. \A k \in DOMAIN v :
          /\ w[k] = v[k] <=> Survives(R, v[k])
          /\ IsValue(R, w[k]) /\ ~HoldsQuotable(R, w[k])
          /\ Survives(R, w[k]) /\ ~Refused(R, w[k])
    BY <1>1, <1>6, <1>10, <1>12 DEF ReturnsFrom
  <2>2. w = v <=> \A k \in DOMAIN v : w[k] = v[k]
    BY <1>1
  <2>3. Elements(T, w) = {w[k] : k \in DOMAIN v} /\ w \in [DOMAIN w -> Elements(T, w)]
    BY DEF Elements
  <2> HIDE DEF w
  <2>4. Survives(T, v) <=> \A k \in DOMAIN v : Survives(R, v[k])
    <3>1. Survives(T, v) <=> \A e \in E : Survives(R, e)
      BY SurvivesIs
    <3> QED BY <1>1, <3>1
  <2>5. Survives(T, w) /\ ~Refused(T, w)
    <3>1. Survives(T, w) <=> \A e \in Elements(T, w) : Survives(R, e)
      BY SurvivesIs
    <3>2. Refused(T, w) <=> \E e \in Elements(T, w) : Refused(R, e)
      BY RefusedIs
    <3> QED BY <2>1, <2>3, <3>1, <3>2
  <2>6. IsValue(T, w)
    BY <2>1, <2>3, IsValueIs
  <2>7. ~HoldsQuotable(T, w)
    BY <1>5, <2>1, <2>3, HoldsQuotableIs
  <2> QED BY <2>1, <2>2, <2>4, <2>5, <2>6, <2>7
<1> QED BY <1>4, <1>8, <1>11, <1>12 DEF ReturnsFrom

\* toString, then fromString, for every value of every type without strings that
\* need quotes: the same if it survives or its string is refused, and else a value
\* that survives from then on.  By induction over the length of the type.
THEOREM ComesBack ==
  ASSUME NEW T, IsType(T), NEW v, IsValue(T, v), ~HoldsQuotable(T, v)
  PROVE  ReturnsFrom(T, v)
<1> DEFINE S == {n \in Nat : \A U, x : /\ IsType(U) /\ Len(U) = n
                                     /\ IsValue(U, x) /\ ~HoldsQuotable(U, x)
                                      => ReturnsFrom(U, x)}
<1>1. 0 \in S
  <2>1. \A U : IsType(U) => Len(U) # 0
    BY TypeCases
  <2> QED BY <2>1
<1>2. ASSUME NEW n \in S PROVE n + 1 \in S
  <2> SUFFICES ASSUME NEW U, NEW x, IsType(U), Len(U) = n + 1,
                      IsValue(U, x), ~HoldsQuotable(U, x)
               PROVE  ReturnsFrom(U, x)
    OBVIOUS
  <2>1. CASE Len(U) = 1
    BY <2>1, LeafComesBack
  <2>2. CASE Len(U) > 1
    <3>1. IsType(Tail(U)) /\ Len(Tail(U)) = n
      BY <2>2, TypeCases
    <3>2. \A e : IsValue(Tail(U), e) /\ ~HoldsQuotable(Tail(U), e) => ReturnsFrom(Tail(U), e)
      BY <3>1
    <3>3. CASE Head(U) = "list"
      BY <3>3, ListComesBack
    <3>4. CASE Head(U) = "set"
      BY <3>4, SetComesBack
    <3>5. CASE Head(U) = "map"
      BY <3>2, <3>5, MapComesBack
    <3> QED BY <2>2, <3>3, <3>4, <3>5, ContainerHead
  <2> QED BY <2>1, <2>2, HeadCases
<1>3. S = Nat
  <2> HIDE DEF S
  <2> QED BY <1>1, <1>2, Induct DEF S
<1>4. Len(T) \in Nat
  BY TypeCases
<1> QED BY <1>3, <1>4

-----------------------------------------------------------------------------
(* The variable *)

\* What fromString is first called with.
FileText(T, v) ==
  LET node == Layout(T, v) IN IF node.kind = "scalar" THEN node.text ELSE Emit(node)

\* At the top a string is handed on as it is; anything below goes through the
\* emitter.
LEMMA FirstTrip ==
  ASSUME NEW T, IsType(T), NEW v, IsValue(T, v)
  PROVE  /\ Casts(T, FileText(T, v))
         /\ FromStr(T, FileText(T, v)) = v <=> Len(T) = 1 \/ ~HoldsQuotable(T, v)
<1>1. ReadsFile(T, v)
  BY FileIsRead
<1>2. CASE Head(T) \in {"int", "string"}
  <2>1. FileText(T, v) = v
    <3>1. LayoutEquation(T, v)
      BY LayoutIs
    <3>2. Layout(T, v) = Scalar(v)
      BY <1>2, <3>1 DEF LayoutEquation
    <3> HIDE DEF Layout
    <3> QED BY <3>2 DEF FileText, Scalar
  <2>2. Casts(T, v)
    BY <1>2, CastsIs, IsValueIs
  <2>3. FromStr(T, v) = v
    BY <1>2, FromStrIs DEF FromStrEquation
  <2>4. Len(T) = 1
    BY <1>2, HeadCases
  <2> QED BY <2>1, <2>2, <2>3, <2>4
<1>3. CASE Head(T) \notin {"int", "string"}
  <2>1. Layout(T, v).kind # "scalar"
    <3>1. \A items, entries : /\ SeqNode(items).kind # "scalar"
                              /\ MapNode(entries).kind # "scalar"
      BY DEF SeqNode, MapNode, Null
    <3>2. LayoutEquation(T, v)
      BY LayoutIs
    <3>3. CASE Head(T) \in {"LogDefine", "map"}
      BY <3>1, <3>2, <3>3 DEF LayoutEquation
    <3>4. CASE Head(T) \in {"list", "set"}
      BY <3>1, <3>2, <3>4 DEF LayoutEquation
    <3> QED BY <1>3, <3>3, <3>4, HeadCases
  <2>2. FileText(T, v) = Emit(Layout(T, v))
    BY <2>1 DEF FileText
  <2>3. Len(T) = 1 => ~HoldsQuotable(T, v)
    BY <1>3, HoldsQuotableIs
  <2> QED BY <1>1, <2>2, <2>3 DEF ReadsFile
<1> QED BY <1>2, <1>3

\* The value after the second trip, and after every later one.
Settled(T, v) == IF Refused(T, v) THEN v ELSE FromStr(T, ToStr(T, v))

\* Once more, the string of the settled value does not change it.
LEMMA SettledStays ==
  ASSUME NEW T, IsType(T), NEW v, IsValue(T, v), ~HoldsQuotable(T, v),
         NEW x \in {v, Settled(T, v)}
  PROVE  (IF Casts(T, ToStr(T, x)) THEN FromStr(T, ToStr(T, x)) ELSE x) = Settled(T, v)
<1>1. ReturnsFrom(T, v)
  BY ComesBack
<1>2. CASE Refused(T, v)
  BY <1>1, <1>2 DEF ReturnsFrom, Settled
<1>3. CASE ~Refused(T, v)
  <2> DEFINE w == FromStr(T, ToStr(T, v))
  <2>1. /\ Casts(T, ToStr(T, v)) /\ Settled(T, v) = w
        /\ IsValue(T, w) /\ ~HoldsQuotable(T, w) /\ Survives(T, w) /\ ~Refused(T, w)
    BY <1>1, <1>3 DEF ReturnsFrom, Settled
  <2> HIDE DEF w
  <2>2. ReturnsFrom(T, w)
    BY <2>1, ComesBack
  <2>3. Casts(T, ToStr(T, w)) /\ FromStr(T, ToStr(T, w)) = w
    BY <2>1, <2>2 DEF ReturnsFrom
  <2>4. CASE x = v
    BY <2>1, <2>4 DEF w
  <2>5. CASE x = Settled(T, v)
    BY <2>1, <2>3, <2>5
  <2> QED BY <2>4, <2>5
<1> QED BY <1>2, <1>3

\* What the first trip, and what every later one leaves.
Inv ==
  /\ IsType(type) /\ IsValue(type, file) /\ trips \in Nat
  /\ trips = 0 => turn = "read"
  /\ trips = 0 => text = FileText(type, file)
  /\ trips = 1 => (m_val = file <=> Len(type) = 1 \/ ~HoldsQuotable(type, file))
  /\ ~HoldsQuotable(type, file) =>
       /\ trips >= 2 => m_val = Settled(type, file)
       /\ trips >= 1 /\ turn = "read" => text = ToStr(type, m_val)

LEMMA InitInv == Init => Inv
<1> SUFFICES ASSUME Init PROVE Inv
  OBVIOUS
<1>1. PICK f \in Files :
        /\ type = f.type /\ file = f.value /\ turn = "read" /\ trips = 0
        /\ text = FileText(f.type, f.value)
  BY DEF Init, FileText
<1>2. IsType(type) /\ IsValue(type, file)
  BY <1>1, LexicalCastAssumption
<1> QED BY <1>1, <1>2 DEF Inv

LEMMA fromStringInv == Inv /\ fromString => Inv'
<1> SUFFICES ASSUME Inv, fromString PROVE Inv'
  OBVIOUS
<1>1. /\ IsType(type) /\ IsValue(type, file) /\ trips \in Nat /\ turn = "read"
      /\ type' = type /\ file' = file /\ trips' = trips + 1 /\ turn' = "write"
      /\ m_val' = IF Casts(type, text) THEN FromStr(type, text) ELSE m_val
  BY DEF Inv, fromString
<1>2. CASE trips = 0
  <2>1. m_val' = file <=> Len(type) = 1 \/ ~HoldsQuotable(type, file)
    BY <1>1, <1>2, FirstTrip DEF Inv
  <2> QED BY <1>1, <1>2, <2>1 DEF Inv
<1>3. CASE trips # 0
  <2>1. ASSUME ~HoldsQuotable(type, file) PROVE m_val' = Settled(type, file)
    <3>1. text = ToStr(type, m_val)
      BY <1>1, <1>3, <2>1 DEF Inv
    <3>2. m_val \in {file, Settled(type, file)}
      BY <1>1, <1>3, <2>1 DEF Inv
    <3> QED BY <1>1, <2>1, <3>1, <3>2, SettledStays
  <2> QED BY <1>1, <1>3, <2>1 DEF Inv
<1> QED BY <1>2, <1>3

LEMMA toStringInv == Inv /\ toString => Inv'
BY DEF Inv, toString

\* Inv holds in every state.
THEOREM Invariance == Spec => []Inv
<1>1. Inv /\ [Next]_vars => Inv'
  <2> SUFFICES ASSUME Inv, [Next]_vars PROVE Inv'
    OBVIOUS
  <2>1. CASE Next
    BY <2>1, fromStringInv, toStringInv DEF Next
  <2>2. CASE UNCHANGED vars
    BY <2>2 DEF Inv, vars
  <2> QED BY <2>1, <2>2
<1> QED BY <1>1, InitInv, PTL DEF Spec

\* A file of any type is read as it is written exactly if no string inside a
\* container needs quotes.
THEOREM AllFilesAreRead == Spec => []FilesAreRead
<1>1. Inv => FilesAreRead
  BY DEF Inv, FilesAreRead
<1> QED BY <1>1, Invariance, PTL

\* Of the values of any type exactly those come through toString and fromString
\* that survive or whose string is refused.
THEOREM RoundTripsAreExact == Spec => []RoundTrip
<1>1. ASSUME Inv PROVE RoundTrip
  <2> SUFFICES ASSUME turn = "write", trips = 2, ~HoldsQuotable(type, file)
               PROVE  m_val = file <=> Survives(type, file) \/ Refused(type, file)
    BY DEF RoundTrip
  <2>1. IsType(type) /\ IsValue(type, file) /\ m_val = Settled(type, file)
    BY <1>1 DEF Inv
  <2>2. ReturnsFrom(type, file)
    BY <2>1, ComesBack
  <2> QED BY <2>1, <2>2 DEF ReturnsFrom, Settled
<1> QED BY <1>1, Invariance, PTL

\* After the second trip the value of a variable of any type stays.
THEOREM ValuesSettle == Spec => Settles
<1>1. ASSUME Inv, Inv', [Next]_vars
      PROVE  [trips >= 2 /\ ~HoldsQuotable(type, file) => m_val' = m_val]_vars
  <2> SUFFICES ASSUME Next, trips >= 2, ~HoldsQuotable(type, file) PROVE m_val' = m_val
    BY <1>1
  <2>1. CASE fromString
    <3>1. trips \in Nat /\ trips' = trips + 1 /\ type' = type /\ file' = file
      BY <1>1, <2>1 DEF Inv, fromString
    <3>2. m_val = Settled(type, file)
      BY <1>1 DEF Inv
    <3>3. m_val' = Settled(type', file')
      BY <1>1, <3>1 DEF Inv
    <3> QED BY <3>1, <3>2, <3>3
  <2>2. CASE toString
    BY <2>2 DEF toString
  <2> QED BY <2>1, <2>2 DEF Next
<1> QED BY <1>1, Invariance, PTL DEF Spec, Settles
=============================================================================

------------------------- MODULE LogFormatterProofs -------------------------
(***************************************************************************)
(* Proofs about LogFormatter, for any set of patterns and directives.      *)
(***************************************************************************)
EXTENDS LogFormatter, SequenceTheorems, FiniteSetTheorems, WellFoundedInduction, TLAPS

\* What becomes of the text in front of a directive.
LEMMA PendingType ==
  ASSUME IInv
  PROVE  /\ Pending \in Seq(Entry)
         /\ vec \o Pending \in Seq(Entry)
<1> USE DEF IInv, TypeOK, Bounds
<1>1. Len(n_str) \in Nat /\ i - Len(n_str) \in Nat /\ i - 1 \in Nat
  BY DEF Texts
<1>2. n_str \in Texts /\ <<>> \in Texts
  BY DEF Texts
<1>3. TextEntry(n_str, i - Len(n_str), i - 1) \in Entry
  BY <1>1, <1>2 DEF TextEntry, Entry
<1>4. Pending \in Seq(Entry)
  BY <1>3 DEF Pending
<1> QED BY <1>4

\* Every substr has a name or a format of characters.
LEMMA PartType ==
  ASSUME TypeOK, NEW a \in Nat \ {0}, NEW b \in Int, b <= Size
  PROVE  SubSeq(m_pattern, a, b) \in Texts
<1> DEFINE S == Chars \cup {PatternError}
<1>1. \A k \in a .. b : m_pattern[k] \in S
  BY DEF TypeOK, Size
<1> HIDE DEF S
<1>2. SubSeq(m_pattern, a, b) \in Seq(S)
  BY <1>1, SubSeqProperties
<1> QED BY <1>2 DEF S, Texts

LEMMA InitInv == Init => IInv
<1> SUFFICES ASSUME Init PROVE IInv
  OBVIOUS
<1>1. m_pattern \in Seq(Chars)
  BY LogFormatterAssumption DEF Init
<1>2. Size \in Nat
  BY <1>1 DEF Size
<1>3. str \in Texts /\ fmt \in Texts /\ n_str \in Texts
  BY DEF Init, Texts
<1>4. vec \in Seq(Entry)
  BY DEF Init
<1>5. m_error \in BOOLEAN
  BY DEF Init
<1>6. pc = "scan" /\ i = 1 /\ n = 1 /\ fmt_begin = 0 /\ fmt_status = 0
  BY DEF Init
<1> TypeOK
  BY <1>1, <1>3, <1>4, <1>5, <1>6 DEF TypeOK
<1>7. Bounds
  BY <1>2 DEF Init, Bounds
<1> QED BY <1>7 DEF IInv

LEMMA StepInv == IInv /\ [Next]_vars => IInv'
<1> SUFFICES ASSUME IInv, [Next]_vars PROVE IInv'
  OBVIOUS
<1> USE DEF IInv
<1>1. CASE Text
  <2>1. m_pattern[i] \in Chars
    BY <1>1 DEF Text, TypeOK, Size
  <2>2. TypeOK'
    BY <1>1, <2>1 DEF Text, TypeOK, Texts
  <2>3. Bounds'
    BY <1>1, <2>1 DEF Text, TypeOK, Bounds, Size
  <2> QED BY <2>2, <2>3
<1>2. CASE Directive
  <2>1. <<>> \in Texts
    BY DEF Texts
  <2>2. TypeOK'
    BY <1>2, <2>1 DEF Directive, TypeOK
  <2>3. Bounds'
    BY <1>2 DEF Directive, PercentAt, TypeOK, Bounds, Size
  <2> QED BY <2>2, <2>3
<1>3. CASE NameEnds
  <2>1. pc = "name" /\ n <= Size /\ fmt_status = 0
    BY <1>3 DEF NameEnds
  <2>2. /\ pc' = "found" /\ i' = i /\ n' = n /\ fmt_status' = fmt_status /\ fmt_begin' = fmt_begin
        /\ UNCHANGED <<m_pattern, n_str, vec, m_error>>
    BY <1>3 DEF NameEnds
  <2>3. str' = SubSeq(m_pattern, i + 1, n - 1) /\ fmt' = fmt
    BY <1>3 DEF NameEnds
  <2>4. i + 1 \in Nat \ {0} /\ n - 1 \in Int /\ n - 1 <= Size
    BY <2>1 DEF TypeOK, Bounds, Size
  <2>5. SubSeq(m_pattern, i + 1, n - 1) \in Texts
    BY <2>4, PartType
  <2>6. str' \in Texts /\ fmt' \in Texts
    BY <2>3, <2>5 DEF TypeOK
  <2>7. TypeOK'
    BY <2>1, <2>2, <2>6 DEF TypeOK
  <2>8. Bounds'
    BY <2>1, <2>2 DEF TypeOK, Bounds, Size
  <2> QED BY <2>7, <2>8
<1>4. CASE FormatOpens
  <2>1. pc = "name" /\ n <= Size /\ fmt_status = 0
    BY <1>4 DEF FormatOpens
  <2>2. /\ pc' = pc /\ i' = i /\ n' = n + 1 /\ fmt_status' = 1 /\ fmt_begin' = n
        /\ UNCHANGED <<m_pattern, n_str, vec, m_error>>
    BY <1>4 DEF FormatOpens
  <2>3. str' = SubSeq(m_pattern, i + 1, n - 1) /\ fmt' = fmt
    BY <1>4 DEF FormatOpens
  <2>4. i + 1 \in Nat \ {0} /\ n - 1 \in Int /\ n - 1 <= Size
    BY <2>1 DEF TypeOK, Bounds, Size
  <2>5. SubSeq(m_pattern, i + 1, n - 1) \in Texts
    BY <2>4, PartType
  <2>6. str' \in Texts /\ fmt' \in Texts
    BY <2>3, <2>5 DEF TypeOK
  <2>7. TypeOK'
    BY <2>1, <2>2, <2>6 DEF TypeOK
  <2>8. Bounds'
    BY <2>1, <2>2 DEF TypeOK, Bounds, Size
  <2> QED BY <2>7, <2>8
<1>5. CASE FormatCloses
  <2>1. pc = "name" /\ n <= Size /\ fmt_status = 1
    BY <1>5 DEF FormatCloses
  <2>2. /\ pc' = "found" /\ i' = i /\ n' = n + 1 /\ fmt_status' = 0 /\ fmt_begin' = fmt_begin
        /\ UNCHANGED <<m_pattern, n_str, vec, m_error>>
    BY <1>5 DEF FormatCloses
  <2>3. fmt' = SubSeq(m_pattern, fmt_begin + 1, n - 1) /\ str' = str
    BY <1>5 DEF FormatCloses
  <2>4. fmt_begin + 1 \in Nat \ {0} /\ n - 1 \in Int /\ n - 1 <= Size
    BY <2>1 DEF TypeOK, Bounds, Size
  <2>5. SubSeq(m_pattern, fmt_begin + 1, n - 1) \in Texts
    BY <2>4, PartType
  <2>6. str' \in Texts /\ fmt' \in Texts
    BY <2>3, <2>5 DEF TypeOK
  <2>7. TypeOK'
    BY <2>1, <2>2, <2>6 DEF TypeOK
  <2>8. Bounds'
    BY <2>1, <2>2 DEF TypeOK, Bounds, Size
  <2> QED BY <2>7, <2>8
<1>6. CASE Consume
  <2>1. pc = "name" /\ n <= Size
    BY <1>6 DEF Consume
  <2>2. /\ pc' = pc /\ i' = i /\ n' = n + 1 /\ fmt_status' = fmt_status /\ fmt_begin' = fmt_begin
        /\ UNCHANGED <<m_pattern, n_str, vec, m_error>>
    BY <1>6 DEF Consume
  <2>3. str' \in {str, SubSeq(m_pattern, i + 1, Size)} /\ fmt' = fmt
    BY <1>6 DEF Consume
  <2>4. i + 1 \in Nat \ {0} /\ Size \in Int /\ Size <= Size
    BY <2>1 DEF TypeOK, Bounds, Size
  <2>5. SubSeq(m_pattern, i + 1, Size) \in Texts
    BY <2>4, PartType
  <2>6. str' \in Texts /\ fmt' \in Texts
    BY <2>3, <2>5 DEF TypeOK
  <2>7. TypeOK'
    BY <2>1, <2>2, <2>6 DEF TypeOK
  <2>8. Bounds'
    BY <2>1, <2>2 DEF TypeOK, Bounds, Size
  <2> QED BY <2>7, <2>8
<1>7. CASE Push
  <2>1. n - 1 \in Nat /\ n \in Nat \ {0} /\ i < n /\ n <= Size + 1
    BY <1>7 DEF Push, LoopEnds, TypeOK, Bounds
  <2>2. [kind |-> 1, str |-> str, fmt |-> fmt, first |-> i, last |-> n - 1] \in Entry
    BY <2>1 DEF TypeOK, Entry
  <2>3. vec' \in Seq(Entry)
    BY <1>7, <2>2, PendingType DEF Push
  <2>4. TypeOK'
    <3>1. n_str' \in Texts
      BY <1>7 DEF Push, Texts
    <3> QED BY <1>7, <2>1, <2>3, <3>1 DEF Push, TypeOK
  <2>5. Bounds'
    BY <1>7, <2>1 DEF Push, TypeOK, Bounds, Size
  <2> QED BY <2>4, <2>5
<1>8. CASE Unterminated
  <2>1. TextEntry(<<PatternError>>, i, i) \in Entry
    BY DEF TypeOK, TextEntry, Entry, Texts
  <2>2. TypeOK'
    BY <1>8, <2>1 DEF Unterminated, TypeOK
  <2>3. Bounds'
    BY <1>8 DEF Unterminated, LoopEnds, TypeOK, Bounds, Size
  <2> QED BY <2>2, <2>3
<1>9. CASE Items
  <2>1. TypeOK'
    <3>1. n_str' \in Texts /\ vec' \in Seq(Entry)
      BY <1>9, PendingType DEF Items, Texts
    <3>2. m_error' \in BOOLEAN
      BY <1>9 DEF Items, TypeOK
    <3> QED BY <1>9, <3>1, <3>2 DEF Items, TypeOK
  <2>2. Bounds'
    BY <1>9 DEF Items, TypeOK, Bounds, Size
  <2> QED BY <2>1, <2>2
<1>10. CASE UNCHANGED vars
  BY <1>10 DEF TypeOK, Bounds, Size, vars
<1> QED
  BY <1>1, <1>2, <1>3, <1>4, <1>5, <1>6, <1>7, <1>8, <1>9, <1>10 DEF Next, Done

\* No substr of the scanner starts behind the end of the pattern, and the two
\* loops stay inside it.
THEOREM Invariance == Spec => []IInv
<1>1. Init => IInv
  BY InitInv
<1>2. IInv /\ [Next]_vars => IInv'
  BY StepInv
<1> QED
  BY <1>1, <1>2, PTL DEF Spec

\* The step of Advances, spelled out for the lemma below it.
Advance ==
  /\ i' > i \/ (i' = i /\ Behind' > Behind)
  /\ i' <= Size + 1 /\ Behind' <= Size + 2
  /\ UNCHANGED m_pattern

LEMMA StepAdvances == IInv /\ IInv' /\ [Next]_vars => [Advance]_vars
<1> SUFFICES ASSUME IInv, IInv', Next PROVE Advance \/ UNCHANGED vars
  OBVIOUS
<1> USE DEF IInv, TypeOK, Bounds, Advance, Behind, Size
<1>1. CASE Text
  BY <1>1 DEF Text
<1>2. CASE Directive
  BY <1>2 DEF Directive, PercentAt
<1>3. CASE NameEnds
  BY <1>3 DEF NameEnds
<1>4. CASE FormatOpens
  BY <1>4 DEF FormatOpens
<1>5. CASE FormatCloses
  BY <1>5 DEF FormatCloses
<1>6. CASE Consume
  BY <1>6 DEF Consume
<1>7. CASE Push
  BY <1>7 DEF Push, LoopEnds
<1>8. CASE Unterminated
  BY <1>8 DEF Unterminated, LoopEnds
<1>9. CASE Items
  BY <1>9 DEF Items
<1> QED BY <1>1, <1>2, <1>3, <1>4, <1>5, <1>6, <1>7, <1>8, <1>9 DEF Next, Done

\* The scanner never goes back, whatever the pattern: with fairness this is why
\* it ends.
THEOREM ScannerAdvances == Spec => Advances
<1>1. IInv /\ IInv' /\ [Next]_vars => [Advance]_vars
  BY StepAdvances
<1>2. Spec => [][Advance]_vars
  BY <1>1, Invariance, PTL DEF Spec
<1> QED BY <1>2 DEF Advance, Advances

-----------------------------------------------------------------------------
(* The entries tile the pattern *)

\* The directive that has been read when the inner loop is over.
Item == [kind |-> 1, str |-> str, fmt |-> fmt, first |-> i, last |-> n - 1]

\* As long as there was no error: the entries cover what lies before the text
\* being collected, and what was noted of a directive is what stands there.
TileInv ==
  ~m_error =>
    /\ Tiles(vec)
    /\ EndOf(vec) = i - 1 - Len(n_str)
    /\ n_str = SubSeq(m_pattern, i - Len(n_str), i - 1)
    /\ pc = "name" /\ fmt_status = 0 =>
         /\ fmt = <<>>
         /\ str = IF n = Size + 1 THEN SubSeq(m_pattern, i + 1, Size) ELSE <<>>
    /\ pc = "name" /\ fmt_status = 1 =>
         /\ fmt = <<>>
         /\ m_pattern[fmt_begin] = OpenBrace
         /\ n <= Size => str = SubSeq(m_pattern, i + 1, fmt_begin - 1)
    /\ pc = "found" => ReadRight(Item)
    /\ pc = "done" => n_str = <<>>

LEMMA AppendTiles ==
  ASSUME NEW s \in Seq(Entry), NEW e \in Entry,
         Tiles(s), e.first = EndOf(s) + 1, ReadRight(e)
  PROVE  Tiles(Append(s, e)) /\ EndOf(Append(s, e)) = e.last
<1> DEFINE r == Append(s, e)
<1>1. /\ r \in Seq(Entry) /\ Len(r) = Len(s) + 1 /\ Len(s) \in Nat
      /\ r[Len(r)] = e
      /\ \A k \in 1 .. Len(s) : r[k] = s[k]
  OBVIOUS
<1>2. ASSUME NEW k \in 1 .. Len(r)
      PROVE  /\ r[k].first = (IF k = 1 THEN 1 ELSE r[k - 1].last + 1)
             /\ ReadRight(r[k])
  <2>1. CASE k \in 1 .. Len(s)
    <3>1. r[k] = s[k] /\ (k # 1 => r[k - 1] = s[k - 1])
      BY <1>1, <2>1
    <3> QED BY <2>1, <3>1 DEF Tiles
  <2>2. CASE k = Len(s) + 1
    <3>1. r[k] = e
      BY <1>1, <2>2
    <3>2. CASE s = <<>>
      BY <1>1, <2>2, <3>1, <3>2 DEF EndOf
    <3>3. CASE s # <<>>
      <4>1. k # 1 /\ k - 1 = Len(s) /\ Len(s) \in 1 .. Len(s)
        BY <1>1, <2>2, <3>3
      <4>2. r[k - 1] = s[Len(s)]
        BY <1>1, <4>1
      <4> QED BY <3>1, <3>3, <4>1, <4>2 DEF EndOf
    <3> QED BY <3>2, <3>3
  <2> QED BY <1>1, <2>1, <2>2
<1>3. Tiles(r)
  <2> HIDE DEF r
  <2> QED BY <1>2 DEF Tiles
<1>4. EndOf(r) = e.last
  BY <1>1 DEF EndOf
<1> QED BY <1>3, <1>4

\* The text in front of a directive, made an entry, reaches up to it.
LEMMA PendingTiles ==
  ASSUME IInv, TileInv, ~m_error
  PROVE  Tiles(vec \o Pending) /\ EndOf(vec \o Pending) = i - 1
<1>1. CASE n_str = <<>>
  <2>1. Pending = <<>>
    BY <1>1 DEF Pending
  <2>2. vec \o Pending = vec
    BY <2>1 DEF IInv, TypeOK
  <2>3. Len(n_str) = 0 /\ i \in Nat /\ EndOf(vec) = i - 1 - Len(n_str)
    BY <1>1 DEF TileInv, IInv, TypeOK
  <2>4. EndOf(vec) = i - 1
    BY <2>3
  <2> QED BY <2>2, <2>4 DEF TileInv
<1>2. CASE n_str # <<>>
  <2> DEFINE e == TextEntry(n_str, i - Len(n_str), i - 1)
  <2>1. Pending = <<e>> /\ e \in Entry
    BY <1>2, PendingType DEF Pending
  <2>2. vec \o Pending = Append(vec, e)
    BY <2>1 DEF IInv, TypeOK
  <2>3. /\ e.first = i - Len(n_str) /\ e.last = i - 1
        /\ e.kind = 0 /\ e.str = n_str
    BY DEF TextEntry
  <2>4. e.first = EndOf(vec) + 1
    <3>1. EndOf(vec) = i - 1 - Len(n_str)
      BY DEF TileInv
    <3>2. i \in Nat /\ Len(n_str) \in Nat
      BY DEF IInv, TypeOK, Texts
    <3> QED BY <2>3, <3>1, <3>2
  <2>5. ReadRight(e)
    BY <2>3 DEF TileInv, ReadRight
  <2> HIDE DEF e
  <2>6. vec \in Seq(Entry) /\ Tiles(vec)
    BY DEF TileInv, IInv, TypeOK
  <2> QED BY <2>1, <2>2, <2>3, <2>4, <2>5, <2>6, AppendTiles
<1> QED BY <1>1, <1>2

LEMMA ItemFields ==
  /\ Item.kind # 0 /\ Item.str = str /\ Item.fmt = fmt
  /\ Item.first = i /\ Item.last = n - 1
BY DEF Item

LEMMA ItemFieldsPrime ==
  /\ Item'.kind # 0 /\ Item'.str = str' /\ Item'.fmt = fmt'
  /\ Item'.first = i' /\ Item'.last = n' - 1
BY DEF Item

\* A name alone is read right, and so is a name with a format.
LEMMA NameRead ==
  ASSUME NEW a \in 1 .. Size, NEW c \in a .. Size,
         m_pattern \in Seq(Chars), m_pattern[a] = "%",
         NEW e, e.kind # 0, e.fmt = <<>>, e.first = a, e.last = c,
         e.str = SubSeq(m_pattern, a + 1, c)
  PROVE  ReadRight(e)
<1>1. SubSeq(m_pattern, a, c) = <<m_pattern[a]>> \o SubSeq(m_pattern, a + 1, c)
  BY SubSeqRecursiveFirst DEF Size
<1> QED BY <1>1 DEF ReadRight

LEMMA Associates ==
  \A S : \A x, y, z \in Seq(S) : (x \o y) \o z = x \o (y \o z)
<1> SUFFICES ASSUME NEW S, NEW x \in Seq(S), NEW y \in Seq(S), NEW z \in Seq(S)
             PROVE  (x \o y) \o z = x \o (y \o z)
  OBVIOUS
<1> QED BY ConcatAssociative

\* A part of a sequence taken apart at its ends and at b.
LEMMA Parts ==
  ASSUME NEW S, NEW p \in Seq(S),
         NEW a \in 1 .. Len(p), NEW b \in a + 1 .. Len(p), NEW c \in b + 1 .. Len(p)
  PROVE  /\ SubSeq(p, a, c) =
              <<p[a]>> \o SubSeq(p, a + 1, b - 1)
                \o (<<p[b]>> \o SubSeq(p, b + 1, c - 1) \o <<p[c]>>)
         /\ <<p[a]>> \in Seq(S)
         /\ SubSeq(p, a + 1, b - 1) \in Seq(S) /\ SubSeq(p, b + 1, c - 1) \in Seq(S)
<1> DEFINE N == SubSeq(p, a + 1, b - 1)
           F == SubSeq(p, b + 1, c - 1)
<1>1. /\ <<p[a]>> \in Seq(S) /\ <<p[b]>> \in Seq(S) /\ <<p[c]>> \in Seq(S)
  OBVIOUS
<1>2. N \in Seq(S) /\ F \in Seq(S)
  <2>1. \A k \in a + 1 .. b - 1 : p[k] \in S
    OBVIOUS
  <2>2. \A k \in b + 1 .. c - 1 : p[k] \in S
    OBVIOUS
  <2> QED BY <2>1, <2>2, SubSeqProperties
<1>3. SubSeq(p, a, c) = <<p[a]>> \o SubSeq(p, a + 1, c)
  BY SubSeqRecursiveFirst
<1>4. SubSeq(p, a + 1, c) = N \o SubSeq(p, b, c)
  <2>1. /\ a + 1 \in 1 .. Len(p) + 1
        /\ b - 1 \in (a + 1) - 1 .. Len(p) /\ c \in b - 1 .. Len(p)
        /\ (b - 1) + 1 = b
    OBVIOUS
  <2> QED BY <2>1, ConcatAdjacentSubSeq
<1>5. SubSeq(p, b, c) = <<p[b]>> \o SubSeq(p, b + 1, c)
  BY SubSeqRecursiveFirst
<1>6. SubSeq(p, b + 1, c) = F \o <<p[c]>>
  BY SubSeqRecursiveSecond
<1> HIDE DEF N, F
<1>7. /\ <<p[b]>> \o F \o <<p[c]>> \in Seq(S)
      /\ <<p[b]>> \o F \o <<p[c]>> = <<p[b]>> \o (F \o <<p[c]>>)
  <2>1. <<p[b]>> \o F \in Seq(S)
    BY <1>1, <1>2, ConcatProperties
  <2>2. <<p[b]>> \o F \o <<p[c]>> \in Seq(S)
    BY <1>1, <2>1, ConcatProperties
  <2>3. <<p[b]>> \o F \o <<p[c]>> = <<p[b]>> \o (F \o <<p[c]>>)
    BY <1>1, <1>2, Associates
  <2> QED BY <2>2, <2>3
<1>8. <<p[a]>> \o N \o (<<p[b]>> \o F \o <<p[c]>>)
        = <<p[a]>> \o (N \o (<<p[b]>> \o F \o <<p[c]>>))
  <2>1. \A x, y, z \in Seq(S) : (x \o y) \o z = x \o (y \o z)
    BY Associates
  <2> QED BY <1>1, <1>2, <1>7, <2>1, Zenon
<1>9. SubSeq(p, a, c) = <<p[a]>> \o N \o (<<p[b]>> \o F \o <<p[c]>>)
  BY <1>3, <1>4, <1>5, <1>6, <1>7, <1>8
<1> QED BY <1>1, <1>2, <1>9 DEF N, F

LEMMA FormatRead ==
  ASSUME NEW a \in 1 .. Size, NEW b \in a + 1 .. Size, NEW c \in b + 1 .. Size,
         m_pattern \in Seq(Chars),
         m_pattern[a] = "%", m_pattern[b] = OpenBrace, m_pattern[c] = CloseBrace,
         NEW e, e.kind # 0, e.first = a, e.last = c,
         e.str = SubSeq(m_pattern, a + 1, b - 1),
         e.fmt = SubSeq(m_pattern, b + 1, c - 1)
  PROVE  ReadRight(e)
<1>1. SubSeq(m_pattern, a, c) =
        <<m_pattern[a]>> \o SubSeq(m_pattern, a + 1, b - 1)
          \o (<<m_pattern[b]>> \o SubSeq(m_pattern, b + 1, c - 1) \o <<m_pattern[c]>>)
  BY Parts DEF Size
<1>2. SubSeq(m_pattern, a, c) = <<"%">> \o e.str \o (<<OpenBrace>> \o e.fmt \o <<CloseBrace>>)
  BY <1>1
<1> QED BY <1>2 DEF ReadRight

LEMMA TileInit == Init => TileInv
<1> SUFFICES ASSUME Init PROVE TileInv
  OBVIOUS
<1>1. /\ vec = <<>> /\ n_str = <<>> /\ i = 1 /\ pc = "scan"
  BY DEF Init
<1>2. Tiles(vec)
  BY <1>1 DEF Tiles
<1>3. EndOf(vec) = i - 1 - Len(n_str)
  <2>1. EndOf(vec) = 0 /\ Len(n_str) = 0
    BY <1>1 DEF EndOf
  <2> QED BY <1>1, <2>1
<1>4. n_str = SubSeq(m_pattern, i - Len(n_str), i - 1)
  <2>1. i - Len(n_str) = 1 /\ i - 1 = 0
    BY <1>1
  <2> QED BY <1>1, <2>1, SubSeqEmpty
<1> QED BY <1>1, <1>2, <1>3, <1>4 DEF TileInv

\* What the entries, the text and the part of the inner loop say on their own.
TextTiles ==
  /\ Tiles(vec)
  /\ EndOf(vec) = i - 1 - Len(n_str)
  /\ n_str = SubSeq(m_pattern, i - Len(n_str), i - 1)

LEMMA TextTilesKept ==
  ASSUME TextTiles, UNCHANGED <<m_pattern, vec, i, n_str>>
  PROVE  TextTiles'
<1> QED BY DEF TextTiles, Tiles, EndOf, ReadRight

LEMMA Zero == 0 # 1
OBVIOUS

LEMMA TileStep == IInv /\ TileInv /\ [Next]_vars => TileInv'
<1> SUFFICES ASSUME IInv, TileInv, [Next]_vars, ~m_error' PROVE TileInv'
  BY DEF TileInv
<1>0. ~m_error
  BY DEF Next, Text, Directive, NameEnds, FormatOpens, FormatCloses, Consume,
         Push, Unterminated, Items, Done, vars
<1> TextTiles
  BY <1>0 DEF TileInv, TextTiles
<1>1. CASE Text
  <2>1. /\ pc' = "scan" /\ UNCHANGED <<m_pattern, vec>>
        /\ n_str' = Append(n_str, m_pattern[i]) /\ i' = i + 1
        /\ i \in 1 .. Size
    BY <1>1 DEF Text, IInv, TypeOK
  <2>2. Tiles(vec)' /\ EndOf(vec') = EndOf(vec)
    BY <2>1 DEF TextTiles, Tiles, ReadRight, EndOf
  <2>3. /\ Len(n_str) \in Nat /\ Len(n_str) < i /\ Len(n_str') = Len(n_str) + 1
        /\ m_pattern \in Seq(Chars)
    BY <2>1 DEF IInv, TypeOK, Bounds, Texts
  <2>4. SubSeq(m_pattern, i - Len(n_str), i) = Append(n_str, m_pattern[i])
    <3>1. CASE Len(n_str) = 0
      <4>1. n_str = <<>>
        BY <3>1 DEF IInv, TypeOK, Texts
      <4>2. SubSeq(m_pattern, i, i) = <<m_pattern[i]>> \o SubSeq(m_pattern, i + 1, i)
        BY <2>1, <2>3, SubSeqRecursiveFirst DEF Size
      <4>3. SubSeq(m_pattern, i + 1, i) = <<>>
        BY <2>1, SubSeqEmpty
      <4>4. <<m_pattern[i]>> \o <<>> = Append(<<>>, m_pattern[i])
        OBVIOUS
      <4>5. i - Len(n_str) = i
        BY <2>1, <3>1
      <4> QED BY <4>1, <4>2, <4>3, <4>4, <4>5
    <3>2. CASE Len(n_str) # 0
      <4>1. /\ i - Len(n_str) \in 1 .. Len(m_pattern)
            /\ i \in i - Len(n_str) .. Len(m_pattern)
        BY <2>1, <2>3, <3>2 DEF Size
      <4>2. SubSeq(m_pattern, i - Len(n_str), i)
              = SubSeq(m_pattern, i - Len(n_str), i - 1) \o <<m_pattern[i]>>
        BY <2>3, <4>1, SubSeqRecursiveSecond
      <4>3. n_str \o <<m_pattern[i]>> = Append(n_str, m_pattern[i])
        BY DEF IInv, TypeOK, Texts
      <4> QED BY <4>2, <4>3 DEF TextTiles
    <3> QED BY <3>1, <3>2
  <2>5. i' - Len(n_str') = i - Len(n_str) /\ i' - 1 = i
    BY <2>1, <2>3
  <2>6. EndOf(vec)' = i' - 1 - Len(n_str')
    <3>1. EndOf(vec) = i - 1 - Len(n_str)
      BY DEF TextTiles
    <3>2. EndOf(vec') = i' - 1 - Len(n_str')
      BY <2>1, <2>2, <2>3, <3>1
    <3> QED BY <3>2 DEF EndOf
  <2>7. n_str' = SubSeq(m_pattern', i' - Len(n_str'), i' - 1)
    BY <2>1, <2>4, <2>5
  <2> QED BY <2>1, <2>2, <2>6, <2>7 DEF TileInv
<1>2. CASE Directive
  <2>1. /\ pc' = "name" /\ fmt_status' = 0 /\ n' = i + 1
        /\ str' = <<>> /\ fmt' = <<>>
        /\ UNCHANGED <<m_pattern, i, n_str, vec>>
    BY <1>2 DEF Directive
  <2>2. TextTiles'
    BY <2>1, TextTilesKept
  <2>3. n' = Size + 1 => SubSeq(m_pattern, i + 1, Size) = <<>>
    BY <2>1, SubSeqEmpty DEF IInv, TypeOK, Size
  <2>4. Size' = Size
    BY <2>1 DEF Size
  <2>5. str' = IF n' = Size' + 1 THEN SubSeq(m_pattern', i' + 1, Size') ELSE <<>>
    BY <2>1, <2>3, <2>4
  <2>6. pc' = "name" /\ fmt' = <<>>
    BY <2>1
  <2>7. fmt_status' # 1
    BY <1>2, Zero DEF Directive
  <2> QED BY <2>2, <2>5, <2>6, <2>7 DEF TextTiles, TileInv
<1>3. CASE NameEnds
  <2>1. /\ pc = "name" /\ n <= Size /\ fmt_status = 0 /\ pc' = "found"
        /\ str' = SubSeq(m_pattern, i + 1, n - 1) /\ fmt' = fmt
        /\ UNCHANGED <<m_pattern, i, n, n_str, vec>>
    BY <1>3 DEF NameEnds
  <2>2. TextTiles'
    BY <2>1, TextTilesKept
  <2>3. /\ i \in 1 .. Size /\ n - 1 \in i .. Size /\ m_pattern[i] = "%"
        /\ m_pattern \in Seq(Chars)
    BY <2>1 DEF IInv, TypeOK, Bounds, Size
  <2>4. fmt = <<>>
    BY <1>0, <2>1 DEF TileInv
  <2>5. ReadRight(Item')
    BY <2>1, <2>3, <2>4, ItemFieldsPrime, NameRead
  <2>6. ReadRight(Item)'
    BY <2>1, <2>5 DEF ReadRight
  <2> QED BY <2>1, <2>2, <2>6 DEF TextTiles, TileInv
<1>4. CASE FormatOpens
  <2>1. /\ pc = "name" /\ n <= Size /\ fmt_status = 0 /\ m_pattern[n] = OpenBrace
        /\ str' = SubSeq(m_pattern, i + 1, n - 1) /\ fmt' = fmt
        /\ fmt_status' = 1 /\ fmt_begin' = n
        /\ UNCHANGED <<m_pattern, pc, i, n_str, vec>>
    BY <1>4 DEF FormatOpens
  <2>2. TextTiles'
    BY <2>1, TextTilesKept
  <2>3. fmt = <<>>
    BY <1>0, <2>1 DEF TileInv
  <2>4. str' = SubSeq(m_pattern', i' + 1, fmt_begin' - 1) /\ m_pattern'[fmt_begin'] = OpenBrace
    BY <2>1
  <2>5. pc' = "name" /\ fmt' = <<>>
    BY <2>1, <2>3
  <2>6. fmt_status' # 0
    BY <1>4, Zero DEF FormatOpens
  <2> QED BY <2>2, <2>4, <2>5, <2>6 DEF TextTiles, TileInv
<1>5. CASE FormatCloses
  <2>1. /\ pc = "name" /\ n <= Size /\ fmt_status = 1 /\ m_pattern[n] = CloseBrace
        /\ fmt' = SubSeq(m_pattern, fmt_begin + 1, n - 1)
        /\ n' = n + 1 /\ pc' = "found"
        /\ UNCHANGED <<m_pattern, i, str, n_str, vec>>
    BY <1>5 DEF FormatCloses
  <2>2. TextTiles'
    BY <2>1, TextTilesKept
  <2>3. /\ i \in 1 .. Size /\ fmt_begin \in i + 1 .. Size /\ n \in fmt_begin + 1 .. Size
        /\ m_pattern[i] = "%" /\ m_pattern \in Seq(Chars) /\ n' - 1 = n
    <3>1. /\ i \in Nat \ {0} /\ n \in Nat /\ fmt_begin \in Nat /\ m_pattern \in Seq(Chars)
          /\ Size \in Nat
      BY DEF IInv, TypeOK, Size
    <3>2. i < fmt_begin /\ fmt_begin < n /\ m_pattern[i] = "%"
      BY <2>1 DEF IInv, Bounds
    <3>3. n <= Size /\ n' = n + 1
      BY <2>1
    <3> QED BY <3>1, <3>2, <3>3
  <2>4. /\ str = SubSeq(m_pattern, i + 1, fmt_begin - 1) /\ m_pattern[fmt_begin] = OpenBrace
    BY <1>0, <2>1 DEF TileInv
  <2>5. /\ Item'.kind # 0 /\ Item'.str = str /\ Item'.fmt = fmt'
        /\ Item'.first = i /\ Item'.last = n
    BY <2>1, <2>3, ItemFieldsPrime
  <2>6. ReadRight(Item')
    BY <2>1, <2>3, <2>4, <2>5, FormatRead
  <2>7. ReadRight(Item)'
    BY <2>1, <2>6 DEF ReadRight
  <2> QED BY <2>1, <2>2, <2>7 DEF TextTiles, TileInv
<1>6. CASE Consume
  <2>1. /\ pc = "name" /\ n <= Size /\ n' = n + 1
        /\ str' = IF n = Size /\ str = <<>> THEN SubSeq(m_pattern, i + 1, Size) ELSE str
        /\ UNCHANGED <<m_pattern, pc, i, fmt_status, fmt_begin, fmt, n_str, vec>>
    BY <1>6 DEF Consume
  <2>2. TextTiles'
    BY <2>1, TextTilesKept
  <2>3. n \in Nat /\ Size \in Nat /\ Size' = Size
    BY <2>1 DEF IInv, TypeOK, Size
  <2>4. ASSUME fmt_status = 0
        PROVE  fmt = <<>> /\ str' = IF n' = Size + 1 THEN SubSeq(m_pattern, i + 1, Size) ELSE <<>>
    <3>1. fmt = <<>> /\ str = <<>>
      BY <1>0, <2>1, <2>3, <2>4 DEF TileInv
    <3>2. n' = Size + 1 <=> n = Size
      BY <2>1, <2>3
    <3> QED BY <2>1, <3>1, <3>2
  <2>5. ASSUME fmt_status = 1
        PROVE  /\ fmt = <<>> /\ m_pattern[fmt_begin] = OpenBrace
               /\ n' <= Size => str' = SubSeq(m_pattern, i + 1, fmt_begin - 1)
    <3>1. /\ fmt = <<>> /\ m_pattern[fmt_begin] = OpenBrace
          /\ str = SubSeq(m_pattern, i + 1, fmt_begin - 1)
      BY <1>0, <2>1, <2>5 DEF TileInv
    <3>2. n' <= Size => n # Size
      BY <2>1, <2>3
    <3> QED BY <2>1, <3>1, <3>2
  <2> QED BY <2>1, <2>2, <2>3, <2>4, <2>5 DEF TextTiles, TileInv
<1>7. CASE Push
  <2>1. /\ pc' = "scan" /\ n_str' = <<>> /\ i' = n
        /\ vec' = Append(vec \o Pending, Item)
        /\ LoopEnds /\ fmt_status = 0
        /\ UNCHANGED m_pattern
    BY <1>7 DEF Push, Item
  <2>2. /\ i \in 1 .. Size /\ n \in Nat /\ i < n /\ n <= Size + 1 /\ m_pattern \in Seq(Chars)
    BY <2>1 DEF LoopEnds, IInv, TypeOK, Bounds, Size
  <2>3. ReadRight(Item)
    <3>1. CASE pc = "found"
      BY <1>0, <3>1 DEF TileInv
    <3>2. CASE pc = "name" /\ n > Size
      <4>1. n = Size + 1 /\ n - 1 = Size /\ Size \in i .. Size
        BY <2>2, <3>2 DEF Size
      <4>2. str = SubSeq(m_pattern, i + 1, Size) /\ fmt = <<>>
        BY <1>0, <2>1, <3>2, <4>1 DEF TileInv
      <4>3. m_pattern[i] = "%"
        BY <3>2 DEF IInv, Bounds
      <4> QED BY <2>2, <4>1, <4>2, <4>3, ItemFields, NameRead
    <3> QED BY <2>1, <3>1, <3>2 DEF LoopEnds
  <2>4. Item \in Entry
    <3>1. n - 1 \in Nat /\ i \in Nat /\ str \in Texts /\ fmt \in Texts
      BY <2>2 DEF IInv, TypeOK
    <3> QED BY <3>1 DEF Item, Entry
  <2>5. Tiles(vec \o Pending) /\ EndOf(vec \o Pending) = i - 1 /\ vec \o Pending \in Seq(Entry)
    BY <1>0, PendingTiles, PendingType
  <2>6. Item.first = EndOf(vec \o Pending) + 1
    BY <2>2, <2>5, ItemFields
  <2>7. Tiles(Append(vec \o Pending, Item)) /\ EndOf(Append(vec \o Pending, Item)) = n - 1
    BY <2>3, <2>4, <2>5, <2>6, AppendTiles, ItemFields
  <2>8. Tiles(vec)'
    BY <2>1, <2>7 DEF Tiles, ReadRight
  <2>9. EndOf(vec)' = i' - 1 - Len(n_str)'
    <3>1. EndOf(vec') = n - 1 /\ Len(n_str') = 0
      BY <2>1, <2>7
    <3>2. EndOf(vec') = n - 1 - 0
      BY <2>2, <3>1
    <3> QED BY <2>1, <3>1, <3>2 DEF EndOf
  <2>10. n_str' = SubSeq(m_pattern, i - Len(n_str), i - 1)'
    <3>1. n - Len(n_str') = n /\ n - 1 < n
      BY <2>1, <2>2
    <3> QED BY <2>1, <2>2, <3>1, SubSeqEmpty
  <2> QED BY <2>1, <2>8, <2>9, <2>10 DEF TileInv
<1>8. CASE Unterminated
  BY <1>8 DEF Unterminated
<1>9. CASE Items
  <2>1. /\ pc = "scan" /\ i > Size /\ vec' = vec \o Pending /\ n_str' = <<>> /\ pc' = "done"
        /\ UNCHANGED <<m_pattern, i>>
    BY <1>9 DEF Items
  <2>2. Tiles(vec \o Pending) /\ EndOf(vec \o Pending) = i - 1 /\ i \in Nat
    BY <1>0, PendingTiles DEF IInv, TypeOK
  <2>3. Tiles(vec)'
    BY <2>1, <2>2 DEF Tiles, ReadRight
  <2>4. EndOf(vec)' = i' - 1 - Len(n_str)'
    <3>1. EndOf(vec') = i - 1 /\ Len(n_str') = 0
      BY <2>1, <2>2
    <3>2. EndOf(vec') = i - 1 - 0
      BY <2>2, <3>1
    <3> QED BY <2>1, <3>1, <3>2 DEF EndOf
  <2>5. n_str' = SubSeq(m_pattern, i - Len(n_str), i - 1)'
    <3>1. i - Len(n_str') = i /\ i - 1 < i
      BY <2>1, <2>2
    <3> QED BY <2>1, <2>2, <3>1, SubSeqEmpty
  <2> QED BY <2>1, <2>3, <2>4, <2>5 DEF TileInv
<1>10. CASE UNCHANGED vars
  BY <1>0, <1>10 DEF TileInv, Tiles, ReadRight, EndOf, Item, Size, vars
<1> QED
  BY <1>1, <1>2, <1>3, <1>4, <1>5, <1>6, <1>7, <1>8, <1>9, <1>10 DEF Next, Done

\* At the end the entries of a pattern without errors reach from its first to its
\* last character.
LEMMA EntriesTile ==
  ASSUME IInv, TileInv, pc = "done", ~m_error
  PROVE  Tiles(vec) /\ EndOf(vec) = Size
<1>1. /\ Tiles(vec) /\ EndOf(vec) = i - 1 - Len(n_str) /\ n_str = <<>>
  BY DEF TileInv
<1>2. i = Size + 1 /\ Size \in Nat
  BY DEF IInv, TypeOK, Bounds, Size
<1>3. Len(n_str) = 0
  BY <1>1
<1> QED BY <1>1, <1>2, <1>3

-----------------------------------------------------------------------------
(* What is refused is malformed, and what is malformed is refused *)

AllKnown(entries) ==
  \A k \in 1 .. Len(entries) : entries[k].kind = 1 => IsKnown(entries[k])

\* Between the % and position e stands what the inner loop runs over.
NameUpTo(e) == \A k \in i + 1 .. e : m_pattern[k] \in Letters \cup {CloseBrace}

\* A directive without { }, read up to where the inner loop stands.
PlainRead ==
  /\ str = SubSeq(m_pattern, i + 1, n - 1)
  /\ NameUpTo(n - 1)
  /\ n <= Size => m_pattern[n] \notin NameChars

\* The inner loop is inside { }.
Inside ==
  /\ i < fmt_begin /\ fmt_begin < n
  /\ m_pattern[fmt_begin] = OpenBrace
  /\ NameUpTo(fmt_begin - 1)

\* A directive with { }, read up to where the inner loop stands.
BracedRead ==
  /\ Inside
  /\ str = SubSeq(m_pattern, i + 1, fmt_begin - 1)
  /\ fmt_begin < n - 1 /\ m_pattern[n - 1] = CloseBrace
  /\ \A k \in fmt_begin + 1 .. n - 2 : m_pattern[k] # CloseBrace

\* What is known of the part of the pattern the inner loop has passed.
NameInv ==
  /\ pc \in {"name", "found"} => PercentAt(i) /\ ~PercentAt(i + 1)
  /\ pc = "name" /\ fmt_status = 0 => NameUpTo(n - 1)
  /\ pc = "name" /\ fmt_status = 1 =>
       Inside /\ \A k \in fmt_begin + 1 .. n - 1 : m_pattern[k] # CloseBrace
  /\ pc = "found" /\ ~m_error => PlainRead \/ BracedRead

\* As long as nothing was wrong, what is read has a reading.
AcceptInv ==
  ~m_error =>
    IF pc = "done" THEN WellFormed
    ELSE AllKnown(vec) => \E S \in SUBSET (1 .. i) : Cuts(S, i)

\* If the pattern has a reading, the outer loop follows it, whichever it is.
RefuseInv ==
  \A S \in SUBSET (1 .. Size + 1) : Cuts(S, Size + 1) =>
    /\ ~m_error /\ AllKnown(vec)
    /\ pc # "done" => i \in S

LEMMA NameInit == Init => NameInv
<1> SUFFICES ASSUME Init PROVE NameInv
  OBVIOUS
<1>1. pc = "scan"
  BY DEF Init
<1> QED BY <1>1 DEF NameInv

LEMMA NameStep == IInv /\ TileInv /\ NameInv /\ [Next]_vars => NameInv'
<1> SUFFICES ASSUME IInv, TileInv, NameInv, [Next]_vars PROVE NameInv'
  OBVIOUS
<1>0. /\ i \in Nat \ {0} /\ n \in Nat \ {0} /\ Size \in Nat /\ fmt_begin \in Nat
      /\ i <= Size + 1
  BY DEF IInv, TypeOK, Bounds, Size
<1>1. CASE Text
  <2>1. pc' = "scan"
    BY <1>1 DEF Text
  <2> QED BY <2>1 DEF NameInv
<1>2. CASE Directive
  <2>1. /\ pc' = "name" /\ n' = i + 1 /\ fmt_status' = 0 /\ UNCHANGED <<m_pattern, i>>
        /\ PercentAt(i) /\ ~PercentAt(i + 1)
    BY <1>2 DEF Directive
  <2>2. (PercentAt(i) /\ ~PercentAt(i + 1))'
    BY <2>1 DEF PercentAt, Size
  <2>3. NameUpTo(n - 1)'
    BY <2>1, <1>0 DEF NameUpTo
  <2> QED BY <2>1, <2>2, <2>3, Zero DEF NameInv
<1>3. CASE NameEnds
  <2>1. /\ pc = "name" /\ pc' = "found" /\ n <= Size /\ fmt_status = 0
        /\ m_pattern[n] \notin Letters \cup {OpenBrace, CloseBrace}
        /\ str' = SubSeq(m_pattern, i + 1, n - 1) /\ UNCHANGED <<m_pattern, i, n>>
    BY <1>3 DEF NameEnds
  <2>2. (PercentAt(i) /\ ~PercentAt(i + 1))'
    BY <2>1 DEF NameInv, PercentAt, Size
  <2>3. NameUpTo(n - 1)'
    BY <2>1 DEF NameInv, NameUpTo
  <2>4. PlainRead'
    BY <2>1, <2>3 DEF PlainRead, NameChars
  <2> QED BY <2>1, <2>2, <2>4 DEF NameInv
<1>4. CASE FormatOpens
  <2>1. /\ pc = "name" /\ pc' = "name" /\ n <= Size /\ fmt_status = 0 /\ fmt_status' = 1
        /\ m_pattern[n] = OpenBrace /\ fmt_begin' = n /\ n' = n + 1 /\ UNCHANGED <<m_pattern, i>>
    BY <1>4 DEF FormatOpens
  <2>2. (PercentAt(i) /\ ~PercentAt(i + 1))'
    BY <2>1 DEF NameInv, PercentAt, Size
  <2>3. NameUpTo(fmt_begin - 1)'
    BY <2>1 DEF NameInv, NameUpTo
  <2>4. i < n
    BY <2>1 DEF IInv, Bounds
  <2>5. Inside'
    BY <2>1, <2>3, <2>4, <1>0 DEF Inside
  <2>6. (\A k \in fmt_begin + 1 .. n - 1 : m_pattern[k] # CloseBrace)'
    BY <2>1, <1>0
  <2> QED BY <2>1, <2>2, <2>5, <2>6, Zero DEF NameInv
<1>5. CASE FormatCloses
  <2>1. /\ pc = "name" /\ pc' = "found" /\ n <= Size /\ fmt_status = 1
        /\ m_pattern[n] = CloseBrace /\ n' = n + 1
        /\ UNCHANGED <<m_pattern, i, fmt_begin, str, m_error>>
    BY <1>5 DEF FormatCloses
  <2>2. (PercentAt(i) /\ ~PercentAt(i + 1))'
    BY <2>1 DEF NameInv, PercentAt, Size
  <2>3. Inside /\ \A k \in fmt_begin + 1 .. n - 1 : m_pattern[k] # CloseBrace
    BY <2>1 DEF NameInv
  <2>4. Inside'
    BY <2>1, <2>3, <1>0 DEF Inside, NameUpTo
  <2>5. n' - 1 = n /\ n' - 2 = n - 1
    BY <2>1, <1>0
  <2>6. ~m_error => str = SubSeq(m_pattern, i + 1, fmt_begin - 1)
    BY <2>1 DEF TileInv
  <2>7. ~m_error' => BracedRead'
    BY <2>1, <2>3, <2>4, <2>5, <2>6, <1>0 DEF BracedRead, Inside
  <2> QED BY <2>1, <2>2, <2>7 DEF NameInv
<1>6. CASE Consume
  <2>1. /\ pc = "name" /\ n <= Size /\ n' = n + 1
        /\ m_pattern[n] = CloseBrace => fmt_status = 0
        /\ fmt_status = 0 => m_pattern[n] \in Letters \cup {CloseBrace}
        /\ UNCHANGED <<m_pattern, pc, i, fmt_status, fmt_begin>>
    BY <1>6 DEF Consume
  <2>2. (PercentAt(i) /\ ~PercentAt(i + 1))'
    BY <2>1 DEF NameInv, PercentAt, Size
  <2>3. n' - 1 = n
    BY <2>1, <1>0
  <2>4. ASSUME fmt_status = 0 PROVE NameUpTo(n - 1)'
    <3>1. NameUpTo(n - 1) /\ m_pattern[n] \in Letters \cup {CloseBrace}
      BY <2>1, <2>4 DEF NameInv
    <3> QED BY <3>1, <2>1, <2>3, <1>0 DEF NameUpTo
  <2>5. ASSUME fmt_status = 1
        PROVE  (Inside /\ \A k \in fmt_begin + 1 .. n - 1 : m_pattern[k] # CloseBrace)'
    <3>1. /\ Inside /\ m_pattern[n] # CloseBrace
          /\ \A k \in fmt_begin + 1 .. n - 1 : m_pattern[k] # CloseBrace
      BY <2>1, <2>5, Zero DEF NameInv
    <3>2. Inside'
      BY <3>1, <2>1, <1>0 DEF Inside, NameUpTo
    <3>3. (\A k \in fmt_begin + 1 .. n - 1 : m_pattern[k] # CloseBrace)'
      BY <3>1, <2>1, <2>3, <1>0
    <3> QED BY <3>2, <3>3
  <2> QED BY <2>1, <2>2, <2>4, <2>5 DEF NameInv
<1>7. CASE Push
  <2>1. pc' = "scan"
    BY <1>7 DEF Push
  <2> QED BY <2>1 DEF NameInv
<1>8. CASE Unterminated
  <2>1. pc' = "scan"
    BY <1>8 DEF Unterminated
  <2> QED BY <2>1 DEF NameInv
<1>9. CASE Items
  <2>1. pc' = "done"
    BY <1>9 DEF Items
  <2> QED BY <2>1 DEF NameInv
<1>10. CASE UNCHANGED vars
  BY <1>10 DEF vars, NameInv, PercentAt, Size, NameUpTo, Inside, PlainRead, BracedRead
<1> QED
  BY <1>1, <1>2, <1>3, <1>4, <1>5, <1>6, <1>7, <1>8, <1>9, <1>10 DEF Next, Done

\* One part more.
LEMMA CutsGrow ==
  ASSUME NEW e \in Nat \ {0}, NEW f \in Nat, e < f, NEW S, Cuts(S, e), Part(e, f)
  PROVE  S \cup {f} \in SUBSET (1 .. f) /\ Cuts(S \cup {f}, f)
<1>1. /\ {1, e} \subseteq S /\ S \subseteq 1 .. e
      /\ \A a \in S \ {e} :
           \E b \in S : a < b /\ Part(a, b) /\ \A c \in S : c <= a \/ b <= c
  BY DEF Cuts
<1> DEFINE R == S \cup {f}
<1>2. {1, f} \subseteq R /\ R \subseteq 1 .. f
  BY <1>1
<1>3. ASSUME NEW a \in R \ {f}
      PROVE  \E b \in R : a < b /\ Part(a, b) /\ \A c \in R : c <= a \/ b <= c
  <2>1. a \in S /\ a \in 1 .. e
    BY <1>1, <1>3
  <2>2. CASE a = e
    <3>1. \A c \in R : c <= a \/ f <= c
      BY <1>1, <2>2
    <3>2. f \in R /\ a < f /\ Part(a, f)
      BY <2>2
    <3> QED BY <3>1, <3>2
  <2>3. CASE a # e
    <3>1. PICK b \in S : a < b /\ Part(a, b) /\ \A c \in S : c <= a \/ b <= c
      BY <1>1, <2>1, <2>3
    <3>2. b <= f
      BY <1>1
    <3>3. \A c \in R : c <= a \/ b <= c
      BY <3>1, <3>2
    <3> QED BY <3>1, <3>3
  <2> QED BY <2>2, <2>3
<1>4. Cuts(R, f)
  <2> HIDE DEF R
  <2> QED BY <1>2, <1>3 DEF Cuts
<1> QED BY <1>2, <1>4

\* A cut goes on from every position but the last.
LEMMA CutsNext ==
  ASSUME NEW e \in Nat, NEW S, Cuts(S, e), NEW a \in S, a # e
  PROVE  \E b \in S : a < b /\ Part(a, b) /\ b \in 1 .. e
BY DEF Cuts

LEMMA CutsFirst ==
  ASSUME NEW e \in Nat, NEW S, Cuts(S, e)
  PROVE  1 \in S
BY DEF Cuts

\* A reading is of the pattern only.
LEMMA SameCuts ==
  ASSUME m_pattern' = m_pattern, NEW S, NEW e
  PROVE  Cuts(S, e)' <=> Cuts(S, e)
<1>1. \A a, b : Part(a, b)' <=> Part(a, b)
  BY DEF Part, PercentAt, Size
<1> QED BY <1>1 DEF Cuts

\* What stands before a directive says nothing about names, and what follows
\* says what the directive's item is.
LEMMA PendingKnown ==
  ASSUME IInv
  PROVE  AllKnown(vec \o Pending) <=> AllKnown(vec)
<1>1. vec \in Seq(Entry) /\ Pending \in Seq(Entry)
  BY PendingType DEF IInv, TypeOK
<1>2. CASE n_str = <<>>
  <2>1. vec \o Pending = vec
    BY <1>1, <1>2 DEF Pending
  <2> QED BY <2>1
<1>3. CASE n_str # <<>>
  <2> DEFINE e == TextEntry(n_str, i - Len(n_str), i - 1)
  <2>1. Pending = <<e>> /\ e.kind # 1
    BY <1>3, Zero DEF Pending, TextEntry
  <2> HIDE DEF e
  <2> DEFINE r == vec \o Pending
  <2>2. /\ Len(r) = Len(vec) + 1 /\ Len(vec) \in Nat
        /\ r[Len(vec) + 1] = e
        /\ \A k \in 1 .. Len(vec) : r[k] = vec[k]
    BY <1>1, <2>1
  <2> HIDE DEF r
  <2>3. \A k \in 1 .. Len(r) : k \in 1 .. Len(vec) \/ k = Len(vec) + 1
    BY <2>2
  <2>4. \A k \in 1 .. Len(vec) : k \in 1 .. Len(r)
    BY <2>2
  <2>5. AllKnown(r) <=> AllKnown(vec)
    BY <2>1, <2>2, <2>3, <2>4 DEF AllKnown
  <2> QED BY <2>5 DEF r
<1> QED BY <1>2, <1>3

LEMMA AppendKnown ==
  ASSUME NEW s \in Seq(Entry), NEW e \in Entry, e.kind = 1
  PROVE  AllKnown(Append(s, e)) <=> AllKnown(s) /\ IsKnown(e)
<1> DEFINE r == Append(s, e)
<1>1. /\ Len(r) = Len(s) + 1 /\ Len(s) \in Nat
      /\ r[Len(s) + 1] = e
      /\ \A k \in 1 .. Len(s) : r[k] = s[k]
  OBVIOUS
<1> HIDE DEF r
<1>2. \A k \in 1 .. Len(r) : k \in 1 .. Len(s) \/ k = Len(s) + 1
  BY <1>1
<1>3. (\A k \in 1 .. Len(s) : k \in 1 .. Len(r)) /\ Len(s) + 1 \in 1 .. Len(r)
  BY <1>1
<1>4. AllKnown(r) <=> AllKnown(s) /\ IsKnown(e)
  BY <1>1, <1>2, <1>3 DEF AllKnown
<1> QED BY <1>4 DEF r

\* Push adds the text before the directive and the directive.
LEMMA PushKnown ==
  ASSUME IInv, Push
  PROVE  AllKnown(vec') <=> AllKnown(vec) /\ \E c \in Known : str = <<c>>
<1>1. vec' = Append(vec \o Pending, Item)
  BY DEF Push, Item
<1>2. Item \in Entry /\ Item.kind = 1 /\ Item.str = str
  <2>1. n - 1 \in Nat /\ i \in Nat /\ str \in Texts /\ fmt \in Texts
    BY DEF Push, LoopEnds, IInv, TypeOK, Bounds
  <2> QED BY <2>1 DEF Item, Entry
<1>3. vec \o Pending \in Seq(Entry)
  BY PendingType
<1>4. AllKnown(vec') <=> AllKnown(vec \o Pending) /\ IsKnown(Item)
  BY <1>1, <1>2, <1>3, AppendKnown
<1>5. IsKnown(Item) <=> \E c \in Known : str = <<c>>
  BY <1>2 DEF IsKnown
<1> QED BY <1>4, <1>5, PendingKnown

\* Where the inner loop ends with a complete directive, that is how far it read.
LEMMA PushRead ==
  ASSUME IInv, TileInv, NameInv, ~m_error, Push
  PROVE  /\ PlainRead \/ BracedRead
         /\ PercentAt(i) /\ ~PercentAt(i + 1)
         /\ i \in 1 .. Size /\ n \in i + 1 .. Size + 1 /\ m_pattern \in Seq(Chars)
<1>1. LoopEnds /\ fmt_status = 0
  BY DEF Push
<1>2. /\ i \in Nat \ {0} /\ n \in Nat \ {0} /\ Size \in Nat /\ m_pattern \in Seq(Chars)
  BY DEF IInv, TypeOK, Size
<1>3. i < n /\ n <= Size + 1 /\ pc \in {"name", "found"}
  BY <1>1 DEF LoopEnds, IInv, Bounds
<1>4. CASE pc = "found"
  BY <1>2, <1>3, <1>4 DEF NameInv
<1>5. CASE pc = "name" /\ n > Size
  <2>1. n = Size + 1 /\ n - 1 = Size
    BY <1>2, <1>3, <1>5
  <2>2. str = SubSeq(m_pattern, i + 1, Size) /\ NameUpTo(n - 1)
    BY <1>1, <1>5, <2>1 DEF TileInv, NameInv
  <2>3. PlainRead
    BY <1>2, <2>1, <2>2 DEF PlainRead
  <2> QED BY <1>2, <1>3, <1>5, <2>3 DEF NameInv
<1> QED BY <1>1, <1>4, <1>5 DEF LoopEnds

LEMMA AcceptInit == Init => AcceptInv
<1> SUFFICES ASSUME Init PROVE AcceptInv
  OBVIOUS
<1>1. pc = "scan" /\ i = 1
  BY DEF Init
<1>2. Cuts({1}, 1) /\ {1} \in SUBSET (1 .. 1)
  BY DEF Cuts
<1> QED BY <1>1, <1>2 DEF AcceptInv

\* A directive that is read, and known, is a part of a reading.
LEMMA KnownIsPart ==
  ASSUME IInv, TileInv, NameInv, ~m_error, Push, NEW c \in Known, str = <<c>>
  PROVE  Part(i, n)
<1>1. /\ PlainRead \/ BracedRead
      /\ PercentAt(i) /\ ~PercentAt(i + 1)
      /\ i \in 1 .. Size /\ n \in i + 1 .. Size + 1 /\ m_pattern \in Seq(Chars)
  BY PushRead
<1>0. i \in Nat /\ n \in Nat /\ Size \in Nat /\ i <= Size /\ i < n /\ n <= Size + 1
  <2>1. Size \in Nat
    BY <1>1 DEF Size
  <2> QED BY <1>1, <2>1
<1>2. ASSUME NEW e \in i .. Size, str = SubSeq(m_pattern, i + 1, e)
      PROVE  e = i + 1 /\ i < Size /\ m_pattern[i + 1] \in Known
  <2>1. Len(SubSeq(m_pattern, i + 1, e)) = e - i
    BY <1>1 DEF Size
  <2>2. Len(str) = 1 /\ str[1] = c
    OBVIOUS
  <2>3. e = i + 1 /\ e <= Size
    <3>1. Len(str) = e - i
      BY <1>2, <2>1
    <3>2. e - i = 1
      BY <2>2, <3>1
    <3> QED BY <1>0, <1>2, <3>2
  <2>4. SubSeq(m_pattern, i + 1, i + 1)[1] = m_pattern[i + 1]
    BY <1>1, <2>3 DEF Size
  <2> QED BY <1>0, <1>1, <1>2, <2>2, <2>3, <2>4
<1>3. CASE PlainRead
  <2>1. n - 1 \in i .. Size /\ str = SubSeq(m_pattern, i + 1, n - 1)
    BY <1>0, <1>3 DEF PlainRead
  <2>2. n - 1 = i + 1 /\ i < Size /\ m_pattern[i + 1] \in Known
    BY <1>2, <2>1
  <2>3. n = i + 2
    BY <1>1, <2>2
  <2> QED BY <1>1, <1>3, <2>2, <2>3 DEF Part, PlainRead
<1>4. CASE BracedRead
  <2>1. fmt_begin \in Nat /\ i < fmt_begin /\ fmt_begin < n - 1
    BY <1>4 DEF BracedRead, Inside, IInv, TypeOK
  <2>2. fmt_begin - 1 \in i .. Size /\ str = SubSeq(m_pattern, i + 1, fmt_begin - 1)
    <3>1. fmt_begin - 1 \in i .. Size
      BY <1>0, <2>1
    <3> QED BY <1>4, <3>1 DEF BracedRead
  <2>3. fmt_begin - 1 = i + 1 /\ i < Size /\ m_pattern[i + 1] \in Known
    BY <1>2, <2>2
  <2>4. fmt_begin = i + 2 /\ n >= i + 4 /\ fmt_begin + 1 = i + 3
    BY <1>1, <2>1, <2>3
  <2>5. /\ m_pattern[i + 2] = OpenBrace /\ m_pattern[n - 1] = CloseBrace
        /\ \A k \in i + 3 .. n - 2 : m_pattern[k] # CloseBrace
    BY <1>4, <2>4 DEF BracedRead, Inside
  <2> QED BY <1>1, <2>3, <2>4, <2>5 DEF Part
<1> QED BY <1>1, <1>3, <1>4

LEMMA AcceptStep ==
  IInv /\ TileInv /\ NameInv /\ AcceptInv /\ [Next]_vars => AcceptInv'
<1> SUFFICES ASSUME IInv, TileInv, NameInv, AcceptInv, [Next]_vars,
                    ~m_error', pc' # "done" => AllKnown(vec')
             PROVE  IF pc' = "done" THEN WellFormed'
                    ELSE \E S \in SUBSET (1 .. i') : Cuts(S, i)'
  BY DEF AcceptInv, AllKnown, IsKnown
<1>0. /\ i \in Nat \ {0} /\ n \in Nat \ {0} /\ Size \in Nat /\ i <= Size + 1
      /\ ~m_error
  BY DEF IInv, TypeOK, Bounds, Size, Next, Text, Directive, NameEnds, FormatOpens,
         FormatCloses, Consume, Push, Unterminated, Items, Done, vars
<1>1. CASE Text
  <2>1. /\ pc = "scan" /\ pc' = "scan" /\ i' = i + 1 /\ UNCHANGED <<m_pattern, vec>>
        /\ i <= Size /\ (PercentAt(i) => PercentAt(i + 1))
    BY <1>1 DEF Text
  <2>2. PICK S \in SUBSET (1 .. i) : Cuts(S, i)
    BY <1>0, <2>1 DEF AcceptInv
  <2>3. Part(i, i + 1)
    BY <2>1 DEF Part, PercentAt
  <2>4. S \cup {i + 1} \in SUBSET (1 .. i + 1) /\ Cuts(S \cup {i + 1}, i + 1)
    BY <1>0, <2>2, <2>3, CutsGrow
  <2>5. Cuts(S \cup {i}, i)'
    BY <2>1, <2>4, SameCuts
  <2> QED BY <2>1, <2>4, <2>5
<1>2. CASE Directive \/ NameEnds \/ FormatOpens \/ FormatCloses \/ Consume
  <2>1. /\ pc # "done" /\ pc' # "done" /\ UNCHANGED <<m_pattern, vec, i>>
    BY <1>2 DEF Directive, NameEnds, FormatOpens, FormatCloses, Consume
  <2>2. PICK S \in SUBSET (1 .. i) : Cuts(S, i)
    BY <1>0, <2>1 DEF AcceptInv
  <2>3. Cuts(S, i)'
    BY <2>1, <2>2, SameCuts
  <2> QED BY <2>1, <2>2, <2>3
<1>3. CASE Push
  <2>1. /\ pc # "done" /\ pc' = "scan" /\ i' = n /\ UNCHANGED m_pattern
    BY <1>3 DEF Push, LoopEnds
  <2>2. AllKnown(vec) /\ \E c \in Known : str = <<c>>
    BY <1>3, <2>1, PushKnown
  <2>3. Part(i, n) /\ i < n
    BY <1>0, <1>3, <2>2, KnownIsPart, PushRead
  <2>4. PICK S \in SUBSET (1 .. i) : Cuts(S, i)
    BY <1>0, <2>1, <2>2 DEF AcceptInv
  <2>5. S \cup {n} \in SUBSET (1 .. n) /\ Cuts(S \cup {n}, n)
    BY <1>0, <2>3, <2>4, CutsGrow
  <2>6. Cuts(S \cup {i}, i)'
    BY <2>1, <2>5, SameCuts
  <2> QED BY <2>1, <2>5, <2>6
<1>4. CASE Unterminated
  BY <1>4 DEF Unterminated
<1>5. CASE Items
  <2>1. /\ pc = "scan" /\ pc' = "done" /\ i > Size /\ vec' = vec \o Pending
        /\ m_error' = (m_error \/ \E k \in 1 .. Len(vec') : vec'[k].kind = 1 /\ ~IsKnown(vec'[k]))
        /\ UNCHANGED m_pattern
    BY <1>5 DEF Items
  <2>2. AllKnown(vec) /\ i = Size + 1
    <3>1. AllKnown(vec')
      BY <2>1 DEF AllKnown
    <3> QED BY <1>0, <2>1, <3>1, PendingKnown
  <2>3. PICK S \in SUBSET (1 .. Size + 1) : Cuts(S, Size + 1)
    BY <1>0, <2>1, <2>2 DEF AcceptInv
  <2>4. Size' = Size
    BY <2>1 DEF Size
  <2>5. Cuts(S, Size + 1)'
    BY <2>1, <2>3, <2>4, SameCuts
  <2> QED BY <2>1, <2>4, <2>5 DEF WellFormed
<1>6. CASE UNCHANGED vars
  <2>1. UNCHANGED <<m_pattern, pc, i, vec, m_error>>
    BY <1>6 DEF vars
  <2>2. Size' = Size
    BY <2>1 DEF Size
  <2>3. WellFormed => WellFormed'
    BY <2>1, <2>2, SameCuts DEF WellFormed
  <2>4. \A S : Cuts(S, i) => Cuts(S, i)'
    BY <2>1, SameCuts
  <2> QED BY <1>0, <2>1, <2>3, <2>4 DEF AcceptInv
<1> QED
  BY <1>1, <1>2, <1>3, <1>4, <1>5, <1>6 DEF Next, Done

LEMMA RefuseInit == Init => RefuseInv
<1> SUFFICES ASSUME Init, NEW S \in SUBSET (1 .. Size + 1), Cuts(S, Size + 1)
             PROVE  ~m_error /\ AllKnown(vec) /\ i \in S
  BY DEF RefuseInv
<1>1. i = 1 /\ vec = <<>> /\ m_error = FALSE
  BY DEF Init
<1>2. Size \in Nat
  BY LogFormatterAssumption DEF Init, Size
<1>3. 1 \in S
  BY <1>2, CutsFirst
<1>4. AllKnown(<<>>)
  BY DEF AllKnown
<1> QED BY <1>1, <1>3, <1>4

\* The characters the scanner looks for are three, and no letters.
LEMMA Special ==
  /\ OpenBrace \notin Letters /\ CloseBrace \notin Letters /\ "%" \notin Letters
  /\ OpenBrace # CloseBrace
  /\ \A c \in Known : c \in Letters
BY LogFormatterAssumption DEF OpenBrace, CloseBrace

\* A % that is no text starts a directive with a known name.
LEMMA DirectivePart ==
  ASSUME NEW b, PercentAt(i), ~PercentAt(i + 1), Part(i, b)
  PROVE  /\ i < Size /\ m_pattern[i + 1] \in Known
         /\ \/ b = i + 2 /\ (b <= Size => m_pattern[b] \notin NameChars)
            \/ /\ b >= i + 4
               /\ m_pattern[i + 2] = OpenBrace /\ m_pattern[b - 1] = CloseBrace
               /\ \A k \in i + 3 .. b - 2 : m_pattern[k] # CloseBrace
<1>1. m_pattern[i] = "%"
  BY DEF PercentAt
<1> QED BY <1>1 DEF Part

\* The inner loop meets the { of a known directive right behind its name.
LEMMA OpensBehindName ==
  ASSUME NEW b \in Nat, b <= Size + 1, i \in Nat, fmt_begin \in Nat, Size \in Nat,
         fmt_begin <= Size, PercentAt(i), ~PercentAt(i + 1), Part(i, b), Inside
  PROVE  /\ fmt_begin = i + 2 /\ b >= i + 4
         /\ m_pattern[b - 1] = CloseBrace
         /\ \A k \in i + 3 .. b - 2 : m_pattern[k] # CloseBrace
<1>1. /\ i < fmt_begin /\ m_pattern[fmt_begin] = OpenBrace
      /\ \A k \in i + 1 .. fmt_begin - 1 : m_pattern[k] \in Letters \cup {CloseBrace}
  BY DEF Inside, NameUpTo
<1>2. fmt_begin # i + 1
  BY <1>1, DirectivePart, Special
<1>3. fmt_begin >= i + 2
  BY <1>1, <1>2
<1>4. fmt_begin > i + 2 => m_pattern[i + 2] \in Letters \cup {CloseBrace}
  <2>1. fmt_begin > i + 2 => i + 2 \in i + 1 .. fmt_begin - 1
    OBVIOUS
  <2> QED BY <1>1, <2>1
<1>5. CASE b = i + 2 /\ (b <= Size => m_pattern[b] \notin NameChars)
  <2>1. b <= Size
    BY <1>3, <1>5
  <2>2. m_pattern[i + 2] \notin NameChars
    BY <1>5, <2>1
  <2>3. fmt_begin = i + 2
    BY <1>3, <1>4, <2>2 DEF NameChars
  <2> QED BY <1>1, <2>2, <2>3 DEF NameChars
<1>6. CASE /\ b >= i + 4
           /\ m_pattern[i + 2] = OpenBrace /\ m_pattern[b - 1] = CloseBrace
           /\ \A k \in i + 3 .. b - 2 : m_pattern[k] # CloseBrace
  <2>1. ~(fmt_begin > i + 2)
    BY <1>4, <1>6, Special
  <2>2. fmt_begin = i + 2
    BY <1>3, <2>1
  <2> QED BY <1>6, <2>2
<1> QED BY <1>5, <1>6, DirectivePart

\* Where a reading has a directive, the outer loop reads the same.
LEMMA PushFollows ==
  ASSUME IInv, TileInv, NameInv, ~m_error, Push,
         NEW b \in Nat, i < b, b <= Size + 1, Part(i, b)
  PROVE  b = n /\ \E c \in Known : str = <<c>>
<1>1. /\ PlainRead \/ BracedRead
      /\ PercentAt(i) /\ ~PercentAt(i + 1)
      /\ i \in 1 .. Size /\ n \in i + 1 .. Size + 1 /\ m_pattern \in Seq(Chars)
  BY PushRead
<1>0. i \in Nat /\ n \in Nat /\ Size \in Nat /\ i <= Size /\ i < n /\ n <= Size + 1
  <2>1. Size \in Nat
    BY <1>1 DEF Size
  <2> QED BY <1>1, <2>1
<1>2. i < Size /\ m_pattern[i + 1] \in Known
  BY <1>1, DirectivePart
<1>3. SubSeq(m_pattern, i + 1, i + 1) = <<m_pattern[i + 1]>>
  <2>1. i + 1 \in 1 .. Len(m_pattern) /\ m_pattern \in Seq(Chars)
    BY <1>0, <1>1, <1>2 DEF Size
  <2>2. /\ SubSeq(m_pattern, i + 1, i + 1)
             = <<m_pattern[i + 1]>> \o SubSeq(m_pattern, i + 2, i + 1)
        /\ SubSeq(m_pattern, i + 2, i + 1) = <<>>
    <3>1. i + 1 + 1 = i + 2 /\ i + 1 \in i + 1 .. Len(m_pattern) /\ i + 1 < i + 2
      BY <1>0, <2>1
    <3> QED BY <1>0, <2>1, <3>1, SubSeqRecursiveFirst, SubSeqEmpty
  <2>3. ASSUME NEW c PROVE <<c>> \o <<>> = <<c>>
    OBVIOUS
  <2> QED BY <2>2, <2>3
<1>4. CASE PlainRead
  <2>1. /\ str = SubSeq(m_pattern, i + 1, n - 1)
        /\ \A k \in i + 1 .. n - 1 : m_pattern[k] \in Letters \cup {CloseBrace}
        /\ n <= Size => m_pattern[n] \notin NameChars
    BY <1>4 DEF PlainRead, NameUpTo
  <2>2. n # i + 1
    BY <1>0, <1>2, <2>1, Special DEF NameChars
  <2>3. n >= i + 2
    BY <1>0, <2>2
  <2>4. n > i + 2 => m_pattern[i + 2] \in Letters \cup {CloseBrace}
    <3>1. n > i + 2 => i + 2 \in i + 1 .. n - 1
      BY <1>0
    <3> QED BY <2>1, <3>1
  <2>5. CASE b = i + 2 /\ (b <= Size => m_pattern[b] \notin NameChars)
    <3>1. n > i + 2 => b <= Size
      BY <1>0, <2>5
    <3>2. ~(n > i + 2)
      BY <2>4, <2>5, <3>1 DEF NameChars
    <3>3. n = b /\ n - 1 = i + 1
      BY <1>0, <2>3, <2>5, <3>2
    <3> QED BY <1>2, <1>3, <2>1, <3>3
  <2>6. CASE b >= i + 4 /\ m_pattern[i + 2] = OpenBrace
    <3>1. i + 2 <= Size
      BY <1>0, <2>6
    <3>2. n > i + 2 \/ n = i + 2
      BY <1>0, <2>3
    <3> QED BY <2>1, <2>4, <2>6, <3>1, <3>2, Special DEF NameChars
  <2> QED BY <1>1, <2>5, <2>6, DirectivePart
<1>5. CASE BracedRead
  <2>1. fmt_begin \in Nat /\ fmt_begin < n - 1
    BY <1>5 DEF BracedRead, IInv, TypeOK
  <2>2. fmt_begin <= Size
    BY <1>0, <2>1
  <2>3. /\ fmt_begin = i + 2 /\ b >= i + 4
        /\ m_pattern[b - 1] = CloseBrace
        /\ \A k \in i + 3 .. b - 2 : m_pattern[k] # CloseBrace
    BY <1>0, <1>1, <1>5, <2>1, <2>2, OpensBehindName DEF BracedRead
  <2>4. /\ str = SubSeq(m_pattern, i + 1, fmt_begin - 1)
        /\ m_pattern[n - 1] = CloseBrace
        /\ \A k \in fmt_begin + 1 .. n - 2 : m_pattern[k] # CloseBrace
    BY <1>5 DEF BracedRead
  <2>5. fmt_begin - 1 = i + 1 /\ fmt_begin + 1 = i + 3 /\ n >= i + 4
    BY <1>0, <2>1, <2>3
  <2>6. b = n
    <3>1. ~(b < n)
      <4>1. b < n => b - 1 \in i + 3 .. n - 2
        BY <1>0, <2>3
      <4> QED BY <2>3, <2>4, <2>5, <4>1
    <3>2. ~(n < b)
      <4>1. n < b => n - 1 \in i + 3 .. b - 2
        BY <1>0, <2>5
      <4> QED BY <2>3, <2>4, <4>1
    <3> QED BY <1>0, <3>1, <3>2
  <2> QED BY <1>2, <1>3, <2>4, <2>5, <2>6
<1> QED BY <1>1, <1>4, <1>5

LEMMA RefuseStep ==
  IInv /\ TileInv /\ NameInv /\ RefuseInv /\ [Next]_vars => RefuseInv'
<1> SUFFICES ASSUME IInv, TileInv, NameInv, RefuseInv, [Next]_vars,
                    NEW S \in SUBSET (1 .. Size' + 1), Cuts(S, Size + 1)'
             PROVE  ~m_error' /\ AllKnown(vec') /\ (pc' # "done" => i' \in S)
  BY DEF RefuseInv, AllKnown, IsKnown
<1>0. UNCHANGED m_pattern /\ Size' = Size
  BY DEF Next, Text, Directive, NameEnds, FormatOpens, FormatCloses, Consume, Push,
         Unterminated, Items, Done, vars, Size
<1>1. S \in SUBSET (1 .. Size + 1) /\ Cuts(S, Size + 1)
  BY <1>0, SameCuts
<1>2. ~m_error /\ AllKnown(vec) /\ (pc # "done" => i \in S)
  BY <1>1 DEF RefuseInv
<1>3. i \in Nat \ {0} /\ n \in Nat \ {0} /\ Size \in Nat /\ fmt_begin \in Nat
  BY DEF IInv, TypeOK, Size
<1>4. ASSUME pc # "done", i <= Size
      PROVE  \E b \in S : i < b /\ b \in Nat /\ b <= Size + 1 /\ Part(i, b)
  <2>1. i \in S /\ i # Size + 1
    BY <1>2, <1>3, <1>4
  <2>2. \E b \in S : i < b /\ Part(i, b) /\ b \in 1 .. Size + 1
    BY <1>1, <1>3, <2>1, CutsNext
  <2> QED BY <1>3, <2>2
<1>5. CASE Text
  <2>1. /\ pc = "scan" /\ i' = i + 1 /\ i <= Size /\ UNCHANGED <<vec, m_error>>
        /\ PercentAt(i) => PercentAt(i + 1)
    BY <1>5 DEF Text
  <2>2. PICK b \in S : i < b /\ Part(i, b)
    BY <1>4, <2>1
  <2>3. b = i + 1
    <3>1. PercentAt(i) => m_pattern[i + 1] \notin Known
      BY <2>1, Special DEF PercentAt
    <3> QED BY <2>1, <2>2, <3>1 DEF Part
  <2> QED BY <1>2, <2>1, <2>2, <2>3
<1>6. CASE Directive \/ NameEnds \/ FormatOpens \/ FormatCloses \/ Consume
  <2>1. pc # "done" /\ UNCHANGED <<vec, i, m_error>>
    BY <1>6 DEF Directive, NameEnds, FormatOpens, FormatCloses, Consume
  <2> QED BY <1>2, <2>1
<1>7. CASE Push
  <2>1. pc # "done" /\ i' = n /\ UNCHANGED m_error /\ i <= Size
    BY <1>2, <1>3, <1>7, PushRead DEF Push, LoopEnds
  <2>2. PICK b \in S : i < b /\ b \in Nat /\ b <= Size + 1 /\ Part(i, b)
    BY <1>4, <2>1
  <2>3. b = n /\ \E c \in Known : str = <<c>>
    BY <1>2, <1>7, <2>2, PushFollows
  <2>4. AllKnown(vec')
    BY <1>2, <1>7, <2>3, PushKnown
  <2> QED BY <1>2, <2>1, <2>2, <2>3, <2>4
<1>8. CASE Unterminated
  <2>1. pc = "name" /\ n > Size /\ fmt_status = 1
    BY <1>8, Zero DEF Unterminated, LoopEnds, IInv, Bounds
  <2>2. n = Size + 1 /\ i < n
    BY <1>3, <2>1 DEF IInv, Bounds
  <2>3. /\ PercentAt(i) /\ ~PercentAt(i + 1) /\ Inside
        /\ \A k \in fmt_begin + 1 .. n - 1 : m_pattern[k] # CloseBrace
    BY <2>1 DEF NameInv
  <2>4. i <= Size /\ fmt_begin <= Size
    BY <1>3, <2>2, <2>3 DEF Inside
  <2>5. PICK b \in S : i < b /\ b \in Nat /\ b <= Size + 1 /\ Part(i, b)
    BY <1>4, <2>1, <2>4
  <2>6. fmt_begin = i + 2 /\ b >= i + 4 /\ m_pattern[b - 1] = CloseBrace
    BY <1>3, <2>3, <2>4, <2>5, OpensBehindName
  <2>7. b - 1 \in fmt_begin + 1 .. n - 1
    BY <1>3, <2>2, <2>5, <2>6
  <2> QED BY <2>3, <2>6, <2>7
<1>9. CASE Items
  <2>1. /\ pc' = "done" /\ vec' = vec \o Pending
        /\ m_error' = (m_error \/ \E k \in 1 .. Len(vec') : vec'[k].kind = 1 /\ ~IsKnown(vec'[k]))
    BY <1>9 DEF Items
  <2>2. AllKnown(vec')
    BY <1>2, <2>1, PendingKnown
  <2> QED BY <1>2, <2>1, <2>2 DEF AllKnown
<1>10. CASE UNCHANGED vars
  BY <1>2, <1>10 DEF vars
<1> QED
  BY <1>5, <1>6, <1>7, <1>8, <1>9, <1>10 DEF Next, Done

\* The formatter reports an error exactly for the patterns that have no reading.
THEOREM RefusedExactly == Spec => []RefusedIfMalformed
<1> DEFINE Inv == IInv /\ TileInv /\ NameInv /\ AcceptInv /\ RefuseInv
<1>1. Init => Inv
  BY InitInv, TileInit, NameInit, AcceptInit, RefuseInit
<1>2. Inv /\ [Next]_vars => Inv'
  BY StepInv, TileStep, NameStep, AcceptStep, RefuseStep
<1>3. Inv => RefusedIfMalformed
  <2>1. SUFFICES ASSUME Inv, pc = "done" PROVE m_error <=> ~WellFormed
    BY DEF RefusedIfMalformed
  <2>2. WellFormed => ~m_error
    BY <2>1 DEF WellFormed, RefuseInv
  <2>3. ~m_error => WellFormed
    BY <2>1 DEF AcceptInv
  <2> QED BY <2>2, <2>3
<1> QED
  BY <1>1, <1>2, <1>3, PTL DEF Spec

-----------------------------------------------------------------------------
(* One reading *)

\* Induction, for a set of numbers: the intervals from 0 to what it misses are
\* finite, and one of them would be minimal for strict inclusion.
LEMMA Induct ==
  ASSUME NEW S \in SUBSET Nat, 0 \in S, \A k \in S : k + 1 \in S
  PROVE  S = Nat
<1> SUFFICES ASSUME Nat \ S # {} PROVE FALSE
  OBVIOUS
<1> DEFINE U == {0 .. k : k \in Nat \ S}
<1>1. U \subseteq FiniteSubsetsOf(Nat) /\ U # {}
  <2>1. ASSUME NEW k \in Nat PROVE 0 .. k \in FiniteSubsetsOf(Nat)
    BY FS_Interval DEF FiniteSubsetsOf
  <2> QED BY <2>1
<1>2. PICK x \in U : \A y \in U : ~ (<<y, x>> \in StrictSubsetOrdering(Nat))
  <2> HIDE DEF U
  <2> QED BY <1>1, WFMin, FS_StrictSubsetOrderingWellFounded
<1>3. PICK m \in Nat \ S : x = 0 .. m
  OBVIOUS
<1>4. m # 0 /\ m - 1 \in Nat \ S
  OBVIOUS
<1>5. 0 .. m - 1 \in U
  BY <1>4
<1>6. <<0 .. m - 1, x>> \in StrictSubsetOrdering(Nat)
  BY <1>3, <1>4 DEF StrictSubsetOrdering
<1> QED BY <1>2, <1>5, <1>6

\* A part that begins at a ends at one place only.
LEMMA OneEnd ==
  ASSUME Size \in Nat, NEW a \in 1 .. Size, NEW b \in 1 .. Size + 1, NEW c \in 1 .. Size + 1,
         Part(a, b), Part(a, c)
  PROVE  b = c
<1> DEFINE Plain(d) == d = a + 2 /\ (d <= Size => m_pattern[d] \notin NameChars)
           Braced(d) == /\ d >= a + 4
                        /\ m_pattern[a + 2] = OpenBrace /\ m_pattern[d - 1] = CloseBrace
                        /\ \A k \in a + 3 .. d - 2 : m_pattern[k] # CloseBrace
<1>1. CASE m_pattern[a] # "%" \/ PercentAt(a + 1)
  <2>1. m_pattern[a] # "%" \/ m_pattern[a + 1] = "%"
    BY <1>1 DEF PercentAt
  <2>2. m_pattern[a + 1] \in Known => m_pattern[a + 1] # "%"
    BY Special
  <2> QED BY <2>1, <2>2 DEF Part, PercentAt
<1>2. CASE ~(m_pattern[a] # "%" \/ PercentAt(a + 1))
  <2>1. \A d : Part(a, d) => Plain(d) \/ Braced(d)
    BY <1>2 DEF Part
  <2>2. OpenBrace \in NameChars
    BY DEF NameChars
  <2>3. ASSUME NEW d \in 1 .. Size + 1, Braced(d) PROVE ~Plain(a + 2)
    BY <2>2, <2>3
  <2>4. ASSUME NEW d \in 1 .. Size + 1, NEW f \in 1 .. Size + 1, Braced(d), Braced(f)
        PROVE  ~(d < f)
    <3>1. d < f => d - 1 \in a + 3 .. f - 2
      BY <2>4
    <3> QED BY <2>4, <3>1
  <2> QED BY <2>1, <2>3, <2>4
<1> QED BY <1>1, <1>2

\* A pattern can be cut in one way only, so that what Tiled and RefusedIfMalformed
\* ask of the scanner leaves it no choice between readings: up to any position,
\* two cuts agree, and have reached the same last part.
THEOREM OneReading ==
  ASSUME Size \in Nat, NEW e \in 1 .. Size + 1, NEW C, NEW D, Cuts(C, e), Cuts(D, e)
  PROVE  C = D
<1>1. /\ 1 \in C /\ e \in C /\ C \subseteq 1 .. e /\ 1 \in D /\ e \in D /\ D \subseteq 1 .. e
      /\ \A a \in C \ {e} :
           \E b \in C : a < b /\ Part(a, b) /\ \A c \in C : c <= a \/ b <= c
      /\ \A a \in D \ {e} :
           \E b \in D : a < b /\ Part(a, b) /\ \A c \in D : c <= a \/ b <= c
  BY DEF Cuts
<1> DEFINE Agree(k) == /\ \A c \in 1 .. k : c \in C <=> c \in D
                       /\ \E a \in C \cap D : a <= k /\ \A c \in C \cup D : c <= k => c <= a
           S == {k \in Nat : k = 0 \/ Agree(k)}
<1>2. 0 \in S
  OBVIOUS
<1>3. ASSUME NEW k \in S PROVE Agree(k + 1)
  <2>1. CASE k = 0
    <3>1. Agree(1)
      <4>1. 1 \in C \cap D /\ \A c \in C \cup D : c <= 1 => c <= 1
        BY <1>1
      <4>2. \A c \in 1 .. 1 : c \in C <=> c \in D
        BY <1>1
      <4> QED BY <4>1, <4>2
    <3>2. k + 1 = 1
      BY <2>1
    <3> HIDE DEF Agree
    <3> QED BY <3>1, <3>2
  <2>2. CASE k # 0
    <3>1. PICK a \in C \cap D : a <= k /\ \A c \in C \cup D : c <= k => c <= a
      BY <2>2
    <3>2. \A c \in 1 .. k : c \in C <=> c \in D
      BY <2>2
    <3> HIDE DEF S
    <3>3. CASE a = e
      <4>1. k \in Nat /\ \A c \in C \cup D : c \in 1 .. e
        BY <1>1 DEF S
      <4>2. k + 1 \notin C /\ k + 1 \notin D
        BY <3>1, <3>3, <4>1
      <4> QED BY <3>1, <3>2, <3>3, <4>1, <4>2
    <3>4. CASE a # e
      <4>1. PICK b \in C : a < b /\ Part(a, b) /\ \A c \in C : c <= a \/ b <= c
        BY <1>1, <3>4
      <4>2. PICK d \in D : a < d /\ Part(a, d) /\ \A c \in D : c <= a \/ d <= c
        BY <1>1, <3>4
      <4>3. b = d
        <5>1. a \in 1 .. Size /\ b \in 1 .. Size + 1 /\ d \in 1 .. Size + 1
          BY <1>1, <3>4
        <5> QED BY <4>1, <4>2, <5>1, OneEnd
      <4>4. k \in Nat /\ a \in Nat /\ b \in Nat /\ b > k
        BY <1>1, <3>1, <4>1 DEF S
      <4>5. CASE b = k + 1
        BY <1>1, <3>1, <3>2, <4>1, <4>2, <4>3, <4>4, <4>5
      <4>6. CASE b # k + 1
        BY <1>1, <3>1, <3>2, <4>1, <4>2, <4>3, <4>4, <4>6
      <4> QED BY <4>5, <4>6
    <3> QED BY <3>3, <3>4
  <2> QED BY <2>1, <2>2
<1>4. S = Nat
  <2>1. \A k \in S : k + 1 \in S
    BY <1>3
  <2> HIDE DEF S, Agree
  <2> QED BY <1>2, <2>1, Induct DEF S
<1>5. Agree(e)
  <2>1. e \in S /\ e # 0
    BY <1>4
  <2> HIDE DEF Agree
  <2> QED BY <2>1
<1> QED BY <1>1, <1>5

-----------------------------------------------------------------------------
(* The entries of the reading *)

\* The outer loop has made an entry of each directive of the reading that it has
\* passed, and of nothing else.
FollowInv ==
  \A S \in SUBSET (1 .. Size + 1) : Cuts(S, Size + 1) =>
    Directives(vec) = {part \in DirectivesOf(S) : part[1] < i}

LEMMA AppendDirectives ==
  ASSUME NEW s \in Seq(Entry), NEW e \in Entry
  PROVE  Directives(Append(s, e)) =
           Directives(s) \cup (IF e.kind = 1 THEN {<<e.first, e.last + 1>>} ELSE {})
<1> DEFINE r == Append(s, e)
           Of(t) == {j \in 1 .. Len(t) : t[j].kind = 1}
<1>1. /\ Len(r) = Len(s) + 1 /\ Len(s) \in Nat
      /\ r[Len(s) + 1] = e
      /\ \A k \in 1 .. Len(s) : r[k] = s[k]
  OBVIOUS
<1> HIDE DEF r
<1>2. \A k : k \in 1 .. Len(r) <=> k \in 1 .. Len(s) \/ k = Len(s) + 1
  BY <1>1
<1>3. Of(r) = Of(s) \cup (IF e.kind = 1 THEN {Len(s) + 1} ELSE {})
  BY <1>1, <1>2
<1>4. \A k \in Of(s) : r[k] = s[k]
  BY <1>1
<1> HIDE DEF Of
<1>5. {<<r[k].first, r[k].last + 1>> : k \in Of(r)} =
        {<<s[k].first, s[k].last + 1>> : k \in Of(s)}
          \cup (IF e.kind = 1 THEN {<<e.first, e.last + 1>>} ELSE {})
  BY <1>1, <1>3, <1>4
<1> QED BY <1>5 DEF Directives, Of, r

\* What a directive of a reading is.
LEMMA PartsOfReading ==
  ASSUME NEW S, NEW part \in DirectivesOf(S)
  PROVE  /\ part = <<part[1], part[2]>> /\ part[1] \in S /\ part[2] \in S
         /\ Part(part[1], part[2]) /\ PercentAt(part[1]) /\ ~PercentAt(part[1] + 1)
<1>1. part \in S \X S
  BY DEF DirectivesOf
<1>2. Part(part[1], part[2]) /\ PercentAt(part[1]) /\ ~PercentAt(part[1] + 1)
  BY DEF DirectivesOf
<1>3. part = <<part[1], part[2]>> /\ part[1] \in S /\ part[2] \in S
  BY <1>1
<1> QED BY <1>2, <1>3

\* The text in front of a directive is none.
LEMMA PendingDirectives ==
  ASSUME IInv
  PROVE  Directives(vec \o Pending) = Directives(vec)
<1>1. vec \in Seq(Entry) /\ Pending \in Seq(Entry)
  BY PendingType DEF IInv, TypeOK
<1>2. CASE n_str = <<>>
  <2>1. vec \o Pending = vec
    BY <1>1, <1>2 DEF Pending
  <2> QED BY <2>1
<1>3. CASE n_str # <<>>
  <2> DEFINE e == TextEntry(n_str, i - Len(n_str), i - 1)
  <2>1. Pending = <<e>> /\ e.kind # 1
    BY <1>3, Zero DEF Pending, TextEntry
  <2> HIDE DEF e
  <2>2. e \in Entry /\ vec \o Pending = Append(vec, e)
    BY <1>1, <2>1
  <2> QED BY <1>1, <2>1, <2>2, AppendDirectives
<1> QED BY <1>2, <1>3

LEMMA PushDirectives ==
  ASSUME IInv, Push
  PROVE  Directives(vec') = Directives(vec) \cup {<<i, n>>}
<1>1. vec' = Append(vec \o Pending, Item)
  BY DEF Push, Item
<1>2. Item \in Entry /\ Item.kind = 1 /\ Item.first = i /\ Item.last + 1 = n
  <2>1. n - 1 \in Nat /\ i \in Nat /\ str \in Texts /\ fmt \in Texts /\ (n - 1) + 1 = n
    BY DEF Push, LoopEnds, IInv, TypeOK, Bounds
  <2> QED BY <2>1 DEF Item, Entry
<1>3. vec \o Pending \in Seq(Entry)
  BY PendingType
<1> QED BY <1>1, <1>2, <1>3, AppendDirectives, PendingDirectives

LEMMA SameDirectives ==
  ASSUME m_pattern' = m_pattern, NEW S
  PROVE  DirectivesOf(S)' = DirectivesOf(S)
<1>1. \A a, b : Part(a, b)' <=> Part(a, b)
  BY DEF Part, PercentAt, Size
<1>2. \A a : PercentAt(a)' <=> PercentAt(a)
  BY DEF PercentAt, Size
<1> QED BY <1>1, <1>2 DEF DirectivesOf

LEMMA FollowInit == Init => FollowInv
<1> SUFFICES ASSUME Init, NEW S \in SUBSET (1 .. Size + 1)
             PROVE  Directives(vec) = {part \in DirectivesOf(S) : part[1] < i}
  BY DEF FollowInv
<1>1. vec = <<>> /\ i = 1
  BY DEF Init
<1>2. Directives(vec) = {}
  BY <1>1 DEF Directives
<1>3. \A part \in DirectivesOf(S) : part[1] \in 1 .. Size + 1
  BY PartsOfReading
<1> QED BY <1>1, <1>2, <1>3

LEMMA FollowStep ==
  IInv /\ TileInv /\ NameInv /\ RefuseInv /\ RefuseInv' /\ FollowInv /\ [Next]_vars => FollowInv'
<1> SUFFICES ASSUME IInv, TileInv, NameInv, RefuseInv, RefuseInv', FollowInv, [Next]_vars,
                    NEW S \in SUBSET (1 .. Size' + 1), Cuts(S, Size + 1)'
             PROVE  Directives(vec)' = {part \in DirectivesOf(S)' : part[1] < i'}
  BY DEF FollowInv
<1>0. UNCHANGED m_pattern /\ Size' = Size
  BY DEF Next, Text, Directive, NameEnds, FormatOpens, FormatCloses, Consume, Push,
         Unterminated, Items, Done, vars, Size
<1>1. S \in SUBSET (1 .. Size + 1) /\ Cuts(S, Size + 1)
  BY <1>0, SameCuts
<1>2. /\ ~m_error /\ (pc # "done" => i \in S)
      /\ ~m_error'
      /\ Directives(vec) = {part \in DirectivesOf(S) : part[1] < i}
  BY <1>1 DEF RefuseInv, FollowInv
<1>3. DirectivesOf(S)' = DirectivesOf(S) /\ Directives(vec)' = Directives(vec')
  BY <1>0, SameDirectives DEF Directives
<1>4. /\ i \in Nat \ {0} /\ n \in Nat \ {0} /\ Size \in Nat
      /\ \A part \in DirectivesOf(S) :
           /\ part = <<part[1], part[2]>> /\ part[1] \in 1 .. Size + 1 /\ part[2] \in 1 .. Size + 1
           /\ Part(part[1], part[2]) /\ PercentAt(part[1]) /\ ~PercentAt(part[1] + 1)
  <2>1. i \in Nat \ {0} /\ n \in Nat \ {0} /\ Size \in Nat
    BY DEF IInv, TypeOK, Bounds, Size
  <2>2. ASSUME NEW part \in DirectivesOf(S)
        PROVE  /\ part = <<part[1], part[2]>> /\ part[1] \in 1 .. Size + 1 /\ part[2] \in 1 .. Size + 1
               /\ Part(part[1], part[2]) /\ PercentAt(part[1]) /\ ~PercentAt(part[1] + 1)
    BY <1>1, PartsOfReading
  <2> QED BY <2>1, <2>2
<1>5. CASE Text
  <2>1. i' = i + 1 /\ vec' = vec /\ (PercentAt(i) => PercentAt(i + 1))
    BY <1>5 DEF Text
  <2>2. \A part \in DirectivesOf(S) : part[1] # i
    BY <1>4, <2>1
  <2> QED BY <1>2, <1>3, <1>4, <2>1, <2>2
<1>6. CASE Directive \/ NameEnds \/ FormatOpens \/ FormatCloses \/ Consume
  BY <1>2, <1>3, <1>6 DEF Directive, NameEnds, FormatOpens, FormatCloses, Consume
<1>7. CASE Push
  <2>1. pc # "done" /\ i' = n /\ i \in 1 .. Size /\ PercentAt(i) /\ ~PercentAt(i + 1)
    BY <1>2, <1>7, PushRead DEF Push, LoopEnds
  <2>2. PICK b \in S : i < b /\ Part(i, b) /\ \A c \in S : c <= i \/ b <= c
    BY <1>1, <1>2, <1>4, <2>1 DEF Cuts
  <2>3. b \in 1 .. Size + 1
    BY <1>1
  <2>4. b = n
    BY <1>2, <1>4, <1>7, <2>2, <2>3, PushFollows
  <2>5. <<i, n>> \in DirectivesOf(S) /\ i < n
    BY <1>2, <2>1, <2>2, <2>4 DEF DirectivesOf
  <2>6. ASSUME NEW part \in DirectivesOf(S), part[1] < n, ~(part[1] < i) PROVE part = <<i, n>>
    <3>1. part[1] \in S /\ part[1] \in Nat
      BY <1>4, PartsOfReading
    <3>2. part[1] = i
      BY <1>4, <2>2, <2>4, <2>6, <3>1
    <3>3. part[2] = n
      BY <1>4, <2>1, <2>2, <2>3, <2>4, <3>2, OneEnd
    <3> QED BY <1>4, <3>2, <3>3
  <2>7. Directives(vec') = Directives(vec) \cup {<<i, n>>}
    BY <1>7, PushDirectives
  <2>8. \A part \in DirectivesOf(S) : part[1] < i => part[1] < n
    BY <1>4, <2>5
  <2> QED BY <1>2, <1>3, <2>1, <2>5, <2>6, <2>7, <2>8
<1>8. CASE Unterminated
  BY <1>2, <1>8 DEF Unterminated
<1>9. CASE Items
  <2>1. vec' = vec \o Pending /\ i' = i
    BY <1>9 DEF Items
  <2> QED BY <1>2, <1>3, <2>1, PendingDirectives
<1>10. CASE UNCHANGED vars
  BY <1>2, <1>3, <1>10 DEF vars
<1> QED
  BY <1>5, <1>6, <1>7, <1>8, <1>9, <1>10 DEF Next, Done

\* A pattern that is accepted is cut into entries without gap, overlap or change
\* of order, each entry is what stands in the pattern, and a directive is made of
\* what the reading has as one, and of nothing else.
THEOREM AcceptedIsTiled == Spec => []Tiled
<1> DEFINE Inv == IInv /\ TileInv /\ NameInv /\ RefuseInv /\ FollowInv
<1>1. Init => Inv
  BY InitInv, TileInit, NameInit, RefuseInit, FollowInit
<1>2. Inv /\ [Next]_vars => Inv'
  BY StepInv, TileStep, NameStep, RefuseStep, FollowStep
<1>3. Inv => Tiled
  <2> SUFFICES ASSUME Inv, pc = "done", ~m_error
               PROVE  /\ Tiles(vec) /\ EndOf(vec) = Size
                      /\ \A cuts \in SUBSET (1 .. Size + 1) :
                           Cuts(cuts, Size + 1) => Directives(vec) = DirectivesOf(cuts)
    BY DEF Tiled
  <2>1. Tiles(vec) /\ EndOf(vec) = Size
    BY EntriesTile
  <2>2. ASSUME NEW cuts \in SUBSET (1 .. Size + 1), Cuts(cuts, Size + 1)
        PROVE  Directives(vec) = DirectivesOf(cuts)
    <3>1. i = Size + 1 /\ Size \in Nat
      BY DEF IInv, TypeOK, Bounds, Size
    <3>2. \A part \in DirectivesOf(cuts) : part[1] \in 1 .. Size /\ PercentAt(part[1])
      BY <2>2, <3>1, PartsOfReading DEF PercentAt
    <3>3. \A part \in DirectivesOf(cuts) : part[1] < i
      BY <3>1, <3>2
    <3>4. Directives(vec) = {part \in DirectivesOf(cuts) : part[1] < i}
      BY <2>2 DEF FollowInv
    <3> QED BY <3>3, <3>4
  <2> QED BY <2>1, <2>2
<1> QED
  BY <1>1, <1>2, <1>3, PTL DEF Spec
=============================================================================

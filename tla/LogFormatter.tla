---------------------------- MODULE LogFormatter ----------------------------
(***************************************************************************)
(* LogFormatter::init, nnysl/log.cpp: one pass over a pattern that cuts it *)
(* into texts and directives, %name or %name{fmt}.                         *)
(*                                                                         *)
(* The pattern is a sequence of characters, each standing for its class:   *)
(* the three the scanner looks for, letters (isalpha), and the rest.  All  *)
(* known directives have names of one letter.  Positions count from 1.     *)
(***************************************************************************)
EXTENDS Integers, Sequences

CONSTANTS
  Chars,         \* what patterns are made of
  Patterns,      \* the patterns a formatter is constructed with
  Letters,       \* the characters isalpha accepts
  Known          \* the names s_format_items has an item for

OpenBrace  == "{"
CloseBrace == "}"

ASSUME LogFormatterAssumption ==
  /\ Patterns \subseteq Seq(Chars)
  /\ Letters \cap {"%", OpenBrace, CloseBrace} = {}
  /\ Known \subseteq Letters

VARIABLES
  m_pattern,
  pc,            \* "scan": in the outer loop, "name": in the inner one,
                 \* "found": past a break of the inner one, "done"
  i, n,          \* the positions of the two loops
  fmt_status,    \* 1 inside { }
  fmt_begin,
  str, fmt,      \* the directive being read
  n_str,         \* the text read since the last entry
  vec,           \* the entries so far, each with the part of the pattern it
                 \* was read from, first .. last (observer)
  m_error

vars == <<m_pattern, pc, i, n, fmt_status, fmt_begin, str, fmt, n_str, vec, m_error>>

Size == Len(m_pattern)

TextEntry(s, first, last) ==
  [kind |-> 0, str |-> s, fmt |-> <<>>, first |-> first, last |-> last]

\* The text of an entry, made of characters or the mark of an error.
PatternError == "<pattern_error>"
Texts == Seq(Chars \cup {PatternError})

Entry == [kind : {0, 1}, str : Texts, fmt : Texts, first : Nat, last : Nat]

TypeOK ==
  /\ m_pattern \in Seq(Chars)
  /\ pc \in {"scan", "name", "found", "done"}
  /\ i \in Nat \ {0} /\ n \in Nat \ {0} /\ fmt_begin \in Nat
  /\ fmt_status \in {0, 1}
  /\ str \in Texts /\ fmt \in Texts /\ n_str \in Texts
  /\ vec \in Seq(Entry)
  /\ m_error \in BOOLEAN

Init ==
  /\ m_pattern \in Patterns
  /\ pc = "scan"
  /\ i = 1 /\ n = 1 /\ fmt_status = 0 /\ fmt_begin = 0
  /\ str = <<>> /\ fmt = <<>> /\ n_str = <<>> /\ vec = <<>>
  /\ m_error = FALSE

-----------------------------------------------------------------------------
(* The outer loop *)

\* The text read since the last entry becomes an entry of its own.
Pending == IF n_str = <<>> THEN <<>> ELSE <<TextEntry(n_str, i - Len(n_str), i - 1)>>

PercentAt(k) == k <= Size /\ m_pattern[k] = "%"

\* Any other character, and a % before another one, which stays to be read.
Text ==
  /\ pc = "scan" /\ i <= Size
  /\ PercentAt(i) => PercentAt(i + 1)
  /\ n_str' = Append(n_str, m_pattern[i])
  /\ i' = i + 1
  /\ UNCHANGED <<m_pattern, pc, n, fmt_status, fmt_begin, str, fmt, vec, m_error>>

Directive ==
  /\ pc = "scan" /\ PercentAt(i) /\ ~PercentAt(i + 1)
  /\ pc' = "name"
  /\ n' = i + 1
  /\ fmt_status' = 0 /\ fmt_begin' = 0
  /\ str' = <<>> /\ fmt' = <<>>
  /\ UNCHANGED <<m_pattern, i, n_str, vec, m_error>>

-----------------------------------------------------------------------------
(* The inner loop, from the character after the % *)

\* Fault variant: } ends a name, as any other character that is no letter.
NameEndsAtBrace ==
  /\ pc = "name" /\ n <= Size /\ fmt_status = 0
  /\ m_pattern[n] \notin Letters \cup {OpenBrace}
  /\ str' = SubSeq(m_pattern, i + 1, n - 1)
  /\ pc' = "found"
  /\ UNCHANGED <<m_pattern, i, n, fmt_status, fmt_begin, fmt, n_str, vec, m_error>>

\* A character that cannot be part of a name; } can.
NameEnds ==
  /\ pc = "name" /\ n <= Size /\ fmt_status = 0
  /\ m_pattern[n] \notin Letters \cup {OpenBrace, CloseBrace}
  /\ str' = SubSeq(m_pattern, i + 1, n - 1)
  /\ pc' = "found"
  /\ UNCHANGED <<m_pattern, i, n, fmt_status, fmt_begin, fmt, n_str, vec, m_error>>

FormatOpens ==
  /\ pc = "name" /\ n <= Size /\ fmt_status = 0
  /\ m_pattern[n] = OpenBrace
  /\ str' = SubSeq(m_pattern, i + 1, n - 1)
  /\ fmt_status' = 1
  /\ fmt_begin' = n
  /\ n' = n + 1
  /\ UNCHANGED <<m_pattern, pc, i, fmt, n_str, vec, m_error>>

FormatCloses ==
  /\ pc = "name" /\ n <= Size /\ fmt_status = 1
  /\ m_pattern[n] = CloseBrace
  /\ fmt' = SubSeq(m_pattern, fmt_begin + 1, n - 1)
  /\ fmt_status' = 0
  /\ n' = n + 1
  /\ pc' = "found"
  /\ UNCHANGED <<m_pattern, i, fmt_begin, str, n_str, vec, m_error>>

\* Fault variant: inside { } the loop continues before it has moved on.
ConsumeStays ==
  /\ pc = "name" /\ n <= Size
  /\ m_pattern[n] = CloseBrace => fmt_status = 0
  /\ fmt_status = 0 => m_pattern[n] \in Letters \cup {CloseBrace}
  /\ n' = IF fmt_status = 0 THEN n + 1 ELSE n
  /\ str' = IF n = Size /\ str = <<>> THEN SubSeq(m_pattern, i + 1, Size) ELSE str
  /\ UNCHANGED <<m_pattern, pc, i, fmt_status, fmt_begin, fmt, n_str, vec, m_error>>

\* The next character of a name, or inside { }.  At the end of the pattern
\* what is left is the name, unless there is one.
Consume ==
  /\ pc = "name" /\ n <= Size
  /\ m_pattern[n] = CloseBrace => fmt_status = 0
  /\ fmt_status = 0 => m_pattern[n] \in Letters \cup {CloseBrace}
  /\ n' = n + 1
  /\ str' = IF n = Size /\ str = <<>> THEN SubSeq(m_pattern, i + 1, Size) ELSE str
  /\ UNCHANGED <<m_pattern, pc, i, fmt_status, fmt_begin, fmt, n_str, vec, m_error>>

\* The inner loop is over.
LoopEnds == pc = "found" \/ (pc = "name" /\ n > Size)

\* Fault variants: the text before the directive comes after it; the loop's
\* own ++i is forgotten, so a character is skipped.
PushSwapped ==
  /\ LoopEnds /\ fmt_status = 0
  /\ vec' = Append(vec, [kind |-> 1, str |-> str, fmt |-> fmt, first |-> i, last |-> n - 1])
              \o Pending
  /\ n_str' = <<>>
  /\ i' = n
  /\ pc' = "scan"
  /\ UNCHANGED <<m_pattern, n, fmt_status, fmt_begin, str, fmt, m_error>>

PushSkips ==
  /\ LoopEnds /\ fmt_status = 0
  /\ vec' = Append(vec \o Pending,
                   [kind |-> 1, str |-> str, fmt |-> fmt, first |-> i, last |-> n - 1])
  /\ n_str' = <<>>
  /\ i' = n + 1
  /\ pc' = "scan"
  /\ UNCHANGED <<m_pattern, n, fmt_status, fmt_begin, str, fmt, m_error>>

\* A directive is complete; scanning goes on behind it.
Push ==
  /\ LoopEnds /\ fmt_status = 0
  /\ vec' = Append(vec \o Pending,
                   [kind |-> 1, str |-> str, fmt |-> fmt, first |-> i, last |-> n - 1])
  /\ n_str' = <<>>
  /\ i' = n
  /\ pc' = "scan"
  /\ UNCHANGED <<m_pattern, n, fmt_status, fmt_begin, str, fmt, m_error>>

\* A { without a }: an error entry, before the text that led up to it, and the
\* directive is read again as text from the character after the %.
Unterminated ==
  /\ LoopEnds /\ fmt_status = 1
  /\ vec' = Append(vec, TextEntry(<<PatternError>>, i, i))
  /\ m_error' = TRUE
  /\ i' = i + 1
  /\ pc' = "scan"
  /\ UNCHANGED <<m_pattern, n, fmt_status, fmt_begin, str, fmt, n_str>>

-----------------------------------------------------------------------------
\* The item an entry becomes; an unknown name becomes a text.
IsKnown(entry) == \E c \in Known : entry.str = <<c>>

\* The end of the pattern: the last text is an entry, and every entry an item.
Items ==
  /\ pc = "scan" /\ i > Size
  /\ vec' = vec \o Pending
  /\ n_str' = <<>>
  /\ m_error' = (m_error \/ \E k \in 1 .. Len(vec') : vec'[k].kind = 1 /\ ~IsKnown(vec'[k]))
  /\ pc' = "done"
  /\ UNCHANGED <<m_pattern, i, n, fmt_status, fmt_begin, str, fmt>>

Done == pc = "done" /\ UNCHANGED vars

Next ==
  \/ Text \/ Directive
  \/ NameEnds \/ FormatOpens \/ FormatCloses \/ Consume
  \/ Push \/ Unterminated \/ Items
  \/ Done

Spec == Init /\ [][Next]_vars

\* A constructor, once called, runs.
FairSpec == Spec /\ WF_vars(Next)

-----------------------------------------------------------------------------
(* Properties *)

\* What substr is given, and where the loops stand: pos never passes the size,
\* or std::out_of_range would leave the constructor of every logger.
Bounds ==
  /\ i <= Size + 1
  /\ Len(n_str) < i
  /\ pc = "name" => i < n /\ n <= Size + 1 /\ m_pattern[i] = "%"
  /\ pc = "found" => i < n /\ n <= Size + 1 /\ fmt_status = 0
  /\ pc = "name" /\ fmt_status = 1 => i < fmt_begin /\ fmt_begin < n
  /\ pc = "done" => i = Size + 1

IInv == TypeOK /\ Bounds

\* An entry says what its part of the pattern says; an empty { } is as none.
ReadRight(entry) ==
  LET part == SubSeq(m_pattern, entry.first, entry.last) IN
    IF entry.kind = 0 THEN entry.str = part
    ELSE \/ entry.fmt = <<>> /\ <<"%">> \o entry.str = part
         \/ <<"%">> \o entry.str \o (<<OpenBrace>> \o entry.fmt \o <<CloseBrace>>) = part

\* Entries side by side, from the first character to EndOf.
Tiles(entries) ==
  \A k \in 1 .. Len(entries) :
    /\ entries[k].first = (IF k = 1 THEN 1 ELSE entries[k - 1].last + 1)
    /\ ReadRight(entries[k])

EndOf(entries) == IF entries = <<>> THEN 0 ELSE entries[Len(entries)].last

\* A reading of the pattern that knows nothing of the scanner.  A part from
\* position a up to, and without, b is
NameChars == Letters \cup {OpenBrace, CloseBrace}

Part(a, b) ==
  \/ b = a + 1 /\ m_pattern[a] # "%"                    \* a character
  \/ b = a + 1 /\ PercentAt(a) /\ PercentAt(a + 1)      \* a % before another
  \/ /\ PercentAt(a) /\ a < Size /\ m_pattern[a + 1] \in Known
     /\ \/ b = a + 2 /\ (b <= Size => m_pattern[b] \notin NameChars)   \* %d
        \/ /\ b >= a + 4                                               \* %d{...}
           /\ m_pattern[a + 2] = OpenBrace /\ m_pattern[b - 1] = CloseBrace
           /\ \A k \in a + 3 .. b - 2 : m_pattern[k] # CloseBrace

\* The positions in cuts cut what lies before position e into parts.
Cuts(cuts, e) ==
  /\ {1, e} \subseteq cuts /\ cuts \subseteq 1 .. e
  /\ \A a \in cuts \ {e} :
       \E b \in cuts : a < b /\ Part(a, b) /\ \A c \in cuts : c <= a \/ b <= c

WellFormed == \E cuts \in SUBSET (1 .. Size + 1) : Cuts(cuts, Size + 1)

\* The directives among entries, and those of a reading, each with its part.
Directives(entries) ==
  {<<entries[k].first, entries[k].last + 1>> : k \in {j \in 1 .. Len(entries) : entries[j].kind = 1}}

DirectivesOf(cuts) ==
  {part \in cuts \X cuts :
     Part(part[1], part[2]) /\ PercentAt(part[1]) /\ ~PercentAt(part[1] + 1)}

\* The entries of an accepted pattern lie side by side in the order of the
\* pattern, nothing is left out or read twice, each is what its part of the
\* pattern says, and the directives are exactly those of the reading.
Tiled ==
  pc = "done" /\ ~m_error =>
    /\ Tiles(vec) /\ EndOf(vec) = Size
    /\ \A cuts \in SUBSET (1 .. Size + 1) :
         Cuts(cuts, Size + 1) => Directives(vec) = DirectivesOf(cuts)

\* The formatter reports an error exactly for the patterns that cannot be read:
\* nothing wrong is accepted, and nothing right refused.  A } right after a name
\* makes a pattern wrong, and %% is a percent sign only as the start of a
\* directive, so a pattern cannot end in one.
RefusedIfMalformed == pc = "done" => (m_error <=> ~WellFormed)

\* How far the scanner is behind the character it stands at.
Behind ==
  IF pc = "scan" THEN 0
  ELSE IF pc = "name" THEN n - i
  ELSE IF pc = "found" THEN Size + 1 ELSE Size + 2

\* No step goes back: the scanner moves on in the pattern, or further behind the
\* character it stands at, and there is an end to both.  So a pattern of k
\* characters is read in at most (k + 1) * (k + 3) steps, though a { without a }
\* is read to the end of the pattern and then once more.
Advances ==
  [][/\ i' > i \/ (i' = i /\ Behind' > Behind)
     /\ i' <= Size + 1 /\ Behind' <= Size + 2
     /\ UNCHANGED m_pattern]_vars

\* Every pattern is read to its end.
Terminates == <>(pc = "done")
=============================================================================
